---------------------------- MODULE WriteOnceProofs ----------------------------
(***************************************************************************)
(* Proofs about WriteOnce for any number of writers and contents, any of   *)
(* which may fail or die, and about the launches that share a blob.        *)
(***************************************************************************)
EXTENDS LaunchStore, TLAPS

\* The shape of the variables; the process that created the file is the only
\* one between the create and the end of the write.
WriteInv ==
  /\ pc \in [Writers -> {"open", "compare", "write", "sync", "stored", "found",
                         "refused", "withdrawn", "killed"}]
  /\ file \in [state : {"absent", "partial", "full"}, by : Writers \cup {None}]
  /\ file.state = "absent" <=> file = Absent
  /\ file # Absent => file.by \in Writers
  /\ OneCreator

\* WriteInv is inductive, write errors included.
THEOREM WriteInvariance == Spec => []WriteInv
<1>1. Init => WriteInv
  BY DEF Init, WriteInv, OneCreator, Absent
<1>2. WriteInv /\ [Next]_vars => WriteInv'
  <2> SUFFICES ASSUME WriteInv, [Next]_vars PROVE WriteInv'
    OBVIOUS
  <2> USE WriteOnceAssumption DEF WriteInv, OneCreator, Goto, Absent
  <2>1. ASSUME NEW w \in Writers, Create(w) PROVE WriteInv'
    BY <2>1 DEF Create
  <2>2. ASSUME NEW w \in Writers, Exists(w) PROVE WriteInv'
    BY <2>2 DEF Exists
  <2>3. ASSUME NEW w \in Writers, Compare(w) PROVE WriteInv'
    BY <2>3 DEF Compare
  <2>4. ASSUME NEW w \in Writers, RaiseError(w) PROVE WriteInv'
    BY <2>4 DEF RaiseError
  <2>5. ASSUME NEW w \in Writers, Write(w) PROVE WriteInv'
    BY <2>5 DEF Write
  <2>6. ASSUME NEW w \in Writers, Sync(w) PROVE WriteInv'
    BY <2>6 DEF Sync
  <2>7. ASSUME NEW w \in Writers, Unlink(w) PROVE WriteInv'
    BY <2>7 DEF Unlink
  <2>8. ASSUME NEW w \in Writers, Kill(w) PROVE WriteInv'
    BY <2>8 DEF Kill
  <2>9. CASE UNCHANGED vars
    BY <2>9 DEF vars
  <2> QED
    BY <2>1, <2>2, <2>3, <2>4, <2>5, <2>6, <2>7, <2>8, <2>9 DEF Next, WriteStep
<1> QED
  BY <1>1, <1>2, PTL DEF Spec

\* Only its creator writes or unlinks a file (O_EXCL in _write_once).
THEOREM OneCreatorHolds == Spec => []OneCreator
<1>1. WriteInv => OneCreator
  BY DEF WriteInv
<1> QED
  BY <1>1, WriteInvariance, PTL

\* Whichever writers fail or die, bytes are lost to a writer that was told they
\* are stored only if it did not write them itself and the fsync of the one that
\* did has failed (except clause of _write_once).
THEOREM LossNeedsFailure == Spec => []LostOnlyByFailure
<1>1. Init => LostOnlyByFailure
  BY DEF Init, LostOnlyByFailure
<1>2. WriteInv /\ LostOnlyByFailure /\ [Next]_vars => LostOnlyByFailure'
  <2> SUFFICES ASSUME WriteInv, LostOnlyByFailure, [Next]_vars PROVE LostOnlyByFailure'
    OBVIOUS
  <2> USE WriteOnceAssumption DEF WriteInv, OneCreator, LostOnlyByFailure, SameBytes, Goto, Absent
  <2>1. ASSUME NEW w \in Writers, Create(w) PROVE LostOnlyByFailure'
    BY <2>1 DEF Create
  <2>2. ASSUME NEW w \in Writers, Exists(w) \/ RaiseError(w) \/ Kill(w) PROVE LostOnlyByFailure'
    BY <2>2 DEF Exists, RaiseError, Kill
  <2>3. ASSUME NEW w \in Writers, Compare(w) PROVE LostOnlyByFailure'
    BY <2>3 DEF Compare
  <2>4. ASSUME NEW w \in Writers, Write(w) PROVE LostOnlyByFailure'
    BY <2>4 DEF Write
  <2>5. ASSUME NEW w \in Writers, Sync(w) PROVE LostOnlyByFailure'
    BY <2>5 DEF Sync
  <2>6. ASSUME NEW w \in Writers, Unlink(w) PROVE LostOnlyByFailure'
    BY <2>6 DEF Unlink
  <2>7. CASE UNCHANGED vars
    BY <2>7 DEF vars
  <2> QED
    BY <2>1, <2>2, <2>3, <2>4, <2>5, <2>6, <2>7 DEF Next, WriteStep
<1> QED
  BY <1>1, <1>2, WriteInvariance, PTL DEF Spec

\* _write_once implements ImmutableObject, whichever writers die or fail and
\* whether or not others want the same bytes.
THEOREM ImplementsImmutable == Spec => Immutable
<1> DEFINE stored == IF file.state = "full" THEN ContentOf[file.by] ELSE None
<1>1. Init => Object!Init
  BY DEF Init, Object!Init, AbsReply, AbsOwner, Told, Absent
<1>2. WriteInv /\ [Next]_vars => [Object!Next]_(Object!vars)
  <2> SUFFICES ASSUME WriteInv, [Next]_vars PROVE Object!Next \/ UNCHANGED Object!vars
    OBVIOUS
  <2> USE WriteOnceAssumption DEF WriteInv, OneCreator, Goto, Absent, Told
  <2>a. \A w \in Writers : AbsReply[w] = (IF Told(w) THEN "ok"
          ELSE IF pc[w] \in {"refused", "withdrawn"} THEN "refused" ELSE "none")
    BY DEF AbsReply
  <2>b. \A w \in Writers : AbsOwner = w <=> pc[w] = "sync"
    BY DEF AbsOwner
  <2>1. ASSUME NEW w \in Writers, Create(w) \/ Exists(w) PROVE UNCHANGED Object!vars
    <3>1. AbsReply' = AbsReply
      BY <2>1 DEF AbsReply, Create, Exists
    <3>2. stored' = stored /\ AbsOwner' = AbsOwner
      BY <2>1 DEF Create, Exists, AbsOwner
    <3> QED
      BY <3>1, <3>2 DEF Object!vars
  <2>2. ASSUME NEW w \in Writers, Compare(w) \/ RaiseError(w)
        PROVE  Object!Accept(w) \/ Object!Refuse(w)
    <3>1. file' = file /\ AbsOwner # w /\ AbsReply[w] = "none"
      BY <2>2, <2>a, <2>b DEF Compare, RaiseError
    <3>2. AbsOwner' = AbsOwner
      BY <2>2 DEF Compare, RaiseError, AbsOwner
    <3>3. \/ AbsReply' = [AbsReply EXCEPT ![w] = "ok"] /\ SameBytes(w)
          \/ AbsReply' = [AbsReply EXCEPT ![w] = "refused"]
      <4>1. CASE pc' = [pc EXCEPT ![w] = "found"] /\ SameBytes(w)
        BY <4>1, <2>2 DEF AbsReply
      <4>2. CASE pc' = [pc EXCEPT ![w] = "refused"]
        BY <4>2, <2>2 DEF AbsReply
      <4> QED
        BY <4>1, <4>2, <2>2 DEF Compare, RaiseError
    <3> QED
      BY <3>1, <3>2, <3>3 DEF Object!Accept, Object!Refuse, SameBytes
  <2>3. ASSUME NEW w \in Writers, Write(w) PROVE Object!Store(w)
    <3>1. AbsReply' = AbsReply /\ AbsReply[w] = "none"
      BY <2>3 DEF AbsReply, Write
    <3>2. stored = None /\ stored' = ContentOf[w] /\ AbsOwner' = w
      BY <2>3 DEF Write, AbsOwner
    <3> QED
      BY <3>1, <3>2 DEF Object!Store
  <2>4. ASSUME NEW w \in Writers, Sync(w) PROVE Object!Settle(w)
    <3>1. AbsReply' = [AbsReply EXCEPT ![w] = "ok"] /\ AbsReply[w] = "none"
      BY <2>4 DEF AbsReply, Sync
    <3>2. stored' = stored /\ AbsOwner = w /\ AbsOwner' = None
      BY <2>4 DEF Sync, AbsOwner
    <3> QED
      BY <3>1, <3>2 DEF Object!Settle
  <2>5. ASSUME NEW w \in Writers, Unlink(w) PROVE Object!Refuse(w) \/ Object!Withdraw(w)
    <3>1. AbsReply' = [AbsReply EXCEPT ![w] = "refused"] /\ AbsReply[w] = "none"
      BY <2>5 DEF AbsReply, Unlink
    <3>2. stored' = None /\ AbsOwner' = None
      BY <2>5 DEF Unlink, AbsOwner
    <3>3. AbsOwner = w \/ (AbsOwner = None /\ stored = None)
      BY <2>5 DEF Unlink, AbsOwner
    <3> QED
      BY <3>1, <3>2, <3>3 DEF Object!Refuse, Object!Withdraw
  <2>6. ASSUME NEW w \in Writers, Kill(w) PROVE Object!Settle(w) \/ UNCHANGED Object!vars
    <3>1. AbsReply' = AbsReply /\ AbsReply[w] = "none" /\ stored' = stored
      BY <2>6 DEF AbsReply, Kill
    <3>2. CASE pc[w] = "sync"
      <4>1. AbsOwner = w /\ AbsOwner' = None
        BY <2>6, <3>2 DEF Kill, AbsOwner
      <4> QED
        BY <3>1, <4>1 DEF Object!Settle
    <3>3. CASE pc[w] # "sync"
      <4>1. AbsOwner' = AbsOwner
        BY <2>6, <3>3 DEF Kill, AbsOwner
      <4> QED
        BY <3>1, <4>1 DEF Object!vars
    <3> QED
      BY <3>2, <3>3
  <2>7. CASE UNCHANGED vars
    BY <2>7 DEF vars, AbsReply, AbsOwner, Object!vars
  <2> QED
    BY <2>1, <2>2, <2>3, <2>4, <2>5, <2>6, <2>7 DEF Next, WriteStep, Object!Next
<1> QED
  BY <1>1, <1>2, WriteInvariance, PTL DEF Spec, Immutable, Object!Spec

-----------------------------------------------------------------------------
(* The launches that share a blob.                                         *)

\* A step of a launch is a step of run_claude_session or of _write_once, or of
\* both, so the launches keep what SessionLaunch and WriteOnce promise.
THEOREM LaunchesCompose == StoreSpec => LaunchSpec /\ Spec
<1>1. StoreInit => LaunchInit /\ Init
  BY DEF StoreInit
<1>2. [StoreNext]_storeVars => [LaunchNext]_launchVars /\ [Next]_vars
  <2> SUFFICES ASSUME [StoreNext]_storeVars PROVE [LaunchNext]_launchVars /\ [Next]_vars
    OBVIOUS
  <2> USE StoreAssumption
  <2>1. ASSUME NEW l \in Launchers, ProducerRef(l) PROVE UNCHANGED launchVars /\ Next
    BY <2>1 DEF ProducerRef, Next
  <2>2. ASSUME NEW l \in Launchers, SessionWithRef(l) \/ RefusedStart(l) \/ LaunchOnly(l)
        PROVE  LaunchNext /\ UNCHANGED vars
    BY <2>2 DEF SessionWithRef, RefusedStart, LaunchOnly, LaunchNext, Launch
  <2>3. ASSUME NEW l \in Launchers, Outside(l) PROVE LaunchNext /\ UNCHANGED vars
    BY <2>3 DEF Outside, LaunchNext
  <2>4. ASSUME NEW l \in Launchers, KillStart(l) PROVE LaunchNext /\ [Next]_vars
    <3>1. Kill(l) \/ UNCHANGED vars
      BY <2>4 DEF KillStart
    <3> QED
      BY <2>4, <3>1 DEF KillStart, LaunchNext, Next
  <2>5. CASE UNCHANGED storeVars
    BY <2>5 DEF storeVars
  <2> QED
    BY <2>1, <2>2, <2>3, <2>4, <2>5 DEF StoreNext, StoreStep
<1> QED
  BY <1>1, <1>2, PTL DEF StoreSpec, LaunchSpec, Spec

\* Launches that share a blob implement ImmutableObject for it.
THEOREM LaunchesImplementImmutable == StoreSpec => Immutable /\ []LostOnlyByFailure
BY LaunchesCompose, ImplementsImmutable, LossNeedsFailure, PTL
=============================================================================
