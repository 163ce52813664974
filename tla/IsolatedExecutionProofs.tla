---------------------- MODULE IsolatedExecutionProofs ----------------------
(***************************************************************************)
(* The bounded drain of run_isolated_python is exact for every limit,      *)
(* chunk, pipe and amount of output: what is kept is the prefix read so    *)
(* far, and a "completed" result is the prefix of all that was written.    *)
(***************************************************************************)
EXTENDS IsolatedExecution, TLAPS

\* A stream leaves the selector at its end of file, for good, unless the cleanup
\* deadline closed it.
DrainedInv ==
  /\ \A s \in Streams : ~timedOut /\ s \notin registered => pipe[s] = 0 /\ ~WriterLeft(s)
  /\ pc \in {"wait", "wait_again", "result"} => registered = {}

\* What the positions after the loop know of the child, and the result of the position
\* it was returned from.
ReturnInv ==
  /\ pc = "launch" => child = "none" /\ \A s \in Streams : ~WriterLeft(s)
  /\ pc = "wait_again" => signalled
  /\ pc = "ended" => child \in {"none", "reaped"} \/ signalled
  /\ pc = "result" => child = "reaped"
  /\ status # "none" => pc = "ended"
  /\ status = "completed" => ~timedOut /\ registered = {} /\ child = "reaped"
  /\ status = "timeout" => timedOut /\ child = "reaped"

IInv == TypeOK /\ RetainedIsPrefix /\ DrainedInv /\ ReturnInv

\* _append_bounded for every limit: keeping what fits of the next n units of a stream,
\* of which the first Limit are kept, keeps the first Limit units of all of them.
LEMMA PrefixExtends ==
  ASSUME NEW g \in Nat, NEW n \in Nat, NEW r \in Nat, r = Least(Limit, g)
  PROVE  /\ r + Least(n, Limit - r) = Least(Limit, g + n)
         /\ r + Least(n, Limit - r) \in Nat
         /\ (g > Limit \/ n > Limit - r) <=> g + n > Limit
  BY SizesAssumption DEF Least

\* Nothing has been read or written before the launch.
LEMMA InitIInv == Init => IInv
<1> SUFFICES ASSUME Init PROVE IInv
  OBVIOUS
<1>1. TypeOK
  BY DEF Init, TypeOK, Streams, Zero
<1>2. RetainedIsPrefix
  BY SizesAssumption DEF Init, RetainedIsPrefix, Zero, Least
<1>3. DrainedInv /\ ReturnInv
  BY DEF Init, DrainedInv, ReturnInv, WriterLeft, Zero
<1> QED BY <1>1, <1>2, <1>3 DEF IInv

\* The only step that changes what is kept: one read of one stream.
LEMMA ReadIInv == ASSUME IInv, NEW s \in Streams, Read(s) PROVE IInv'
<1> USE DEF IInv, TypeOK
<1>1. CASE pipe[s] = 0
  BY <1>1 DEF Read, RetainedIsPrefix, DrainedInv, ReturnInv, WriterLeft, clockVars
<1>2. CASE pipe[s] > 0
  <2> DEFINE n == Least(Chunk, pipe[s])
  <2>1. n \in Nat /\ pipe[s] - n \in Nat
    BY <1>2, SizesAssumption DEF Least
  <2>2. /\ AppendBounded(s, n)
        /\ got' = [got EXCEPT ![s] = @ + n]
        /\ pipe' = [pipe EXCEPT ![s] = @ - n]
        /\ UNCHANGED <<registered, pc, timedOut, status, clockVars, child, signalled, writers,
                       fed, boundary, written>>
        /\ ready' = ready \ {s}
    BY <1>2 DEF Read
  <2> HIDE DEF n
  <2>3. /\ retained[s] + Least(n, Limit - retained[s]) = Least(Limit, got[s] + n)
        /\ retained[s] + Least(n, Limit - retained[s]) \in Nat
        /\ (got[s] > Limit \/ n > Limit - retained[s]) <=> got[s] + n > Limit
    <3>1. got[s] \in Nat /\ retained[s] \in Nat /\ retained[s] = Least(Limit, got[s])
      BY DEF RetainedIsPrefix
    <3> QED BY <2>1, <3>1, PrefixExtends
  <2>4. /\ retained' = [retained EXCEPT ![s] = Least(Limit, got[s] + n)]
        /\ truncated' = [truncated EXCEPT ![s] = @ \/ n > Limit - retained[s]]
    BY <2>2, <2>3 DEF AppendBounded
  <2>5. TypeOK'
    BY <2>1, <2>2, <2>3, <2>4 DEF clockVars
  <2>6. RetainedIsPrefix'
    <3> SUFFICES ASSUME NEW t \in Streams
                 PROVE  /\ got'[t] + pipe'[t] = written'[t]
                        /\ retained'[t] = Least(Limit, got'[t])
                        /\ truncated'[t] <=> got'[t] > Limit
      BY DEF RetainedIsPrefix
    <3>1. /\ got[t] + pipe[t] = written[t]
          /\ retained[t] = Least(Limit, got[t])
          /\ truncated[t] <=> got[t] > Limit
      BY DEF RetainedIsPrefix
    <3>2. got'[t] + pipe'[t] = written'[t] /\ retained'[t] = Least(Limit, got'[t])
      BY <2>1, <2>2, <2>4, <3>1
    <3>3. CASE t # s
      BY <2>2, <2>4, <3>1, <3>2, <3>3
    <3>4. CASE t = s
      <4>1. truncated'[s] <=> truncated[s] \/ n > Limit - retained[s]
        BY <2>4
      <4>2. got'[s] = got[s] + n
        BY <2>2
      <4> QED BY <2>3, <3>1, <3>2, <3>4, <4>1, <4>2
    <3> QED BY <3>3, <3>4
  <2>7. DrainedInv' /\ ReturnInv'
    BY <1>2, <2>2 DEF DrainedInv, ReturnInv, WriterLeft
  <2> QED BY <2>5, <2>6, <2>7
<1> QED BY <1>1, <1>2

\* Every step of the launcher, the sandbox and the clock preserves IInv.
LEMMA NextIInv == IInv /\ [Next]_vars => IInv'
<1> SUFFICES ASSUME IInv, [Next]_vars PROVE IInv'
  OBVIOUS
<1> USE DEF launcherVars, clockVars, sandboxVars
<1>0. TypeOK /\ RetainedIsPrefix /\ DrainedInv /\ ReturnInv
  BY DEF IInv
<1>1. CASE Launch
  <2>1. TypeOK'
    <3>1. writers' \in [Streams -> SUBSET {"child", "descendant"}]
      BY <1>0, <1>1 DEF Launch, TypeOK
    <3>2. /\ pc' \in {"ended", "stdin"} /\ status' \in {status, "unavailable"}
          /\ child' \in {child, "running"} /\ registered' \in {registered, Streams}
          /\ UNCHANGED <<ready, retained, truncated, timedOut, got, clockVars,
                         signalled, fed, boundary, pipe, written>>
      BY <1>1 DEF Launch
    <3> QED BY <1>0, <3>1, <3>2 DEF TypeOK
  <2>2. RetainedIsPrefix'
    BY <1>0, <1>1 DEF Launch, RetainedIsPrefix
  <2>3. DrainedInv'
    BY <1>0, <1>1 DEF Launch, DrainedInv, WriterLeft, ReturnInv
  <2>4. ReturnInv'
    BY <1>0, <1>1 DEF Launch, ReturnInv, WriterLeft
  <2> QED BY <2>1, <2>2, <2>3, <2>4 DEF IInv
<1>2. CASE FeedStdin
  <2>1. TypeOK'
    BY <1>0, <1>2 DEF FeedStdin, TypeOK
  <2>2. RetainedIsPrefix'
    BY <1>0, <1>2 DEF FeedStdin, RetainedIsPrefix
  <2>3. DrainedInv'
    BY <1>0, <1>2 DEF FeedStdin, DrainedInv, WriterLeft
  <2>4. ReturnInv'
    BY <1>0, <1>2 DEF FeedStdin, ReturnInv, WriterLeft
  <2> QED BY <2>1, <2>2, <2>3, <2>4 DEF IInv
<1>3. CASE Poll
  <2>1. TypeOK'
    BY <1>0, <1>3 DEF Poll, TypeOK
  <2>2. RetainedIsPrefix'
    BY <1>0, <1>3 DEF Poll, RetainedIsPrefix
  <2>3. DrainedInv'
    BY <1>0, <1>3 DEF Poll, DrainedInv, WriterLeft
  <2>4. ReturnInv'
    BY <1>0, <1>3 DEF Poll, ReturnInv, WriterLeft
  <2> QED BY <2>1, <2>2, <2>3, <2>4 DEF IInv
<1>4. CASE CheckClock
  <2>1. TypeOK'
    BY <1>0, <1>4 DEF CheckClock, TypeOK
  <2>2. RetainedIsPrefix'
    BY <1>0, <1>4 DEF CheckClock, RetainedIsPrefix
  <2>3. DrainedInv'
    BY <1>0, <1>4 DEF CheckClock, DrainedInv, WriterLeft
  <2>4. ReturnInv'
    BY <1>0, <1>4 DEF CheckClock, ReturnInv, WriterLeft
  <2> QED BY <2>1, <2>2, <2>3, <2>4 DEF IInv
<1>5. CASE Select
  <2>1. TypeOK'
    BY <1>0, <1>5 DEF Select, TypeOK
  <2>2. RetainedIsPrefix'
    BY <1>0, <1>5 DEF Select, RetainedIsPrefix
  <2>3. DrainedInv'
    BY <1>0, <1>5 DEF Select, DrainedInv, WriterLeft
  <2>4. ReturnInv'
    BY <1>0, <1>5 DEF Select, ReturnInv, WriterLeft
  <2> QED BY <2>1, <2>2, <2>3, <2>4 DEF IInv
<1>6. ASSUME NEW s \in Streams, Read(s) PROVE IInv'
  BY <1>6, ReadIInv
<1>7. CASE ReadDone
  <2>1. TypeOK'
    BY <1>0, <1>7 DEF ReadDone, TypeOK
  <2>2. RetainedIsPrefix'
    BY <1>0, <1>7 DEF ReadDone, RetainedIsPrefix
  <2>3. DrainedInv'
    BY <1>0, <1>7 DEF ReadDone, DrainedInv, WriterLeft
  <2>4. ReturnInv'
    BY <1>0, <1>7 DEF ReadDone, ReturnInv, WriterLeft
  <2> QED BY <2>1, <2>2, <2>3, <2>4 DEF IInv
<1>8. CASE Wait
  <2>1. TypeOK'
    BY <1>0, <1>8 DEF Wait, TypeOK
  <2>2. RetainedIsPrefix'
    BY <1>0, <1>8 DEF Wait, RetainedIsPrefix
  <2>3. DrainedInv'
    BY <1>0, <1>8 DEF Wait, DrainedInv, WriterLeft
  <2>4. ReturnInv'
    BY <1>0, <1>8 DEF Wait, ReturnInv, WriterLeft
  <2> QED BY <2>1, <2>2, <2>3, <2>4 DEF IInv
<1>9. CASE Result
  <2>1. TypeOK'
    BY <1>0, <1>9 DEF Result, TypeOK
  <2>2. RetainedIsPrefix'
    BY <1>0, <1>9 DEF Result, RetainedIsPrefix
  <2>3. DrainedInv'
    BY <1>0, <1>9 DEF Result, DrainedInv, WriterLeft
  <2>4. ReturnInv'
    BY <1>0, <1>9 DEF Result, ReturnInv, DrainedInv, WriterLeft
  <2> QED BY <2>1, <2>2, <2>3, <2>4 DEF IInv
<1>10. ASSUME NEW s \in Streams, Write(s) PROVE IInv'
  <2>1. TypeOK'
    BY <1>0, <1>10 DEF Write, TypeOK
  <2>2. RetainedIsPrefix'
    BY <1>0, <1>10 DEF Write, TypeOK, RetainedIsPrefix
  <2>3. DrainedInv'
    BY <1>0, <1>10 DEF Write, TypeOK, DrainedInv, WriterLeft
  <2>4. ReturnInv'
    BY <1>0, <1>10 DEF Write, ReturnInv, WriterLeft
  <2> QED BY <2>1, <2>2, <2>3, <2>4 DEF IInv
<1>11. CASE ReadStdin
  <2>1. TypeOK'
    BY <1>0, <1>11 DEF ReadStdin, TypeOK
  <2>2. RetainedIsPrefix'
    BY <1>0, <1>11 DEF ReadStdin, RetainedIsPrefix
  <2>3. DrainedInv'
    BY <1>0, <1>11 DEF ReadStdin, DrainedInv, WriterLeft
  <2>4. ReturnInv'
    BY <1>0, <1>11 DEF ReadStdin, ReturnInv, WriterLeft
  <2> QED BY <2>1, <2>2, <2>3, <2>4 DEF IInv
<1>12. CASE Fork
  <2>1. TypeOK'
    BY <1>0, <1>12 DEF Fork, TypeOK
  <2>2. RetainedIsPrefix'
    BY <1>0, <1>12 DEF Fork, RetainedIsPrefix
  <2>3. DrainedInv'
    BY <1>0, <1>12 DEF Fork, DrainedInv, WriterLeft
  <2>4. ReturnInv'
    BY <1>0, <1>12 DEF Fork, ReturnInv, WriterLeft
  <2> QED BY <2>1, <2>2, <2>3, <2>4 DEF IInv
<1>13. CASE ChildExits
  <2>1. TypeOK'
    BY <1>0, <1>13 DEF ChildExits, TypeOK
  <2>2. RetainedIsPrefix'
    BY <1>0, <1>13 DEF ChildExits, RetainedIsPrefix
  <2>3. DrainedInv'
    BY <1>0, <1>13 DEF ChildExits, DrainedInv, WriterLeft, TypeOK
  <2>4. ReturnInv'
    BY <1>0, <1>13 DEF ChildExits, ReturnInv, WriterLeft
  <2> QED BY <2>1, <2>2, <2>3, <2>4 DEF IInv
<1>14. ASSUME NEW s \in Streams, NEW who \in {"child", "descendant"}, Close(who, s) PROVE IInv'
  <2>1. TypeOK'
    <3>1. writers' \in [Streams -> SUBSET {"child", "descendant"}]
      BY <1>0, <1>14 DEF Close, TypeOK
    <3>2. UNCHANGED <<pc, launcherVars, clockVars, child, signalled, fed, boundary, pipe, written>>
      BY <1>14 DEF Close
    <3> QED BY <1>0, <3>1, <3>2 DEF TypeOK
  <2>2. RetainedIsPrefix'
    BY <1>0, <1>14 DEF Close, RetainedIsPrefix
  <2>3. DrainedInv'
    BY <1>0, <1>14 DEF Close, DrainedInv, WriterLeft, TypeOK
  <2>4. ReturnInv'
    BY <1>0, <1>14 DEF Close, ReturnInv, WriterLeft, TypeOK
  <2> QED BY <2>1, <2>2, <2>3, <2>4 DEF IInv
<1>15. CASE Tick
  <2>1. TypeOK'
    <3>1. late' \in BOOLEAN /\ cleanupLate' \in BOOLEAN
      BY <1>0, <1>15 DEF Tick, TypeOK
    <3>2. UNCHANGED <<pc, launcherVars, sandboxVars>>
      BY <1>15 DEF Tick
    <3> QED BY <1>0, <3>1, <3>2 DEF TypeOK
  <2>2. RetainedIsPrefix'
    BY <1>0, <1>15 DEF Tick, RetainedIsPrefix
  <2>3. DrainedInv'
    BY <1>0, <1>15 DEF Tick, DrainedInv, WriterLeft
  <2>4. ReturnInv'
    BY <1>0, <1>15 DEF Tick, ReturnInv, WriterLeft
  <2> QED BY <2>1, <2>2, <2>3, <2>4 DEF IInv
<1>16. CASE UNCHANGED vars
  BY <1>16 DEF vars, IInv, TypeOK, RetainedIsPrefix, DrainedInv, ReturnInv, WriterLeft
<1> QED
  BY <1>1, <1>2, <1>3, <1>4, <1>5, <1>6, <1>7, <1>8, <1>9, <1>10, <1>11, <1>12, <1>13,
     <1>14, <1>15, <1>16 DEF Next, Launcher, Sandbox

LEMMA Invariance == Spec => []IInv
  BY InitIInv, NextIInv, PTL DEF Spec

\* The variables keep their types; in particular the counts never go below zero.
THEOREM ExecutionTyped == Spec => []TypeOK
  BY Invariance, PTL DEF IInv

\* What run_isolated_python keeps of a stream is exactly the first Limit units read so
\* far, flagged exactly when more was read, for every limit and chunk.
THEOREM RetainsPrefix == Spec => []RetainedIsPrefix
  BY Invariance, PTL DEF IInv

\* A "completed" result is never short: it is the first Limit units of all output of the
\* submission and its descendants, none of which can write any more.
THEOREM CompletedExactly == Spec => []CompletedIsExact
<1>1. IInv => CompletedIsExact
  BY SizesAssumption DEF IInv, TypeOK, RetainedIsPrefix, DrainedInv, ReturnInv, CompletedIsExact,
                         Streams
<1> QED BY <1>1, Invariance, PTL

\* A result comes back only from a reaped child, and no call ends, not by an exception
\* either, with a child that is neither reaped nor signalled.
THEOREM ReturnsReaped == Spec => []ReturnedIsReaped
<1>1. IInv => ReturnedIsReaped
  BY DEF IInv, ReturnInv, ReturnedIsReaped
<1> QED BY <1>1, Invariance, PTL
=============================================================================
