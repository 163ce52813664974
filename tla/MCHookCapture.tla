---------------------------- MODULE MCHookCapture ----------------------------
(* Finite instances of HookCapture for TLC.                                *)
EXTENDS HookCapture, TLC

CONSTANTS v1, v2, m1, m2, o1, o2, MaxTroubles

MCManifestOf1 == (v1 :> m1)
MCManifestOf2 == (v1 :> m1 @@ v2 :> m2)

MCOpScope == (o1 :> "root")
MCOpScope2 == (o1 :> "root" @@ o2 :> "elsewhere")

\* At most MaxTroubles hook processes die, exit with 1 or report an anomaly.
Troubled == anomalies \cup {h \in Hooks : pc[h] \in {"killed", "exit1"}}
FewTroubles == Cardinality(Troubled) <= MaxTroubles

HookSymmetry == Permutations(Hooks)

\* Processes, sessions and worktree contents are interchangeable, so every behaviour
\* is a renaming of one whose first event is delivered to a given process, in a given
\* session, on a given worktree content.  Unlike SYMMETRY this is sound for liveness.
\* The worktree is written once, in the middle of a capture (session_audit has it
\* written at any time).
FirstDelivery ==
  LET h1 == CHOOSE h \in Hooks : TRUE
      w1 == CHOOSE v \in Versions : TRUE
  IN /\ (\A h \in Hooks : pc[h] = "idle") /\ (\E h \in Hooks : pc'[h] # "idle") =>
          /\ pc'[h1] # "idle" /\ ws = w1
          /\ call'[h1].ext = CHOOSE e \in Exts : TRUE
     /\ ws' # ws => ws = w1 /\ \E h \in Hooks : pc[h] = "manifest"
=============================================================================
