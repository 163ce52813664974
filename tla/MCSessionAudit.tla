---------------------------- MODULE MCSessionAudit ----------------------------
(* Finite instances of SessionAudit for TLC.                               *)
EXTENDS SessionAudit, TLC

CONSTANTS v1, v2, m1, m2, o1, o2, MaxTroubles

MCManifestOf2 == (v1 :> m1 @@ v2 :> m2)
MCOpScope == (o1 :> "root")

\* At most MaxTroubles hook processes die, exit with 1 or report an anomaly.
Troubled == anomalies \cup {h \in Hooks : pc[h] \in {"killed", "exit1"}}
FewTroubles == Cardinality(Troubled) <= MaxTroubles

HookSymmetry == Permutations(Hooks)
=============================================================================
