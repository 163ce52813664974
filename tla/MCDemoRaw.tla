----------------------------- MODULE MCDemoRaw -----------------------------
(* Overlapping hooks on two short transcripts, and every transcript over a   *)
(* few lines without hooks.                                                  *)
EXTENDS DemoRaw, TLC

\* The files do not depend on what the lines say.
HookScripts ==
  { << Use(1, "Read", "a"), Use(2, "Read", "a"), Result(2, TRUE, "x"), Result(1, TRUE, "x") >>,
    << Text, Use(1, "Bash", "v"), Result(2, TRUE, "x"), Result(1, FALSE, "x") >> }

\* Three occurrences of one command; two reads with late, failed, repeated and unknown
\* results, and the verifier.
CommandLines == {Use(i, "Bash", "c") : i \in 1..3} \cup {Result(i, TRUE, "x") : i \in 1..3}
ReadLines ==
  {Use(i, "Read", "a") : i \in 1..2} \cup {Use(3, "Bash", "v"), Text}
    \cup {Result(i, ok, "x") : i \in 1..3, ok \in BOOLEAN} \cup {Result(1, TRUE, "y")}

AllScripts ==
  {t \in [1..6 -> CommandLines] \cup [1..4 -> ReadLines] : SuccessIsFinal(t)}

MCScripts == HookScripts \cup AllScripts

\* Hooks run on HookScripts only.
HooksOnFewScripts == script \in HookScripts \/ started' = 0

SlotSymmetry == Permutations(Slots)
=============================================================================
