------------------------ MODULE MCCheckpointCapture ------------------------
EXTENDS CheckpointCapture

\* plain: an ordinary path; hidden: sensitive, selected and ignored;
\* merging: selected, with an unmerged index entry.
CONSTANTS plain, hidden, merging, c1, c2, secret, big
=============================================================================
