---------------------------- MODULE MCLaunchStore ----------------------------
EXTENDS LaunchStore

CONSTANT manifest

\* Every launch stores the same producer manifest.
MCContentOf == [l \in Launchers |-> manifest]
=============================================================================
