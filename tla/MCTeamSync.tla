----------------------------- MODULE MCTeamSync -----------------------------
\* Instances of TeamSync for TLC.
EXTENDS TeamSync, TLC

Symmetry == Permutations(Devices)
=============================================================================
