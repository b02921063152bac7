-------------------------- MODULE MCFleetTransfer --------------------------
EXTENDS FleetTransfer, TLC

Symmetric == Permutations(Uploads) \cup Permutations(Devices)
=============================================================================
