----------------------------- MODULE MCFleetKeys -----------------------------
(* FleetKeys for TLC: devices are interchangeable. *)
EXTENDS FleetKeys, TLC

Symmetry == Permutations(Devices)

\* A custodian files every capability, for the tenant.
AllTenant == {Capabilities \X {"tenant"}}
=============================================================================
