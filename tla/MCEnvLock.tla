----------------------------- MODULE MCEnvLock -----------------------------
(* Instances of EnvLock for TLC.                                           *)
EXTENDS EnvLock, TLC

\* Handler slots and contents are interchangeable, and the clients of one role.
Symmetry == Permutations(Clients \ Admins) \cup Permutations(Admins) \cup Permutations(Reqs) \cup Permutations(Data)
=============================================================================
