-------------------------- MODULE MCProfileUpload --------------------------
(* Small instances of ProfileUpload. *)
EXTENDS ProfileUpload, TLC

Symmetry == Permutations(Devices) \cup Permutations(Uploads) \cup Permutations(Reqs)
============================================================================
