----------------------------- MODULE FencedLog -----------------------------
(***************************************************************************)
(* What the v2 control plane promises about one profile: a log of versions *)
(* that only the holder of the newest fence extends, once per fence.  No   *)
(* clock, no uploads, no files, no crashes.  ProfileUpload implements it.  *)
(***************************************************************************)
EXTENDS Naturals

VARIABLES
    version,   \* number of versions in the log
    fence,     \* the newest fence handed out
    holder,    \* the fence that may extend the log; 0 when nobody may
    log        \* the fence that wrote each version

vars == <<version, fence, holder, log>>

Init == version = 0 /\ fence = 0 /\ holder = 0 /\ log = [v \in 1 .. 0 |-> 0]

\* A new fence displaces whoever held the old one.
Grant ==
    /\ fence' = fence + 1
    /\ holder' = fence + 1
    /\ UNCHANGED <<version, log>>

\* The holder gives up or is forced out.
Lose ==
    /\ holder' = 0
    /\ UNCHANGED <<version, fence, log>>

\* The holder writes the next version and is done.
Extend ==
    /\ holder # 0
    /\ version' = version + 1
    /\ log' = [v \in 1 .. version + 1 |-> IF v <= version THEN log[v] ELSE holder]
    /\ holder' = 0
    /\ UNCHANGED fence

Next == Grant \/ Lose \/ Extend

Spec == Init /\ [][Next]_vars
============================================================================
