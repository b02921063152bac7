------------------------------ MODULE MCLaunch ------------------------------
(* One profile, one MCP call and a user: every conflict is between two launches. *)
EXTENDS Launch
=============================================================================
