---------------------------- MODULE MCPRNGTypes -----------------------------
(* PRNGTypes for TLC. *)
EXTENDS PRNGTypes

CONSTANTS t1, t2, t3

Threads == {t1, t2, t3}
=============================================================================
