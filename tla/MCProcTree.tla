----------------------------- MODULE MCProcTree -----------------------------
(* Three process ids, one of which may be spelled in a name.               *)
EXTENDS ProcTree

CONSTANTS p1, p2, p3

=============================================================================
