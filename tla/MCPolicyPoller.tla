-------------------------- MODULE MCPolicyPoller ---------------------------
(* Bounds for PolicyPoller.  The documents: revision 1, another document   *)
(* that claims revision 1, and revision 2, which outlives both.            *)
EXTENDS PolicyPoller

Doc(r, e, c) == [rev |-> r, expires |-> e, copy |-> c]

MCDocs == {Doc(1, 1, 0), Doc(1, 1, 1), Doc(2, 2, 0)}
=============================================================================
