----------------------------- MODULE MCAgentLease -----------------------------
(* A small instance of AgentLease for TLC. *)
EXTENDS AgentLease

CONSTANTS c1, c2
TwoConns == {c1, c2}
=============================================================================
