---------------------------- MODULE MCAgentRowSave ----------------------------
(* Small instances of AgentRowSave for TLC. *)
EXTENDS AgentRowSave

CONSTANTS c1, c2
TwoConns == {c1, c2}
=============================================================================
