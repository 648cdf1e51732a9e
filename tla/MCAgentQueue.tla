----------------------------- MODULE MCAgentQueue -----------------------------
(* A small instance of AgentQueue for TLC. *)
EXTENDS AgentQueue

CONSTANTS m1, m2, m3, c1, c2, c3
ThreeMessages == {m1, m2, m3}
ThreeLoops    == {c1, c2, c3}
OneStable     == {c2}
=============================================================================
