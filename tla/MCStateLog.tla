------------------------------ MODULE MCStateLog ------------------------------
(* A small instance of StateLog for TLC.                                      *)
EXTENDS StateLog, TLC

CONSTANTS s1, s2, x, q1

TwoSessions == {s1, s2}
OneState    == {x}
OneReader   == {q1}
SessionSymmetry == Permutations(Sessions)
=============================================================================
