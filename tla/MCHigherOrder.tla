---------------------------- MODULE MCHigherOrder ----------------------------
(* A small instance of HigherOrder for TLC. *)
EXTENDS HigherOrder, TLC

CONSTANTS x, y, z, u1, u2, d1, p, q
MCAgentOf == [i \in {x, y, z} |-> "a"]

\* Pass-through; the slot from one of the wrapper's, one argument renamed and the rest
\* spread; the slot bound, the arguments packed.
MCConfigs ==
    {[bound |-> {}, arg_map |-> [k \in {} |-> p], args_key |-> None, dependency_map |-> NoMap],
     [bound |-> {p}, arg_map |-> (q :> p), args_key |-> None, dependency_map |-> (d1 :> Caller(d1))],
     [bound |-> {q}, arg_map |-> [k \in {} |-> p], args_key |-> p, dependency_map |-> (d1 :> Bound)]}
ImplSymmetry == Permutations(Impls) \cup Permutations(Linkers)
=============================================================================
