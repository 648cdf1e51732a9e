------------------------------ MODULE MCRegistry ------------------------------
(* Small instances of Registry for TLC. *)
EXTENDS Registry, TLC

CONSTANTS a1, a2, i1, i2, k1, k2, h1, h2, hx
MCBefore == <<k1, h1, TRUE>>
MCValid == {<<k1, h1, TRUE>>, <<k1, h2, TRUE>>, <<k2, h1, TRUE>>}

\* Two that are not: pure as well as PHYSICAL, and one with a descriptor of no valid key.
MCDefinitions == MCValid \cup {<<k1, h1, FALSE>>, <<k1, hx, TRUE>>}

\* Nothing, one interface, or both: the same action twice, two actions either way round,
\* a new one and one that is not valid.
MCDeclarations ==
    {[i \in {i1, i2} |-> Null], (i1 :> <<k1, h1, TRUE>> @@ i2 :> <<k1, h1, TRUE>>)}
    \cup {(i1 :> d @@ i2 :> Null) : d \in MCValid}
    \cup {(i1 :> <<k1, h1, TRUE>> @@ i2 :> <<k2, h1, TRUE>>),
          (i1 :> <<k2, h1, TRUE>> @@ i2 :> <<k1, h1, TRUE>>)}
    \cup {(i1 :> d @@ i2 :> <<k2, h1, TRUE>>) : d \in MCDefinitions \ MCValid}
AgentSymmetry == Permutations(Agents)
=============================================================================
