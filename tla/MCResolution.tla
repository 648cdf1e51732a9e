----------------------------- MODULE MCResolution -----------------------------
(* A small instance of Resolution for TLC: two agents that can both serve the   *)
(* root, one of them with two implementations for one demand, one of which      *)
(* depends on the root again; declarations that turn each of them to something  *)
(* else.                                                                        *)
EXTENDS Resolution, TLC

CONSTANTS g1, g2, r, a1, b1, d1, c1, a2, b2, c2

MCScenarios == {{"resolve"}, {"assign"}}

StrPort == PortInput("STR", <<>>)
ListPort == PortInput("LIST", <<StrPort>>)
Quantity(dimension) == [PortInput("QUANTITY", <<>>) EXCEPT !.dimension = dimension]
Length == Quantity("length")
Ask(at, dimension) == [PortMatch EXCEPT !.at = at, !.kind = "QUANTITY", !.dimension = dimension]
ByKey(k) == [ActionDemand EXCEPT !.key = k]
ByPorts(ms) == [ActionDemand EXCEPT !.args = ms]

MCAgentOf == (r :> g1) @@ (a1 :> g1) @@ (b1 :> g1) @@ (d1 :> g1) @@ (c1 :> g1)
             @@ (a2 :> g2) @@ (b2 :> g2) @@ (c2 :> g2)
MCActionOf == (r :> "R") @@ (a1 :> "A") @@ (b1 :> "B") @@ (d1 :> "D") @@ (c1 :> "C")
              @@ (a2 :> "A") @@ (b2 :> "B") @@ (c2 :> "C")
Row(x, ports) == [key |-> x, hash |-> x, ports |-> ports]
MCCatalogue == [x \in {"R", "A", "B", "C", "D", "E"} |->
                   Row(x, CASE x = "B" -> <<Length, ListPort>> [] x = "D" -> <<Length>>
                            [] x = "E" -> <<Quantity("time")>> [] OTHER -> <<StrPort>>)]
MCStatesOf == (g1 :> {<<StrPort, Length>>}) @@ (g2 :> {<<Length, StrPort>>})

\* The scanner takes a length for a time.
Main == [AgentDependency("main", {g1, g2}) EXCEPT
            !.demands = [A |-> ByKey("A"), B |-> ByPorts(<<Ask(0, "length")>>)],
            !.prefered = 2, !.min = 1, !.max = 1, !.auto = TRUE]
Side == [AgentDependency("side", {g1}) EXCEPT
            !.demands = [C |-> ByKey("C")], !.states = {Ask(1, "time")}, !.prefered = 1]
Ring == [AgentDependency("ring", {g1}) EXCEPT
            !.demands = [R |-> ByKey("R")], !.prefered = 0, !.auto = TRUE]
MCDepsOf == [i \in Impls |-> CASE i = r -> {Main, Side} [] i = b1 -> {Ring} [] OTHER -> {}]

Decl(i, x, row, deps) == [impl |-> i, action |-> x, row |-> row, deps |-> deps]
MCDeclarations ==
    {Decl(a2, "E", MCCatalogue["E"], {}),
     Decl(d1, "E", MCCatalogue["E"], {}),
     Decl(b2, "B", Row("B", <<StrPort>>), {Ring}),
     Decl(r, "R", MCCatalogue["R"], {[Side EXCEPT !.max = 0]}),
     Decl(r, "R", MCCatalogue["R"], {[Main EXCEPT !.min = 2]})}
MCStateDeclarations == {[agent |-> g1, states |-> {<<StrPort>>}]}
=============================================================================
