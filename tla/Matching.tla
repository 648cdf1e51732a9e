------------------------------- MODULE Matching -------------------------------
(***************************************************************************)
(* Which actions meet a demand (facade/managers.py).  The ports of actions  *)
(* are rows that refer to their parent, matched by EXISTS subqueries; the   *)
(* ports of states and shortcuts stay JSON arrays, scanned by position.     *)
(* A port is a record with its children, a match a record whose fields are  *)
(* None where it does not say; kind stands for kind and identifier, which   *)
(* both compare alike.  The dimension of a quantity is compared by the      *)
(* relational matcher only; the scanner neither compares nor refuses it.    *)
(* Children nest one level here.                                            *)
(***************************************************************************)
EXTENDS Integers, Sequences, FiniteSets

CONSTANT None

\* A port of an action or a state.
PortInput(kind, children) ==
    [key |-> kind, kind |-> kind, dimension |-> None, nullable |-> FALSE, requires |-> {},
     children |-> children]

\* What an input must satisfy to be stored: a quantity has a dimension, of its unit.
CheckKindSpecificFields(port) ==
    /\ port.kind = "LIST" => Len(port.children) = 1
    /\ (port.dimension # None) = (port.kind = "QUANTITY")

\* Matches and demands that say nothing; a demand is made from them with EXCEPT.
PortMatch == [at |-> None, key |-> None, kind |-> None, dimension |-> None, nullable |-> None,
              object |-> None, children |-> <<>>]
ActionDemand == [hash |-> None, key |-> None, args |-> <<>>, force_length |-> None]

\* A field of a match against the field of a port.
Says(field, value) == field = None \/ field = value
-----------------------------------------------------------------------------
(* Descriptors: predicates on the object that flows through a port.          *)

\* jsonb_path_match in lax mode: a path that is missing compares with nothing, an array
\* compares with each of its elements; an object maps keys to sets of values.
Satisfies(d, obj) ==
    LET vs == IF d.key \in DOMAIN obj THEN obj[d.key] ELSE {}
    IN  CASE d.op = "EXISTS" -> (d.key \in DOMAIN obj) = d.value
          [] d.op \in {"EQUALS", "MATCHES", "CONTAINS"} -> d.value \in vs
          [] d.op = "NOT_EQUALS" -> \E v \in vs : v # d.value
          [] d.op = "GTE" -> \E v \in vs : v >= d.value
          [] d.op = "LTE" -> \E v \in vs : v <= d.value
          [] d.op = "IN" -> vs \cap d.value # {}
          [] d.op = "NOT_IN" -> \A w \in d.value : \E v \in vs : v # w

\* compile_descriptors_to_jsonpath: all of them; a port without any accepts everything.
Accepts(port, obj) == \A d \in port.requires : Satisfies(d, obj)
-----------------------------------------------------------------------------
(* The relational matcher. *)

\* The row of the port at a position.
Fits(m, port, index) ==
    /\ Says(m.at, index)
    /\ Says(m.key, port.key)
    /\ Says(m.kind, port.kind)
    /\ Says(m.dimension, port.dimension)
    /\ Says(m.nullable, port.nullable)
    /\ m.object = None \/ Accepts(port, m.object)

\* Positions are counted from 0.
BuildMatchExists(m, ports) ==
    \E i \in DOMAIN ports :
        /\ Fits(m, ports[i], i - 1)
        /\ \A c \in DOMAIN m.children :
              \E j \in DOMAIN ports[i].children :
                  Fits(m.children[c], ports[i].children[j], j - 1)

\* Root matches by descriptors alone are refused.
MatchRaises(m) ==
    m.object # None /\ m.at = None /\ m.key = None /\ m.kind = None /\ m.dimension = None

\* Nothing is asked for, or what is refused.
DemandRaises(d) ==
    \/ d.hash = None /\ d.key = None /\ d.args = <<>> /\ d.force_length = None
    \/ d.hash = None /\ \E i \in DOMAIN d.args : MatchRaises(d.args[i])

\* One action demand against one action: the hash alone where there is one, otherwise
\* everything that is said.
ActionDemandClauses(d, a) ==
    IF d.hash # None THEN a.hash = d.hash
    ELSE /\ Says(d.key, a.key)
         /\ \A i \in DOMAIN d.args : BuildMatchExists(d.args[i], a.ports)
         /\ Says(d.force_length, Len(a.ports))
-----------------------------------------------------------------------------
(* The scanner of JSON arrays. *)

\* Two of the fields the scanner cannot express are refused, at any depth, and a match that
\* says nothing it can makes a statement PostgreSQL refuses.
LegacyRaises(m) ==
    \/ m.at = None /\ m.key = None /\ m.kind = None
       /\ \A c \in DOMAIN m.children : m.children[c].key = None /\ m.children[c].kind = None
    \/ m.object # None \/ m.nullable # None
    \/ \E c \in DOMAIN m.children : m.children[c].object # None \/ m.children[c].nullable # None

\* build_child_recursively: key and kind of the child at a position of the array, which
\* fails where the array ends, unless neither is asked.
LegacyChild(m, children, index) ==
    \/ m.key = None /\ m.kind = None
    \/ index < Len(children) /\ Says(m.key, children[index + 1].key) /\ Says(m.kind, children[index + 1].kind)

\* A mutant of BuildSqlForItem: positions are those of the demand.
BuildSqlForItemZeroBased(m, port, ordinality) ==
    /\ m.at = None \/ ordinality = m.at
    /\ Says(m.key, port.key)
    /\ Says(m.kind, port.kind)
    /\ \A c \in DOMAIN m.children : LegacyChild(m.children[c], port.children, c)

\* WITH ORDINALITY counts from 1.  The children are taken by the JSON operator ->, which
\* counts from 0, at the position of the child's match plus one.
BuildSqlForItem(m, port, ordinality) ==
    /\ m.at = None \/ ordinality = m.at + 1
    /\ Says(m.key, port.key)
    /\ Says(m.kind, port.kind)
    /\ \A c \in DOMAIN m.children : LegacyChild(m.children[c], port.children, c)

JsonScan(m, ports) == \E i \in DOMAIN ports : BuildSqlForItem(m, ports[i], i)
=============================================================================
