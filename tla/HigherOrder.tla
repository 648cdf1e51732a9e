----------------------------- MODULE HigherOrder -----------------------------
(***************************************************************************)
(* Higher-order implementations (facade/higher_order.py, set_higher_order, *)
(* _assign_higher_order): a wrapper is an Implementation row that names a   *)
(* lower one on the same agent and a projection of arguments and            *)
(* dependencies onto it.  The row is written whole by two kinds of writers  *)
(* that do not know of each other, set_higher_order and the registrations   *)
(* of the agent, each some time after it read the row.  The dependencies    *)
(* are rows of their own, which a registration adds and never removes and   *)
(* which go with the implementation.                                        *)
(***************************************************************************)
EXTENDS Integers, FiniteSets

CONSTANTS
    Impls,          \* implementations
    AgentOf,        \* the agent of each
    Deps,           \* dependency keys
    ArgKeys,        \* argument keys of callers and of lower implementations
    Configs,        \* projection configs
    Linkers,        \* concurrent requests of set_higher_order
    MaxLinks,       \* bound: set_higher_order requests
    MaxRegs,        \* bound: registrations and deletions
    MaxTasks,       \* bound: assignments
    None

Kinds == {"FUNCTION", "GENERATOR"}

\* Where a lower slot is filled from: a value of the config or a slot of the wrapper.
Bound == [from |-> "bound"]
Caller(k) == [from |-> "caller", key |-> k]

ASSUME HigherOrderAssumption ==
    /\ MaxLinks \in Nat /\ MaxRegs \in Nat /\ MaxTasks \in Nat
    /\ None \notin Impls \cup ArgKeys
    /\ Linkers \cap {AgentOf[i] : i \in Impls} = {}
    /\ \A c \in Configs :
          /\ c.bound \subseteq ArgKeys /\ c.args_key \in ArgKeys \cup {None}
          /\ DOMAIN c.arg_map \subseteq ArgKeys /\ DOMAIN c.dependency_map \subseteq Deps

VARIABLES
    row,        \* the Implementation rows, None when deleted
    kind,       \* the kind of the action of each
    deps,       \* the Dependency rows of each, by key
    link,       \* by request: the set_higher_order under way
    reg,        \* by agent: the registration of one implementation under way
    links, regs,\* requests and registrations so far
    tasks,      \* the child tasks that were dispatched
    refused,    \* history: wrappers whose projection raised in an assignment
    revived,    \* history: rows inserted again by the save of a reader of old
    raced,      \* history: wrappers linked to a row whose own link had changed meanwhile
    last,       \* history: what the last writers of a row meant it to hold
    overlapped  \* history: rows written while a reader of them was still to save

vars == <<row, kind, deps, link, reg, links, regs, tasks, refused, revived, raced, last,
          overlapped>>
history == <<refused, revived, raced, last, overlapped>>

Agents == {AgentOf[i] : i \in Impls}
NoMap == [d \in {} |-> Bound]

\* A row's link, the lower slots the link was validated against (history), and the
\* registration its declared fields are of.
Rows == [wraps : Impls \cup {None}, config : Configs \cup {None}, promised : SUBSET Deps,
         rev : 0..MaxRegs]

Init ==
    /\ row = [i \in Impls |-> [wraps |-> None, config |-> None, promised |-> {}, rev |-> 0]]
    /\ kind = [i \in Impls |-> "FUNCTION"]
    /\ deps \in [Impls -> SUBSET Deps]
    /\ link = [u \in Linkers |-> None]
    /\ reg = [a \in Agents |-> None]
    /\ links = 0 /\ regs = 0
    /\ tasks = {} /\ refused = {}
    /\ revived = {} /\ raced = {} /\ overlapped = {}
    /\ last = row

Wraps(i, j) == row[i] # None /\ row[i].wraps = j
-----------------------------------------------------------------------------
(* The pure projections of higher_order.py. *)

\* Later wins: what is bound, then what is mapped, then the rest, packed or spread.
BuildLowerArgs(c, args) ==
    LET mapped == DOMAIN c.arg_map
        rest == args \ {c.arg_map[k] : k \in mapped}
        spread == IF c.args_key = None THEN rest ELSE {c.args_key}
    IN  [k \in c.bound \cup mapped \cup spread |->
            IF k \in spread THEN IF c.args_key = None THEN {k} ELSE rest
            ELSE IF k \in mapped THEN {c.arg_map[k]} ELSE {}]

\* The map refers to an argument that the caller did not pass.
ArgsRaise(c, args) == \E k \in DOMAIN c.arg_map : c.arg_map[k] \notin args

\* The wrapper's slots a map reads from.
RequiredLowerDependencySources(c) ==
    {c.dependency_map[d].key : d \in {d \in DOMAIN c.dependency_map :
                                          c.dependency_map[d].from = "caller"}}

\* Without a map the slots pass through by key.
BuildLowerDependencies(c, resolved) ==
    IF c.dependency_map = NoMap THEN resolved ELSE DOMAIN c.dependency_map

DependenciesRaise(c, resolved) == ~(RequiredLowerDependencySources(c) \subseteq resolved)

\* A mutant of ValidateDependencyCoverage: the sources of the map are not checked.
ValidateLowerSlotsOnly(c, lower, higher) ==
    IF c.dependency_map = NoMap THEN lower \subseteq higher
    ELSE lower \subseteq DOMAIN c.dependency_map

\* Every lower slot has a source, and every source is declared.
ValidateDependencyCoverage(c, lower, higher) ==
    /\ RequiredLowerDependencySources(c) \subseteq higher
    /\ IF c.dependency_map = NoMap THEN lower \subseteq higher
       ELSE lower \subseteq DOMAIN c.dependency_map

\* A mutant of ValidatePairing: the lower may be a wrapper.
ValidatePairingNested(higherKind, lowerKind, lowerWraps) == higherKind = lowerKind

ValidatePairing(higherKind, lowerKind, lowerWraps) ==
    lowerWraps = None /\ higherKind = lowerKind
-----------------------------------------------------------------------------
(* set_higher_order. *)

\* Both rows are read; a wrapper of itself or across agents is refused.
LinkRead(u, h, l, c) ==
    /\ link[u] = None /\ links < MaxLinks
    /\ row[h] # None /\ row[l] # None
    /\ h # l /\ AgentOf[h] = AgentOf[l]
    /\ links' = links + 1
    /\ link' = [link EXCEPT ![u] = [higher |-> h, lower |-> l, config |-> c, row |-> row[h],
                                    lowerWraps |-> row[l].wraps, valid |-> FALSE, slots |-> {}]]
    /\ UNCHANGED <<row, kind, deps, reg, regs, tasks, history>>

\* The kinds and the dependencies are looked up; a pairing that is not valid is refused.
LinkValidate(u) ==
    /\ link[u] # None /\ ~link[u].valid
    /\ LET k == link[u]
           valid == /\ ValidatePairing(kind[k.higher], kind[k.lower], k.lowerWraps)
                    /\ ValidateDependencyCoverage(k.config, deps[k.lower], deps[k.higher])
       IN  link' = [link EXCEPT ![u] = IF valid THEN [k EXCEPT !.valid = TRUE, !.slots = deps[k.lower]]
                                       ELSE None]
    /\ UNCHANGED <<row, kind, deps, reg, links, regs, tasks, history>>

\* Everyone who has read the row and is still to save it.
Readers(i) == {u \in Linkers : link[u] # None /\ link[u].higher = i}
              \cup {a \in Agents : reg[a] # None /\ reg[a].of = i}

\* The row is saved whole as it was read, or inserted again if it is gone.  A link to a
\* row that is gone fails.
LinkSave(u) ==
    /\ link[u] # None /\ link[u].valid
    /\ LET k == link[u]
           saved == [k.row EXCEPT !.wraps = k.lower, !.config = k.config, !.promised = k.slots]
       IN  IF row[k.lower] = None
           THEN UNCHANGED <<row, revived, raced, last, overlapped>>
           ELSE /\ row' = [row EXCEPT ![k.higher] = saved]
                /\ revived' = IF row[k.higher] = None THEN revived \cup {k.higher} ELSE revived
                /\ raced' = IF row[k.lower].wraps # k.lowerWraps THEN raced \cup {k.higher} ELSE raced \ {k.higher}
                /\ last' = [last EXCEPT ![k.higher].wraps = k.lower, ![k.higher].config = k.config]
                /\ overlapped' = IF Readers(k.higher) = {u} THEN overlapped ELSE overlapped \cup {k.higher}
    /\ link' = [link EXCEPT ![u] = None]
    /\ UNCHANGED <<kind, deps, reg, links, regs, tasks, refused>>
-----------------------------------------------------------------------------
(* The registrations of the agent, as far as they touch these rows. *)

\* implement_agent reads the rows of the agent ...
RegisterRead(i) ==
    /\ reg[AgentOf[i]] = None /\ regs < MaxRegs
    /\ row[i] # None
    /\ regs' = regs + 1
    /\ reg' = [reg EXCEPT ![AgentOf[i]] = [of |-> i, row |-> row[i], rev |-> regs']]
    /\ UNCHANGED <<row, kind, deps, link, links, tasks, history>>

\* A mutant of RegisterSave: the links are those of the declaration, which has none.
RegisterSaveUnlinked(a, k, ds) ==
    /\ reg[a] # None
    /\ LET i == reg[a].of
           saved == [reg[a].row EXCEPT !.wraps = None, !.rev = reg[a].rev]
       IN  /\ row' = [row EXCEPT ![i] = saved]
           /\ kind' = [kind EXCEPT ![i] = k]
           /\ deps' = [deps EXCEPT ![i] = @ \cup ds]
           /\ revived' = IF row[i] = None THEN revived \cup {i} ELSE revived
           /\ last' = [last EXCEPT ![i].rev = reg[a].rev]
           /\ overlapped' = IF Readers(i) = {a} THEN overlapped ELSE overlapped \cup {i}
    /\ reg' = [reg EXCEPT ![a] = None]
    /\ UNCHANGED <<link, links, regs, tasks, refused, raced>>

\* ... and saves one whole with its declared fields; a wrapped row that is gone meanwhile
\* fails the registration.  Dependencies are added.
RegisterSave(a, k, ds) ==
    /\ reg[a] # None
    /\ LET i == reg[a].of
           saved == [reg[a].row EXCEPT !.rev = reg[a].rev]
       IN  IF saved.wraps # None /\ row[saved.wraps] = None
           THEN UNCHANGED <<row, kind, deps, revived, last, overlapped>>
           ELSE /\ row' = [row EXCEPT ![i] = saved]
                /\ kind' = [kind EXCEPT ![i] = k]
                /\ deps' = [deps EXCEPT ![i] = @ \cup ds]
                /\ revived' = IF row[i] = None THEN revived \cup {i} ELSE revived
                /\ last' = [last EXCEPT ![i].rev = reg[a].rev]
                /\ overlapped' = IF Readers(i) = {a} THEN overlapped ELSE overlapped \cup {i}
    /\ reg' = [reg EXCEPT ![a] = None]
    /\ UNCHANGED <<link, links, regs, tasks, refused, raced>>

\* delete_implementation, or the reap of a registration: wrappers of the row are plain
\* again, its dependencies go.
Delete(i) ==
    /\ row[i] # None /\ regs < MaxRegs
    /\ regs' = regs + 1
    /\ row' = [j \in Impls |-> IF j = i THEN None
                               ELSE IF Wraps(j, i) THEN [row[j] EXCEPT !.wraps = None]
                               ELSE row[j]]
    /\ deps' = [deps EXCEPT ![i] = {}]
    /\ last' = [j \in Impls |-> IF last[j].wraps = i THEN [last[j] EXCEPT !.wraps = None] ELSE last[j]]
    /\ overlapped' = overlapped \cup {j \in Impls : /\ Readers(j) # {}
                                                    /\ j = i \/ Wraps(j, i)}
    /\ UNCHANGED <<kind, link, reg, links, tasks, refused, revived, raced>>
-----------------------------------------------------------------------------
\* _assign_higher_order with every slot of the wrapper resolved: the child runs the lower
\* implementation, whatever that is.
AssignHigherOrder(i, args) ==
    /\ row[i] # None /\ row[i].wraps # None
    /\ Cardinality(tasks) < MaxTasks
    /\ LET c == row[i].config
       IN  IF ArgsRaise(c, args) THEN UNCHANGED <<tasks, refused>>
           ELSE IF DependenciesRaise(c, deps[i])
           THEN refused' = refused \cup {i} /\ UNCHANGED tasks
           ELSE /\ tasks' = tasks \cup {[higher |-> i, lower |-> row[i].wraps, promised |-> row[i].promised,
                                         slots |-> BuildLowerDependencies(c, deps[i]),
                                         config |-> c, caller |-> args, args |-> BuildLowerArgs(c, args)]}
                /\ UNCHANGED refused
    /\ UNCHANGED <<row, kind, deps, link, reg, links, regs, revived, raced, last, overlapped>>
-----------------------------------------------------------------------------
Next ==
    \/ \E u \in Linkers, h, l \in Impls, c \in Configs : LinkRead(u, h, l, c)
    \/ \E u \in Linkers : LinkValidate(u) \/ LinkSave(u)
    \/ \E i \in Impls : RegisterRead(i) \/ Delete(i)
    \/ \E a \in Agents, k \in Kinds, ds \in SUBSET Deps : RegisterSave(a, k, ds)
    \/ \E i \in Impls, args \in SUBSET ArgKeys : AssignHigherOrder(i, args)

Spec == Init /\ [][Next]_vars
-----------------------------------------------------------------------------
(* Properties. *)

\* The rows are rows and the snapshots under way are snapshots of rows.
TypeOK ==
    /\ row \in [Impls -> Rows \cup {None}]
    /\ kind \in [Impls -> Kinds]
    /\ deps \in [Impls -> SUBSET Deps]
    /\ \A u \in Linkers : link[u] # None => link[u].row \in Rows
    /\ \A a \in Agents : reg[a] # None => reg[a].row \in Rows

\* Wrappers of wrappers may come about, but following them ends: a link goes to a row that
\* wraps nothing (validate_higher_order_pairing), so a ring, which is a set whose members
\* all wrap one another, needs a link whose lower row became a wrapper between its read and
\* its save, or an older state of a row written back.
WrappersEnd ==
    \A ring \in SUBSET Impls :
        ring # {} /\ (\A i \in ring : \E j \in ring : Wraps(i, j)) =>
            ring \cap (raced \cup overlapped) # {}

\* A child task has every slot its implementation had when the wrapper was validated
\* against it, and every argument of the caller unless another one of the caller's takes
\* its place; and no projection raises over dependencies.  The exception is a wrapper that
\* was deleted, with its dependencies, and inserted again by whoever had read it before.
ChildIsComplete ==
    /\ refused \subseteq revived
    /\ \A t \in tasks :
          /\ t.higher \notin revived => t.promised \subseteq t.slots
          /\ \A k \in t.caller : (\A j \in DOMAIN t.args : k \notin t.args[j]) =>
                \E j \in DOMAIN t.config.arg_map :
                    t.config.arg_map[j] = k /\ j \in t.caller \cup {t.config.args_key}

\* A row holds the link of the last set_higher_order and the declared fields of the last
\* registration, unless one of them wrote it between the other's read and save.
NoLostUpdate ==
    \A i \in Impls \ overlapped : row[i] # None =>
        row[i].wraps = last[i].wraps /\ row[i].rev = last[i].rev
=============================================================================
