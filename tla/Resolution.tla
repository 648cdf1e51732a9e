------------------------------ MODULE Resolution ------------------------------
(***************************************************************************)
(* How the dependencies of an implementation find agents, in two ways that  *)
(* do not meet: auto_resolve (facade/logic.py), which writes Resolution and *)
(* ResolvedDependency rows by matching demands, and build_dependency_dict   *)
(* (facade/backend.py), which an assignment calls and which goes by app,    *)
(* liveness and action key.  Neither is a transaction.  Registrations       *)
(* rewrite implementations, actions and states in place meanwhile, and drop *)
(* implementations; agents come and go, and a task later calls the agents   *)
(* that its assignment found.                                               *)
(***************************************************************************)
EXTENDS Matching

CONSTANTS
    Agents,
    Impls,          \* Implementation rows; one declared again after it was dropped is another
    AgentOf,
    ActionOf,       \* the action of each implementation at first,
    DepsOf,         \* its dependencies,
    Catalogue,      \* the actions, by the name ActionOf uses,
    StatesOf,       \* and the port lists of the states of each agent
    Declarations,   \* what is registered later: an implementation, its action with the row
                    \* that is written of it, its dependencies
    StateDeclarations,  \* and an agent with its states
    Root,           \* the implementation that is resolved and assigned
    Scenarios,      \* bound: what happens to the root, sets of "resolve" and "assign"
    MaxRes,         \* bound: auto_resolve starts and users create below so many resolutions
    MaxEdits,       \* bound: resolutions updated and deleted by users
    MaxRegs,        \* bound: implementations and states declared again
    MaxDrops,       \* bound: implementations dropped
    MaxCalls        \* bound: calls of a task on its dependencies

\* A dependency on an app: an action demand per slot key, what the states must match, and
\* how many instances are wanted.
AgentDependency(key, app) ==
    [key |-> key, app |-> app, demands |-> <<>>, states |-> {}, prefered |-> None, min |-> None,
     max |-> None, auto |-> FALSE]

DependencySets == {DepsOf[i] : i \in Impls} \cup {decl.deps : decl \in Declarations}
Dependencies   == UNION DependencySets
ActionRows     == {Catalogue[x] : x \in DOMAIN Catalogue} \cup {decl.row : decl \in Declarations}

\* Dependencies are upserted by their key (_sync_dependencies), and states are asked for
\* without nested matches here, see StateMeets.  The key of an action identifies its row.
ASSUME ResolutionAssumption ==
    /\ IsFiniteSet(Agents)
    /\ None \notin Int \cup Agents \cup DOMAIN Catalogue
    /\ \A d \in Dependencies :
          /\ None # d /\ None \notin DOMAIN d.demands
          /\ {d.min, d.max, d.prefered} \subseteq Int \cup {None}
          /\ d.app \subseteq Agents
          /\ \A m \in d.states : DOMAIN m = DOMAIN PortMatch /\ m.children = <<>> /\ m.at \in Int \cup {None}
    /\ \A ds \in DependencySets : \A d, e \in ds : d.key = e.key => d = e
    /\ \A a \in ActionRows : a # None /\ \A n \in DOMAIN a.ports : CheckKindSpecificFields(a.ports[n])
    /\ AgentOf \in [Impls -> Agents]
    /\ ActionOf \in [Impls -> DOMAIN Catalogue] /\ Catalogue \in [DOMAIN Catalogue -> ActionRows]
    /\ DepsOf \in [Impls -> DependencySets]
    /\ StatesOf \in [Agents -> {StatesOf[g] : g \in Agents}]
    /\ \A decl \in Declarations : /\ decl.impl \in Impls /\ decl.action \in DOMAIN Catalogue
                                  /\ decl.row.key = Catalogue[decl.action].key
    /\ \A decl \in StateDeclarations : decl.agent \in Agents
    /\ Root \in Impls
    /\ MaxRes \in Nat /\ MaxEdits \in Nat /\ MaxRegs \in Nat /\ MaxDrops \in Nat /\ MaxCalls \in Nat

VARIABLES
    reg,        \* what is registered: the Implementation rows that are there, the action and
                \* the dependencies of each, the Action rows, the states of the agents
    up,         \* the agents that are available
    res,        \* Resolution rows: the implementation each configures, by id
    rows,       \* ResolvedDependency rows
    visited,    \* visited_implementations of the auto_resolve under way
    stack,      \* its frames, innermost first
    answer,     \* "none" | "running" | "done" | "failed", of auto_resolve
    aside,      \* history: the resolutions of which nothing is promised, see ResolutionMeetsDemands
    read,       \* the action and the dependencies of the root, as the assignment read them
    slots,      \* dependency dict of the assignment, as far as it is built
    task,       \* "none" | "resolving" | "refused" | "running" | "gone"
    calls,      \* history: how the calls of the task on its dependencies went
    anew,       \* history: implementations that registrations changed since the assignment began
    edits, regs,    \* updates and deletions by users, declarations by agents so far
    scenario    \* one of the Scenarios

resolving == <<res, rows, visited, stack, answer, aside>>
assigning == <<read, slots, task, calls, anew>>
bounds == <<edits, regs, scenario>>
vars == <<reg, up, resolving, assigning, bounds>>

Init ==
    /\ scenario \in Scenarios
    /\ reg = [there |-> Impls, action |-> ActionOf, deps |-> DepsOf, catalogue |-> Catalogue,
              states |-> StatesOf]
    /\ up = Agents
    /\ res = <<>> /\ rows = {} /\ aside = {}
    /\ visited = {} /\ stack = <<>> /\ answer = "none"
    /\ read = [action |-> None, deps |-> {}]
    /\ slots = <<>> /\ task = "none" /\ calls = {} /\ anew = {}
    /\ edits = 0 /\ regs = 0
-----------------------------------------------------------------------------
(* auto_resolve. *)

ActionIds(db, demand) ==
    {x \in DOMAIN db.catalogue : db.catalogue[x] # None /\ ActionDemandClauses(demand, db.catalogue[x])}

\* The agents with an implementation of one of the actions for every demand and a state for
\* every state demand, be they available or not.
MatchingAgents(db, d, ids) ==
    {g \in Agents :
        /\ \A k \in DOMAIN d.demands : \E i \in db.there : AgentOf[i] = g /\ db.action[i] \in ids[k]
        /\ \A m \in d.states : \E s \in db.states[g] : JsonScan(m, s)}

Frame(db, r, i) ==
    [res |-> r, of |-> i, left |-> db.deps[i], dep |-> None, ids |-> <<>>, agent |-> None,
     keys |-> {}, key |-> None, cands |-> {}, count |-> 0]
Top == stack[1]
Running == stack # <<>>
InHand == {stack[n].res : n \in DOMAIN stack}
SetTop(f) == stack' = <<f>> \o Tail(stack)

Fail ==
    /\ answer' = "failed" /\ stack' = <<>> /\ visited' = {}
    /\ aside' = aside \cup InHand
    /\ UNCHANGED <<reg, up, res, rows, assigning, bounds>>

\* The mutation creates the root resolution and starts; visited starts empty and does not
\* hold the root.
AutoResolve ==
    /\ "resolve" \in scenario /\ answer # "running" /\ Len(res) < MaxRes /\ Root \in reg.there
    /\ res' = Append(res, Root)
    /\ stack' = <<Frame(reg, Len(res'), Root)>>
    /\ visited' = {} /\ answer' = "running"
    /\ UNCHANGED <<reg, up, rows, aside, assigning, bounds>>

\* The next dependency, and the actions that meet each of its demands.
PickDependency ==
    /\ Running /\ Top.dep = None
    /\ \E d \in Top.left :
          IF \E k \in DOMAIN d.demands : DemandRaises(d.demands[k]) \/ ActionIds(reg, d.demands[k]) = {}
          THEN Fail
          ELSE /\ SetTop([Top EXCEPT !.left = @ \ {d}, !.dep = d, !.keys = DOMAIN d.demands,
                             !.ids = [k \in DOMAIN d.demands |-> ActionIds(reg, d.demands[k])]])
               /\ UNCHANGED <<reg, up, res, rows, visited, answer, aside, assigning, bounds>>

\* The agent for it; first() without an order is any.
PickAgent ==
    /\ Running /\ Top.dep # None /\ Top.agent = None
    /\ LET found == MatchingAgents(reg, Top.dep, Top.ids)
       IN  IF found = {} \/ \E m \in Top.dep.states : LegacyRaises(m) THEN Fail
           ELSE /\ \E g \in found : SetTop([Top EXCEPT !.agent = g])
                /\ UNCHANGED <<reg, up, res, rows, visited, answer, aside, assigning, bounds>>

\* The implementations the agent has for the next demand.
PickDemand ==
    /\ Running /\ Top.agent # None /\ Top.key = None
    /\ IF Top.keys = {} THEN SetTop([Top EXCEPT !.dep = None, !.ids = <<>>, !.agent = None])
       ELSE \E k \in Top.keys :
                SetTop([Top EXCEPT !.keys = @ \ {k}, !.key = k, !.count = 0,
                          !.cands = {i \in reg.there : /\ AgentOf[i] = Top.agent
                                                       /\ reg.action[i] \in Top.ids[k]}])
    /\ UNCHANGED <<reg, up, res, rows, visited, answer, aside, assigning, bounds>>

\* A row for the demand at hand, and the loop goes on while fewer than preferred are found.
\* A preference that is not given cannot be compared, and a row that is gone, be it the
\* resolution, the one below it or the implementation, not referred to.
Resolve(f, i, down, seen) ==
    IF res[f.res] = None \/ i \notin reg.there \/ (down # None /\ res[down] = None) THEN Fail
    ELSE /\ rows' = rows \cup {[res |-> f.res, dep |-> f.dep.key, key |-> f.key, impl |-> i, down |-> down]}
         /\ UNCHANGED <<reg, up, res, assigning, bounds>>
         /\ IF f.dep.prefered = None
            THEN answer' = "failed" /\ stack' = <<>> /\ visited' = {} /\ aside' = aside \cup InHand
            ELSE /\ visited' = seen
                 /\ stack' = <<[f EXCEPT !.count = @ + 1,
                                         !.cands = IF f.count + 1 >= f.dep.prefered THEN {} ELSE @ \ {i},
                                         !.key = IF f.count + 1 >= f.dep.prefered THEN None ELSE @]>>
                             \o (IF down = None THEN Tail(stack) ELSE Tail(Tail(stack)))
                 /\ UNCHANGED <<answer, aside>>

\* A mutant of Descend: an implementation counts as visited when it is done with.
DescendUnmarked(i) ==
    /\ res' = Append(res, i)
    /\ stack' = <<Frame(reg, Len(res'), i)>> \o stack
    /\ UNCHANGED <<reg, up, rows, visited, answer, aside, assigning, bounds>>

\* An implementation with dependencies of its own gets a resolution of its own first.
Descend(i) ==
    /\ res' = Append(res, i)
    /\ visited' = visited \cup {i}
    /\ stack' = <<Frame(reg, Len(res'), i)>> \o stack
    /\ UNCHANGED <<reg, up, rows, answer, aside, assigning, bounds>>

\* The next implementation: one that was visited is passed over.
TryImplementation ==
    /\ Running /\ Top.key # None
    /\ \/ /\ Top.cands = {}
          /\ SetTop([Top EXCEPT !.key = None])
          /\ UNCHANGED <<reg, up, res, rows, visited, answer, aside, assigning, bounds>>
       \/ \E i \in Top.cands \cap visited :
             /\ SetTop([Top EXCEPT !.cands = @ \ {i}])
             /\ aside' = aside \cup {Top.res}
             /\ UNCHANGED <<reg, up, res, rows, visited, answer, assigning, bounds>>
       \/ \E i \in Top.cands \ visited :
             IF i \notin reg.there THEN Fail
             ELSE IF reg.deps[i] # {} THEN Descend(i)
             ELSE Resolve(Top, i, None, visited \cup {i})

\* The inner call is through: its resolution is hung under the outer one.
Return ==
    /\ Running /\ Top.left = {} /\ Top.dep = None
    /\ IF Len(stack) = 1
       THEN /\ answer' = "done" /\ stack' = <<>> /\ visited' = {}
            /\ UNCHANGED <<reg, up, res, rows, aside, assigning, bounds>>
       ELSE Resolve(stack[2], Top.of, Top.res, visited)
-----------------------------------------------------------------------------
(* Resolutions by hand. *)

\* create_resolution, given choices: the row is there when reading a choice raises.
CreateResolution ==
    /\ "resolve" \in scenario /\ Len(res) < MaxRes /\ Root \in reg.there
    /\ res' = Append(res, Root)
    /\ aside' = aside \cup {Len(res')}
    /\ UNCHANGED <<reg, up, rows, visited, stack, answer, assigning, bounds>>

\* update_resolution: the rows go, and reading the choices raises.
UpdateResolution(r) ==
    /\ res[r] # None /\ edits < MaxEdits
    /\ edits' = edits + 1
    /\ rows' = {x \in rows : x.res # r}
    /\ aside' = aside \cup {r}
    /\ UNCHANGED <<reg, up, res, visited, stack, answer, assigning, regs, scenario>>

\* The resolutions that fall with a set of them: those hung under them stay, and those they
\* hang under lose a row.
Fall(rs) ==
    /\ res' = [r \in DOMAIN res |-> IF r \in rs THEN None ELSE res[r]]
    /\ rows' = {x \in rows : x.res \notin rs /\ x.down \notin rs}

Above(rs) == {x.res : x \in {x \in rows : x.down \in rs}}

DeleteResolution(r) ==
    /\ res[r] # None /\ edits < MaxEdits
    /\ edits' = edits + 1
    /\ Fall({r})
    /\ aside' = aside \cup Above({r})
    /\ UNCHANGED <<reg, up, visited, stack, answer, assigning, regs, scenario>>
-----------------------------------------------------------------------------
(* Agents. *)

\* Availability matters to assignments only.
Come(g) == "assign" \in scenario /\ g \notin up /\ up' = up \cup {g} /\ UNCHANGED <<reg, resolving, assigning, bounds>>
Go(g)   == "assign" \in scenario /\ g \in up /\ up' = up \ {g} /\ UNCHANGED <<reg, resolving, assigning, bounds>>

Resolutions(i) == {r \in DOMAIN res : res[r] = i}

\* The resolutions that have chosen one of the implementations, and those under way that
\* are choosing on the agent of one or may get there.
Leaning(is) ==
    {x.res : x \in {x \in rows : x.impl \in is}}
    \cup {stack[n].res : n \in {n \in DOMAIN stack :
              stack[n].dep # None /\ stack[n].agent \in {None} \cup {AgentOf[i] : i \in is}}}

\* A task goes with its implementation and with its action.
TaskFalls(i, x) ==
    task' = IF task = "running" /\ (i = Root \/ x = read.action) THEN "gone" ELSE task

\* A registration or a user drops an implementation, unless a resolution chose it; its own
\* resolutions go with it.
Drop(i) ==
    /\ i \in reg.there /\ Cardinality(Impls \ reg.there) < MaxDrops
    /\ \A x \in rows : x.impl # i
    /\ reg' = [reg EXCEPT !.there = @ \ {i}]
    /\ Fall(Resolutions(i))
    /\ aside' = aside \cup Leaning({i}) \cup Above(Resolutions(i))
    /\ TaskFalls(i, None)
    /\ UNCHANGED <<up, visited, stack, answer, read, slots, calls, anew, bounds>>

\* An implementation is declared again: the row of its action is rewritten, it may turn to
\* another action that no other implementation of its agent has, and dependencies are added
\* or changed, never removed.  The old action is deleted where nobody else implements it; the
\* implementation and its resolutions fall with it, unless that is refused because a
\* resolution chose it, and the implementation is saved again, without what hung on it.
Register(decl) ==
    LET i     == decl.impl
        old   == reg.action[i]
        using == {j \in reg.there : reg.action[j] = decl.action}
        falls == old # decl.action /\ {j \in reg.there : reg.action[j] = old} = {i}
        rs    == IF falls THEN Resolutions(i) ELSE {}
    IN  /\ i \in reg.there /\ regs < MaxRegs
        /\ reg.catalogue[decl.action] # None
        /\ \A j \in using \ {i} : AgentOf[j] # AgentOf[i]
        /\ falls => \A x \in rows : x.impl # i
        /\ reg' = [reg EXCEPT
                     !.action[i] = decl.action,
                     !.deps[i] = decl.deps \cup {d \in @ : ~falls /\ \A e \in decl.deps : e.key # d.key},
                     !.catalogue = [x \in DOMAIN @ |-> IF x = decl.action THEN decl.row
                                                       ELSE IF falls /\ x = old THEN None ELSE @[x]]]
        /\ Fall(rs)
        /\ aside' = aside \cup Leaning(using \cup {i}) \cup Resolutions(i) \cup Above(rs)
        /\ IF falls THEN TaskFalls(i, old) ELSE UNCHANGED task
        /\ anew' = IF task = "none" THEN anew ELSE anew \cup {i}
        /\ regs' = regs + 1
        /\ UNCHANGED <<up, visited, stack, answer, read, slots, calls, edits, scenario>>

\* The states of an agent are declared again.
RegisterStates(decl) ==
    /\ regs < MaxRegs
    /\ reg' = [reg EXCEPT !.states[decl.agent] = decl.states]
    /\ aside' = aside \cup {r \in DOMAIN res : res[r] # None /\ \E d \in reg.deps[res[r]] : d.states # {}}
    /\ regs' = regs + 1
    /\ UNCHANGED <<up, res, rows, visited, stack, answer, assigning, edits, scenario>>
-----------------------------------------------------------------------------
(* build_dependency_dict, and what a task does with it. *)

\* The action a demand of a slot is looked up by: its key, or the name of the slot.
ActionKey(d, k) == IF d.demands[k].key # None THEN d.demands[k].key ELSE k

\* The key of the action an implementation has now.
KeyOf(i) == reg.catalogue[reg.action[i]].key

Candidates(g, d, k) == {i \in reg.there : AgentOf[i] = g /\ KeyOf(i) = ActionKey(d, k)}

\* build_agent_dependency_dict raises: no implementation, two of them, or one that has
\* dependencies.
AgentRaises(g, d) ==
    \E k \in DOMAIN d.demands :
        \/ Cardinality(Candidates(g, d, k)) # 1
        \/ \E i \in Candidates(g, d, k) : reg.deps[i] # {}

BuildAgentDependencyDict(g, d) ==
    [agent |-> g, actions |-> [k \in DOMAIN d.demands |-> CHOOSE i \in Candidates(g, d, k) : TRUE]]

\* At most max of those found, in no order.
SlicedAgents(found, d) ==
    {gs \in SUBSET found :
        IF d.max \in 0 .. Cardinality(found) THEN Cardinality(gs) = d.max ELSE gs = found}

\* A negative slice raises.
SliceRaises(d) == d.max # None /\ d.max < 0

\* A mutant of EnoughAgents: a minimum of one is taken for none.
EnoughAgentsIfMany(gs, d) == d.min = None \/ d.min = 1 \/ Cardinality(gs) >= d.min

EnoughAgents(gs, d) == d.min = None \/ Cardinality(gs) >= d.min

Assign ==
    /\ "assign" \in scenario /\ task = "none" /\ Root \in reg.there
    /\ task' = "resolving"
    /\ read' = [action |-> reg.action[Root], deps |-> reg.deps[Root]]
    /\ UNCHANGED <<reg, up, resolving, slots, calls, anew, bounds>>

\* One dependency: of the agents of its app, or those the caller maps, the available ones.
ResolveSlot(d, mapped) ==
    /\ task = "resolving" /\ d \in read.deps /\ d.key \notin DOMAIN slots
    /\ mapped \in {None} \cup SUBSET Agents
    /\ \E gs \in SlicedAgents((IF mapped = None THEN d.app ELSE mapped) \cap up, d) :
          IF /\ mapped # None \/ d.auto
             /\ ~SliceRaises(d) /\ EnoughAgents(gs, d) /\ \A g \in gs : ~AgentRaises(g, d)
          THEN /\ slots' = [k \in DOMAIN slots \cup {d.key} |->
                              IF k = d.key THEN {BuildAgentDependencyDict(g, d) : g \in gs} ELSE slots[k]]
               /\ UNCHANGED task
          ELSE task' = "refused" /\ UNCHANGED slots
    /\ UNCHANGED <<reg, up, resolving, read, calls, anew, bounds>>

\* All slots are filled: the task is created and sent, if what it refers to is still there.
Dispatch ==
    /\ task = "resolving" /\ \A d \in read.deps : d.key \in DOMAIN slots
    /\ task' = IF Root \in reg.there /\ reg.catalogue[read.action] # None THEN "running" ELSE "refused"
    /\ UNCHANGED <<reg, up, resolving, read, slots, calls, anew, bounds>>

\* The task calls a method of a dependency: any agent of the slot, its implementation as
\* it was found with the action it has now, without dependencies, whether the agent is there
\* or not.
Call(d, k) ==
    /\ task = "running" /\ Cardinality(calls) < MaxCalls
    /\ d \in read.deps /\ k \in DOMAIN d.demands
    /\ IF slots[d.key] = {} THEN calls' = calls \cup {[dep |-> d, key |-> k, end |-> "empty"]}
       ELSE \E s \in slots[d.key] :
                LET i == s.actions[k]
                IN  calls' = calls \cup
                        {IF i \notin reg.there THEN [dep |-> d, key |-> k, end |-> "gone"]
                         ELSE [dep |-> d, key |-> k, end |-> "sent", runs |-> KeyOf(i),
                               bare |-> reg.deps[i] = {}, anew |-> i \in anew]}
    /\ UNCHANGED <<reg, up, resolving, read, slots, task, anew, bounds>>
-----------------------------------------------------------------------------
Resolver == PickDependency \/ PickAgent \/ PickDemand \/ TryImplementation \/ Return

Next ==
    \/ AutoResolve \/ Resolver \/ CreateResolution
    \/ \E r \in DOMAIN res : UpdateResolution(r) \/ DeleteResolution(r)
    \/ \E g \in Agents : Come(g) \/ Go(g)
    \/ \E i \in Impls : Drop(i)
    \/ \E decl \in Declarations : Register(decl)
    \/ \E decl \in StateDeclarations : RegisterStates(decl)
    \/ Assign \/ Dispatch
    \/ \E d \in read.deps : \E m \in {None} \cup SUBSET Agents : ResolveSlot(d, m)
    \/ \E d \in read.deps : \E k \in DOMAIN d.demands : Call(d, k)

Spec == Init /\ [][Next]_vars
-----------------------------------------------------------------------------
(* Properties. *)

SlotKeys  == UNION {DOMAIN d.demands : d \in Dependencies}
Names     == DOMAIN Catalogue
Frames    == [res : Nat, of : Impls, left : SUBSET Dependencies, dep : Dependencies \cup {None},
              ids : UNION {[K -> SUBSET Names] : K \in SUBSET SlotKeys}, agent : Agents \cup {None},
              keys : SUBSET SlotKeys, key : SlotKeys \cup {None}, cands : SUBSET Impls, count : Nat]
Rows      == [res : DOMAIN res, dep : {d.key : d \in Dependencies}, key : SlotKeys,
              impl : Impls, down : Nat \cup {None}]
StateSets == {StatesOf[g] : g \in Agents} \cup {decl.states : decl \in StateDeclarations}
Registry  == [there : SUBSET Impls, action : [Impls -> Names], deps : [Impls -> SUBSET Dependencies],
              catalogue : [Names -> ActionRows \cup {None}], states : [Agents -> StateSets]]

\* What is registered, the rows, the frames of auto_resolve and the dependency dict have
\* their types.
TypeOK ==
    /\ reg \in Registry /\ up \subseteq Agents
    /\ res \in Seq(Impls \cup {None}) /\ rows \subseteq Rows
    /\ visited \subseteq Impls /\ stack \in Seq(Frames)
    /\ answer \in {"none", "running", "done", "failed"} /\ aside \subseteq DOMAIN res
    /\ read \in [action : Names \cup {None}, deps : SUBSET Dependencies]
    /\ DOMAIN slots \subseteq {d.key : d \in read.deps}
    /\ task \in {"none", "resolving", "refused", "running", "gone"}
    /\ anew \subseteq Impls
    /\ edits \in 0 .. MaxEdits /\ regs \in 0 .. MaxRegs /\ scenario \in Scenarios

\* What a demand asks of a state's ports, by position from 0, but for the dimension, which
\* the scanner does not look at (nor do state demands here have nested matches, which it
\* compares with the child after the one meant).
StateMeets(db, g, m) ==
    \E s \in db.states[g] : BuildMatchExists([m EXCEPT !.dimension = None], s)

Chosen(r, d, k) == {x \in rows : x.res = r /\ x.dep = d.key /\ x.key = k}

\* A resolution that auto_resolve is through with has, for every demand of every dependency
\* that its implementation has now, between one and the preferred number of implementations
\* (one if less than one is preferred), all on one agent that meets every demand of the
\* dependency, each with a resolution below it if it has dependencies itself.  Nothing is
\* promised of a resolution that was created or updated by a user or has lost one below it,
\* that auto_resolve did not finish, or left short of an implementation it had visited; nor
\* of one spoiled by a registration: its implementation, one it has chosen, one of the
\* action of that, or the states were declared again, or while it was choosing on an agent,
\* an implementation there was declared again or dropped.
ResolutionMeetsDemands ==
    \A r \in DOMAIN res \ (aside \cup InHand) : res[r] # None =>
        \A d \in reg.deps[res[r]] : \E g \in Agents :
            /\ \A k \in DOMAIN d.demands :
                  /\ Chosen(r, d, k) # {}
                  /\ Cardinality(Chosen(r, d, k)) = 1 \/ Cardinality(Chosen(r, d, k)) <= d.prefered
                  /\ \A x \in Chosen(r, d, k) :
                        /\ AgentOf[x.impl] = g
                        /\ ActionDemandClauses(d.demands[k], reg.catalogue[reg.action[x.impl]])
                        /\ (x.down # None) = (reg.deps[x.impl] # {})
            /\ \A m \in d.states : StateMeets(reg, g, m)

\* A call of a running task on a dependency finds no agent only if the dependency, as the
\* assignment read it, asks for no minimum above zero, and finds no more agents than its
\* maximum.  It runs the action the demand names, whose ports are not looked at, on an
\* implementation without dependencies, unless the implementation was declared again since
\* the assignment began.
CallsMeetTheirSlot ==
    /\ task = "running" => \A d \in read.deps : d.max # None => Cardinality(slots[d.key]) <= d.max
    /\ \A c \in calls :
          /\ c.end = "empty" => c.dep.min = None \/ c.dep.min <= 0
          /\ c.end = "sent" /\ ~c.anew => c.runs = ActionKey(c.dep, c.key) /\ c.bare

\* auto_resolve is never inside one implementation twice at a time, other than the root,
\* which it may enter once more, though implementations may depend on each other in a ring:
\* so its recursion is bounded and it comes to an end.
EntersOnce ==
    \A m, n \in DOMAIN stack : m < n /\ stack[m].of = stack[n].of => n = Len(stack) /\ stack[m].of = Root
=============================================================================
