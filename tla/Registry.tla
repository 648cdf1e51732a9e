------------------------------- MODULE Registry -------------------------------
(***************************************************************************)
(* The registration of implementations (mutations/agent.py,                *)
(* mutations/implementation.py) by the agents of one app and organization. *)
(* They share the Action rows, which a registration creates, rewrites or   *)
(* deletes.  implement_agent is one transaction under READ COMMITTED: it   *)
(* sees what is committed and what it wrote itself, waits where another    *)
(* transaction has written the same row, and its foreign keys are checked  *)
(* when it commits.  A user may pin or delete an implementation meanwhile. *)
(* The locks, states and bloks that a registration declares too, which no  *)
(* other registration's rows depend on, are left out.                      *)
(***************************************************************************)
EXTENDS Integers, FiniteSets

CONSTANTS
    Agents,         \* agents of the app, each with its own implementations
    Interfaces,     \* the functions an agent may declare
    Keys,           \* action identities: key and version
    Definitions,    \* what an interface may declare: <<key, hash of the definition, whether
                    \* its qualifiers go together (pure rules out stateful and PHYSICAL)>>
    Malformed,      \* hashes of definitions whose requires or provides do not compile
    Before,         \* the definition that has been declared before
    Declarations,   \* what an agent may declare: a definition or Null by interface
    MaxRegs,        \* bound: registrations per agent
    MaxUsers,       \* bound: deletions and pins by users
    Null,           \* no such row
    Same            \* a row the transaction has not written

Pairs == Agents \X Interfaces
Hashes == {d[2] : d \in Definitions}

ASSUME RegistryAssumption ==
    /\ Definitions \subseteq Keys \X Hashes \X BOOLEAN
    /\ Malformed \subseteq Hashes
    /\ Before \in Definitions
    /\ Declarations \subseteq [Interfaces -> Definitions \cup {Null}]
    /\ IsFiniteSet(Agents) /\ IsFiniteSet(Interfaces)
    /\ MaxRegs \in Nat /\ MaxUsers \in Nat
    /\ {Null, Same} \cap (Keys \cup Hashes \cup Interfaces \cup Agents) = {}

VARIABLES
    act,        \* committed Action rows by key
    ports,      \* committed ArgPort and ReturnPort rows by key, one mark per copy
    impl,       \* committed Implementation rows by agent and interface
    tx,         \* the registration each agent has under way
    pin,        \* a pin_implementation between its get and its save
    regs,       \* registrations begun, by agent
    legacy,     \* Action rows of before the relational ports existed
    protected,  \* implementations that some Resolution names
    meddled,    \* deletions and pins so far
    declared,   \* history: what the last registration that committed declared
    since       \* history: what others did to an implementation since that one began:
                \* <<"deleted" by a user | "lost" to a cascade | "revived" by a pin, pair>>

vars == <<act, ports, impl, tx, pin, regs, legacy, protected, meddled, declared, since>>
db == <<act, ports, impl>>
history == <<legacy, protected, meddled, declared, since>>

\* A row is named by the registration that inserted it.
Pks == (Agents \X (1..MaxRegs)) \cup {Null}
Actions == [pk : Pks, hash : Hashes, current : BOOLEAN]
Copies == [by : Pks, hash : Hashes]
Impls == [pk : 0..MaxRegs, key : Keys, action : Pks]

ASSUME NoRowAssumption ==
    /\ Null # Same /\ Null \notin Agents \X (1 .. MaxRegs)
    /\ {Null, Same} \cap (Actions \cup Impls) = {}

Idle == [pc |-> "idle"]

\* Some of the agents have declared one action before, whose ports exist or do not yet:
\* one whose ports cannot be built was declared before there were any.
Init ==
    /\ legacy \in BOOLEAN /\ (Before[2] \in Malformed => legacy)
    /\ act = [k \in Keys |-> IF k # Before[1] THEN Null
                             ELSE [pk |-> Null, hash |-> Before[2], current |-> ~legacy]]
    /\ ports = [k \in Keys |-> IF k # Before[1] \/ legacy THEN {}
                               ELSE {[by |-> Null, hash |-> Before[2]]}]
    /\ \E i \in Interfaces, old \in SUBSET Agents :
          /\ impl = [a \in Agents |-> [j \in Interfaces |->
                        IF a \in old /\ j = i THEN [pk |-> 0, key |-> Before[1], action |-> Null]
                        ELSE Null]]
          /\ protected \in {{}, {<<a, i>> : a \in old}}
    /\ tx = [a \in Agents |-> Idle]
    /\ pin = Null
    /\ regs = [a \in Agents |-> 0]
    /\ meddled = 0
    /\ declared = [a \in Agents |-> Null]
    /\ since = {}
-----------------------------------------------------------------------------
(* What a transaction sees, and what it waits for. *)

SeesAction(a, k) == IF tx[a].act[k] = Same THEN act[k] ELSE tx[a].act[k]
SeesImpl(a, j) == IF tx[a].impl[j] = Same THEN impl[a][j] ELSE tx[a].impl[j]
SeesRow(a, p) == IF p[1] = a THEN SeesImpl(a, p[2])
                 ELSE IF p \in tx[a].cascade THEN Null ELSE impl[p[1]][p[2]]
SeesPorts(a, k) == (ports[k] \ tx[a].dropped[k]) \cup tx[a].built[k]

Active(a) == tx[a].pc # "idle"
Declared(a) == tx[a].decl[tx[a].cur]
Key(a) == Declared(a)[1]
Hash(a) == Declared(a)[2]
Coherent(a) == Declared(a)[3]
Entry(a) == tx[a].actions[Key(a)]          \* action_map.get((key, version))
Known(a) == tx[a].impls[tx[a].cur]         \* implementation_map.get(interface)

\* The rows action.delete() has collected which are still there, by their keys.
Doomed(a) == {p \in Pairs : SeesRow(a, p) # Null /\ <<p, SeesRow(a, p).pk>> \in tx[a].collected}

\* The rows a transaction has written and not committed, and the keys it has deleted.
Holds(a) ==
    IF ~Active(a) THEN {}
    ELSE {<<"action", k>> : k \in {k \in Keys : tx[a].act[k] # Same}}
         \cup {<<"gone", k>> : k \in {k \in Keys : tx[a].act[k] = Null}}
         \cup {<<"impl", p>> : p \in {p \in Pairs : p[1] = a /\ tx[a].impl[p[2]] # Same}
                                     \cup tx[a].cascade}

\* The rows the next step of a transaction writes, or at its end refers to.
Wants(a) ==
    CASE tx[a].pc = "action" ->
            IF ~Coherent(a) \/ (Entry(a) # Null /\ Entry(a).hash = Hash(a)) THEN {} ELSE {<<"action", Key(a)>>}
      [] tx[a].pc = "counts" -> {<<"action", Key(a)>>}
      [] tx[a].pc = "drop" -> {<<"action", Known(a).key>>}
                              \cup {<<"impl", p>> : p \in Doomed(a)}
      [] tx[a].pc = "save" -> {<<"impl", <<a, tx[a].cur>>>>}
      [] tx[a].pc = "reap" -> {<<"impl", p>> : p \in {p \in Pairs : p[1] = a}}
      [] tx[a].pc = "commit" -> {<<"gone", tx[a].impl[j].key>> :
                                    j \in {j \in Interfaces : tx[a].impl[j] \notin {Same, Null}}}
      [] OTHER -> {}

WaitsFor(a) == {b \in Agents \ {a} : Wants(a) \cap Holds(b) # {}}

Goto(a, pc, rec) == tx' = [tx EXCEPT ![a] = [rec EXCEPT !.pc = pc]]

\* An exception rolls the whole registration back.
Abort(a) ==
    /\ tx' = [tx EXCEPT ![a] = Idle]
    /\ UNCHANGED <<db, pin, regs, history>>

At(a, pc) == tx[a].pc = pc /\ WaitsFor(a) = {}

\* Nothing else is going on.
Undisturbed(a) == (\A b \in Agents \ {a} : ~Active(b)) /\ pin = Null

\* A step of anybody else ends the solitude of the registrations under way, which
\* remember what it did.
Disturb(f, a, deeds) ==
    [b \in Agents |-> IF b # a /\ f[b].pc # "idle"
                       THEN [f[b] EXCEPT !.alone = FALSE, !.since = @ \cup deeds] ELSE f[b]]
-----------------------------------------------------------------------------
(* implement_agent. *)

\* The agent row is upserted, which keeps a second registration of the agent waiting,
\* and both maps are read.
Begin(a, decl) ==
    /\ ~Active(a) /\ regs[a] < MaxRegs
    /\ regs' = [regs EXCEPT ![a] = @ + 1]
    /\ tx' = [Disturb(tx, a, {}) EXCEPT ![a] =
                [pc |-> "next", decl |-> decl, left |-> {j \in Interfaces : decl[j] # Null},
                 cur |-> Null, alone |-> Undisturbed(a),
                 actions |-> [k \in Keys |-> IF \E j \in Interfaces : decl[j] # Null /\ decl[j][1] = k
                                             THEN act[k] ELSE Null],
                 impls |-> impl[a],
                 act |-> [k \in Keys |-> Same], impl |-> [j \in Interfaces |-> Same],
                 dropped |-> [k \in Keys |-> {}], built |-> [k \in Keys |-> {}],
                 collected |-> {}, cascade |-> {}, counted |-> {}, since |-> {}]]
    /\ UNCHANGED <<db, pin, history>>

\* The declared implementations are taken in the order of the list, which is any.
NextDeclared(a) ==
    /\ At(a, "next")
    /\ IF tx[a].left = {} THEN Goto(a, "reap", tx[a])
       ELSE \E j \in tx[a].left :
                Goto(a, "action", [tx[a] EXCEPT !.cur = j, !.left = @ \ {j}])
    /\ UNCHANGED <<db, pin, regs, history>>

\* Is there an Action row the entry of the map still names?
EntryIsThere(a) ==
    SeesAction(a, Key(a)) # Null /\ SeesAction(a, Key(a)).pk = Entry(a).pk

ThisRegistration(a) == <<a, regs[a]>>

Write(a, k, r) == [tx[a] EXCEPT !.act[k] = r, !.actions[k] = r]

\* Are the counts and the ports those of the definition?  The entry's counts are those
\* the map was read with, the ports are looked up.
RelationalStateIsCurrent(a) == Entry(a).current /\ SeesPorts(a, Key(a)) # {}

\* The Action row is created, rewritten or left alone.  Whoever saves a row that is gone
\* inserts it again.
UpsertAction(a) ==
    /\ At(a, "action") /\ Coherent(a)
    /\ LET k == Key(a)
           e == Entry(a)
           fresh == [pk |-> ThisRegistration(a), hash |-> Hash(a), current |-> FALSE]
       IN  \/ /\ e = Null /\ SeesAction(a, k) = Null
              /\ Goto(a, "ports", Write(a, k, fresh))
           \/ /\ e # Null /\ e.hash # Hash(a)
              /\ EntryIsThere(a) \/ SeesAction(a, k) = Null
              /\ Goto(a, "ports", Write(a, k, [e EXCEPT !.hash = Hash(a)]))
           \/ /\ e # Null /\ e.hash = Hash(a) /\ (e.current => EntryIsThere(a))
              /\ Goto(a, IF RelationalStateIsCurrent(a) THEN "impl" ELSE "ports", tx[a])
    /\ UNCHANGED <<db, pin, regs, history>>

\* Qualifiers that contradict each other, a second row of the same identity, or the probe
\* of a row that is gone.
UpsertFails(a) ==
    /\ At(a, "action")
    /\ LET k == Key(a)
           e == Entry(a)
       IN  \/ ~Coherent(a)
           \/ e = Null /\ SeesAction(a, k) # Null
           \/ e # Null /\ e.hash # Hash(a) /\ ~EntryIsThere(a) /\ SeesAction(a, k) # Null
           \/ e # Null /\ e.hash = Hash(a) /\ e.current /\ ~EntryIsThere(a)
    /\ Abort(a)

\* A mutant of RebuildRelationalPorts: the old rows are kept.
RebuildRelationalPortsWithoutPurge(a) ==
    /\ At(a, "ports")
    /\ IF Hash(a) \in Malformed THEN Abort(a)
       ELSE /\ Goto(a, "counts", [tx[a] EXCEPT
                   !.built[Key(a)] = {[by |-> ThisRegistration(a), hash |-> Hash(a)]}])
            /\ UNCHANGED <<db, pin, regs, history>>

\* The rows that are visible are deleted, the new ones inserted, unless a descriptor of the
\* definition does not compile.
RebuildRelationalPorts(a) ==
    /\ At(a, "ports")
    /\ IF Hash(a) \in Malformed THEN Abort(a)
       ELSE /\ Goto(a, "counts", [tx[a] EXCEPT
                   !.dropped[Key(a)] = @ \cup ports[Key(a)],
                   !.built[Key(a)] = {[by |-> ThisRegistration(a), hash |-> Hash(a)]}])
            /\ UNCHANGED <<db, pin, regs, history>>

\* Only now the Action row is locked where its definition has not changed: its counts are
\* saved, and the whole row as the map holds it.
SaveCounts(a) ==
    /\ At(a, "counts")
    /\ IF EntryIsThere(a)
       THEN /\ Goto(a, "impl", Write(a, Key(a), [Entry(a) EXCEPT !.current = TRUE]))
            /\ UNCHANGED <<db, pin, regs, history>>
       ELSE Abort(a)

Uses(r, k, pk) == r # Null /\ r.key = k /\ r.action = pk

\* The implementations of the action that the interface moves away from.
Users(a, r) == {p \in Pairs : Uses(SeesRow(a, p), r.key, r.action)}

\* The old action is deleted if exactly one implementation uses it, as counted here.
CountUsers(a) ==
    /\ At(a, "impl")
    /\ LET r == Known(a)
           users == Users(a, r)
       IN  IF r = Null \/ Uses(r, Key(a), Entry(a).pk) \/ Cardinality(users) # 1
           THEN Goto(a, "save", tx[a])
           ELSE Goto(a, "collect", [tx[a] EXCEPT !.counted = users])
    /\ UNCHANGED <<db, pin, regs, history>>

\* action.delete() looks for what CASCADE takes along; what a Resolution names is
\* protected.
CollectUsers(a) ==
    /\ At(a, "collect")
    /\ LET users == Users(a, Known(a))
       IN  IF users \cap protected # {} THEN Abort(a)
           ELSE /\ Goto(a, "drop", [tx[a] EXCEPT
                       !.collected = {<<p, SeesRow(a, p).pk>> : p \in users}])
                /\ UNCHANGED <<db, pin, regs, history>>

\* The rows go, with the ports of the action.
DropAction(a) ==
    /\ At(a, "drop")
    /\ LET k == Known(a).key
           there == SeesAction(a, k) # Null /\ SeesAction(a, k).pk = Known(a).action
       IN  Goto(a, "save", [tx[a] EXCEPT
              !.act[k] = IF there THEN Null ELSE @,
              !.dropped[k] = IF there THEN @ \cup ports[k] ELSE @,
              !.built[k] = IF there THEN {} ELSE @,
              !.impl = [i \in Interfaces |-> IF <<a, i>> \in Doomed(a) THEN Null ELSE @[i]],
              !.cascade = @ \cup {p \in Doomed(a) : p[1] # a},
              !.collected = {}])
    /\ UNCHANGED <<db, pin, regs, history>>

\* A mutant of SaveImplementation: the row is always created.
SaveImplementationCreates(a) ==
    /\ At(a, "save")
    /\ LET j == tx[a].cur
           clash == \/ \E i \in Interfaces \ {j} : Uses(SeesImpl(a, i), Key(a), Entry(a).pk)
                    \/ SeesImpl(a, j) # Null
       IN  IF clash THEN Abort(a)
           ELSE /\ Goto(a, "next", [tx[a] EXCEPT !.impl[j] =
                       [pk |-> regs[a], key |-> Key(a), action |-> Entry(a).pk]])
                /\ UNCHANGED <<db, pin, regs, history>>

\* The Implementation row is inserted, updated, or inserted again under its old key.  An
\* agent has one implementation per action and one per interface at every moment.
SaveImplementation(a) ==
    /\ At(a, "save")
    /\ LET j == tx[a].cur
           pk == IF Known(a) = Null THEN regs[a] ELSE Known(a).pk
           clash == \/ \E i \in Interfaces \ {j} : Uses(SeesImpl(a, i), Key(a), Entry(a).pk)
                    \/ SeesImpl(a, j) # Null /\ SeesImpl(a, j).pk # pk
       IN  IF clash THEN Abort(a)
           ELSE /\ Goto(a, "next", [tx[a] EXCEPT !.impl[j] =
                       [pk |-> pk, key |-> Key(a), action |-> Entry(a).pk]])
                /\ UNCHANGED <<db, pin, regs, history>>

\* A mutant of Reap: only what the registration has seen at its start is reaped.
ReapNothing(a) ==
    /\ At(a, "reap")
    /\ Goto(a, "commit", tx[a])
    /\ UNCHANGED <<db, pin, regs, history>>

\* What the agent no longer declares is deleted, after everything else.
Reap(a) ==
    /\ At(a, "reap")
    /\ LET stale == {j \in Interfaces : tx[a].decl[j] = Null /\ SeesImpl(a, j) # Null}
       IN  IF \E j \in stale : <<a, j>> \in protected THEN Abort(a)
           ELSE /\ Goto(a, "commit", [tx[a] EXCEPT
                       !.impl = [j \in Interfaces |-> IF j \in stale THEN Null ELSE @[j]]])
                /\ UNCHANGED <<db, pin, regs, history>>

\* The deferred foreign keys: the actions this registration refers to are there, and
\* nobody refers to one it deleted.
ForeignKeysHold(a) ==
    /\ \A j \in Interfaces : tx[a].impl[j] \notin {Same, Null} =>
           /\ SeesAction(a, tx[a].impl[j].key) # Null
           /\ SeesAction(a, tx[a].impl[j].key).pk = tx[a].impl[j].action
    /\ \A k \in Keys : tx[a].act[k] = Null /\ act[k] # Null =>
           \A p \in Pairs : ~Uses(SeesRow(a, p), k, act[k].pk)

\* What the agent has declared and saved, and deleted again with an action.
TakenFromItself(a) ==
    {p \in Pairs : p[1] = a /\ tx[a].decl[p[2]] # Null /\ tx[a].impl[p[2]] = Null}

Commit(a) ==
    /\ At(a, "commit")
    /\ IF ~ForeignKeysHold(a) THEN Abort(a)
       ELSE /\ act' = [k \in Keys |-> SeesAction(a, k)]
            /\ ports' = [k \in Keys |-> SeesPorts(a, k)]
            /\ impl' = [b \in Agents |-> [j \in Interfaces |-> SeesRow(a, <<b, j>>)]]
            /\ declared' = [declared EXCEPT ![a] = tx[a].decl]
            /\ LET own == {d \in tx[a].since : d[2][1] = a}
                   lost == {<<"lost", p>> : p \in IF own = {} THEN tx[a].cascade \ tx[a].counted
                                                   ELSE tx[a].cascade \cup TakenFromItself(a)}
               IN  /\ since' = {d \in since : d[2][1] # a} \cup lost \cup own
                   /\ tx' = [Disturb(tx, a, lost) EXCEPT ![a] = Idle]
            /\ UNCHANGED <<pin, regs, legacy, protected, meddled>>

\* Two registrations that wait for each other: PostgreSQL ends one of them.
Deadlock(a) ==
    /\ Active(a)
    /\ \E b \in WaitsFor(a) : a \in WaitsFor(b)
    /\ Abort(a)
-----------------------------------------------------------------------------
(* Users. *)

Unlocked(locks) == \A a \in Agents : Holds(a) \cap locks = {}

DeleteImplementation(p) ==
    /\ impl[p[1]][p[2]] # Null /\ p \notin protected /\ Unlocked({<<"impl", p>>})
    /\ meddled < MaxUsers /\ meddled' = meddled + 1
    /\ impl' = [impl EXCEPT ![p[1]][p[2]] = Null]
    /\ since' = since \cup {<<"deleted", p>>}
    /\ tx' = Disturb(tx, Null, {<<"deleted", p>>})
    /\ UNCHANGED <<act, ports, pin, regs, legacy, protected, declared>>

\* pin_implementation reads the whole row ...
PinRead(p) ==
    /\ pin = Null /\ impl[p[1]][p[2]] # Null
    /\ meddled < MaxUsers /\ meddled' = meddled + 1
    /\ pin' = [of |-> p, row |-> impl[p[1]][p[2]]]
    /\ tx' = Disturb(tx, Null, {})
    /\ UNCHANGED <<db, regs, legacy, protected, declared, since>>

\* ... and saves it, or inserts it if it has gone, as far as the constraints allow.
PinSave ==
    /\ pin # Null /\ Unlocked({<<"impl", pin.of>>, <<"gone", pin.row.key>>})
    /\ LET a == pin.of[1]
           j == pin.of[2]
           allowed == /\ impl[a][j] = Null \/ impl[a][j].pk = pin.row.pk
                      /\ act[pin.row.key] # Null /\ act[pin.row.key].pk = pin.row.action
                      /\ \A i \in Interfaces \ {j} :
                            ~Uses(impl[a][i], pin.row.key, pin.row.action)
           deed == {<<"revived", pin.of>>}
       IN  IF allowed /\ impl[a][j] # pin.row
           THEN /\ impl' = [impl EXCEPT ![a][j] = pin.row]
                /\ since' = since \cup deed
                /\ tx' = Disturb(tx, Null, deed)
           ELSE tx' = Disturb(tx, Null, {}) /\ UNCHANGED <<impl, since>>
    /\ pin' = Null
    /\ UNCHANGED <<act, ports, regs, legacy, protected, meddled, declared>>
-----------------------------------------------------------------------------
Step(a) ==
    \/ NextDeclared(a) \/ UpsertAction(a) \/ UpsertFails(a) \/ RebuildRelationalPorts(a)
    \/ SaveCounts(a) \/ CountUsers(a) \/ CollectUsers(a) \/ DropAction(a)
    \/ SaveImplementation(a) \/ Reap(a) \/ Commit(a) \/ Deadlock(a)

Next ==
    \/ \E a \in Agents : Step(a)
    \/ \E a \in Agents, decl \in Declarations : Begin(a, decl)
    \/ \E p \in Pairs : DeleteImplementation(p) \/ PinRead(p)
    \/ PinSave

Spec == Init /\ [][Next]_vars
-----------------------------------------------------------------------------
(* Properties. *)

\* Type correctness of the committed rows, which also says that every implementation of a
\* registered agent refers to an action that is there.
TypeOK ==
    /\ act \in [Keys -> Actions \cup {Null}]
    /\ ports \in [Keys -> SUBSET Copies]
    /\ impl \in [Agents -> [Interfaces -> Impls \cup {Null}]]
    /\ \A p \in Pairs : LET r == impl[p[1]][p[2]]
                        IN  r # Null => act[r.key] # Null /\ act[r.key].pk = r.action

\* After a registration an agent has exactly the implementations it declared, on the
\* actions it declared, for as long as no user deletes one and no pin that overlapped the
\* registration writes an old row back.  An implementation another agent takes away with
\* its action was committed after that agent had counted the users of the action, or
\* others meddled with that agent's own under its registration, which then counts one
\* less than it takes itself to be.  What it so takes away may be its own
\* (_create_implementation, lines 326 to 338, and the reap of implement_agent).
RegisteredIsDeclared ==
    \A p \in Pairs : LET r == impl[p[1]][p[2]]
                         decl == declared[p[1]]
                     IN  decl # Null /\ <<"revived", p>> \notin since =>
                            \/ /\ r = Null
                               /\ decl[p[2]] = Null \/ {<<"deleted", p>>, <<"lost", p>>} \cap since # {}
                            \/ r # Null /\ decl[p[2]] # Null /\ r.key = decl[p[2]][1]

\* The matching engine sees the ports of the definition an action has, each once, unless
\* the action is older than the ports and two agents brought it up to date at once, which
\* leaves it the ports of both (rebuild_relational_ports).
PortsMatchDefinition ==
    \A k \in Keys : act[k] # Null /\ act[k].current =>
        \/ \E c \in ports[k] : ports[k] = {c} /\ c.hash = act[k].hash
        \/ legacy /\ Cardinality(ports[k]) > 1

\* Nothing else going on, a registration fails only for what it declares: a definition
\* that is not valid in itself (its qualifiers contradict each other, or a descriptor does
\* not compile), an action declared twice, an action that another interface of the agent
\* still has, or a row to delete that a Resolution protects.
Valid(d) == d[3] /\ d[2] \notin Malformed

LoneRegistrationLands ==
    [][\A a \in Agents :
        Active(a) /\ tx[a].alone /\ ~Active(a)' /\ declared'[a] # tx[a].decl =>
            \/ \E i \in Interfaces : tx[a].decl[i] # Null /\ ~Valid(tx[a].decl[i])
            \/ \E i, j \in Interfaces : /\ i # j /\ tx[a].decl[i] # Null
                                        /\ \/ tx[a].decl[j] # Null /\ tx[a].decl[i][1] = tx[a].decl[j][1]
                                           \/ tx[a].impls[j] # Null /\ tx[a].impls[j].key = tx[a].decl[i][1]
            \/ \E p \in protected : p[1] = a]_vars
=============================================================================
