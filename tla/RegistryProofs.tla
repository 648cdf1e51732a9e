---------------------------- MODULE RegistryProofs ----------------------------
(***************************************************************************)
(* Proofs about Registry, for any finite set of agents and interfaces, any *)
(* definitions and declarations, and any number of registrations and of    *)
(* deletions and pins by users.                                            *)
(***************************************************************************)
EXTENDS Registry, FiniteSetTheorems, TLAPS
-----------------------------------------------------------------------------
(* The invariant. *)

Steps  == {"next", "action", "ports", "counts", "impl", "collect", "drop", "save", "reap",
           "commit"}
\* A transaction is taking an interface; it is bringing the ports of its action up to date.
Taking   == {"action", "ports", "counts", "impl", "collect", "drop", "save"}
Updating == {"ports", "counts"}

Deeds == {"deleted", "lost", "revived"} \X Pairs
Decls == [Interfaces -> Definitions \cup {Null}]

TxRecords ==
    [pc : Steps, decl : Decls, left : SUBSET Interfaces, cur : Interfaces \cup {Null},
     alone : BOOLEAN, actions : [Keys -> Actions \cup {Null}],
     impls : [Interfaces -> Impls \cup {Null}], act : [Keys -> Actions \cup {Null, Same}],
     impl : [Interfaces -> Impls \cup {Null, Same}], dropped : [Keys -> SUBSET Copies],
     built : [Keys -> SUBSET Copies], collected : SUBSET (Pairs \X (0 .. MaxRegs)),
     cascade : SUBSET Pairs, counted : SUBSET Pairs,
     since : SUBSET Deeds]

Typed ==
    /\ act \in [Keys -> Actions \cup {Null}]
    /\ ports \in [Keys -> SUBSET Copies]
    /\ impl \in [Agents -> [Interfaces -> Impls \cup {Null}]]
    /\ tx \in [Agents -> TxRecords \cup {Idle}]
    /\ regs \in [Agents -> 0 .. MaxRegs]
    /\ legacy \in BOOLEAN
    /\ since \subseteq Deeds
    /\ declared \in [Agents -> Decls \cup {Null}]
    /\ pin = Null \/ (pin.of \in Pairs /\ pin.row \in Impls)

\* What is committed of an action r with ports ps, where there were actions without ports
\* before (lg), and where there were none.
Committed(r, ps, lg) ==
    r # Null =>
        /\ lg \/ r.current
        /\ r.current => \/ \E c \in ps : ps = {c} /\ c.hash = r.hash
                        \/ lg /\ Cardinality(ps) > 1

\* The ports of an action name the registrations that built them, which are over.
Tagged(ps) ==
    /\ IsFiniteSet(ps)
    /\ \A c \in ps, a \in Agents, n \in 0 .. MaxRegs :
           c.by = <<a, n>> => n <= regs[a] /\ (Active(a) => n < regs[a])

\* Two registrations never have both written one action.
Exclusive ==
    \A a, b \in Agents : a # b /\ Active(a) /\ Active(b) =>
        \A k \in Keys : tx[a].act[k] = Same \/ tx[b].act[k] = Same

\* The registration t, named reg, is bringing action k up to date.
Updates(t, k) == t.pc \in Updating /\ t.decl[t.cur][1] = k

Copy(reg, h) == [by |-> reg, hash |-> h]

\* What it knows of action k, whose committed ports are ps: it has written no ports of an
\* action it has not written, except that of an action without ports; its own row of the
\* action has the ports of its definition; and nobody has built others since.
PortsInv(t, reg, k, ps, lg) ==
    /\ t.act[k] = Same => \/ t.built[k] = {} /\ t.dropped[k] = {}
                          \/ lg /\ t.pc = "counts" /\ Updates(t, k)
    /\ t.act[k] \notin {Same, Null} =>
           Updates(t, k) \/ (t.act[k].current /\ t.built[k] = {Copy(reg, t.act[k].hash)})
    /\ Updates(t, k) => t.actions[k] # Null /\ t.actions[k].hash = t.decl[t.cur][2]
    /\ Updates(t, k) /\ t.pc = "counts" => t.built[k] = {Copy(reg, t.decl[t.cur][2])}
    /\ ~lg /\ Updates(t, k) => t.act[k] # Same
    /\ ~lg /\ t.built[k] # {} => ps \subseteq t.dropped[k]
    /\ ~lg /\ t.actions[k] # Null => t.actions[k].current \/ Updates(t, k)
    /\ IsFiniteSet(t.built[k]) /\ \A c \in t.built[k] : c.by = reg

\* What others did to the implementations of the agent.
OwnDeeds(t, a) == {d \in t.since : d[2][1] = a}

\* What it sees in interface i, where im are committed.
Seen(t, im, i) == IF t.impl[i] = Same THEN im[i] ELSE t.impl[i]

\* The implementations of the registration t of agent a, of which im are committed: it has
\* saved those it has taken.  Unless others have meddled with them, it counts its own
\* among the users of the action it moves one away from, and deletes no other of its own.
ImplsInv(t, a, im) ==
    /\ t.pc \in Taking => t.cur \in Interfaces /\ t.decl[t.cur] # Null /\ t.cur \notin t.left
    /\ t.pc \in Taking \ {"action"} => t.actions[t.decl[t.cur][1]] # Null
    /\ t.pc \in {"collect", "drop"} => t.impls[t.cur] # Null
    /\ \A j \in t.left : t.impl[j] \in {Same, Null} /\ t.decl[j] # Null
    /\ t.pc \in Taking => t.impl[t.cur] \in {Same, Null}
    /\ \A j \in Interfaces : t.decl[j] # Null /\ j \notin t.left /\ ~(t.pc \in Taking /\ j = t.cur)
           => \/ t.impl[j] \in Impls /\ t.impl[j].key = t.decl[j][1]
              \/ t.impl[j] = Null /\ OwnDeeds(t, a) # {}
    /\ \A j \in Interfaces : t.decl[j] = Null /\ t.pc # "commit" => t.impl[j] \in {Same, Null}
    /\ \A j \in Interfaces : t.decl[j] = Null /\ t.pc = "commit" =>
           \/ t.impl[j] = Null
           \/ t.impl[j] = Same /\ (im[j] = Null \/ <<"revived", <<a, j>>>> \in t.since)
    /\ t.pc \in {"reap", "commit"} => t.left = {}
    /\ \A p \in t.cascade : p[1] # a
    /\ OwnDeeds(t, a) = {} =>
           /\ im = t.impls
           /\ \A p \in t.counted : p[1] = a
           /\ \A j \in t.left : t.impl[j] = Same
           /\ t.pc \in Taking \ {"save"} => t.impl[t.cur] = Same
           /\ t.pc = "collect" => \A i \in Interfaces \ {t.cur} :
                 ~Uses(Seen(t, im, i), t.impls[t.cur].key, t.impls[t.cur].action)
           /\ t.pc = "drop" => \A x \in t.collected : x[1][1] = a => x[1][2] = t.cur

TxInv(a) ==
    Active(a) => /\ regs[a] >= 1
                 /\ \A k \in Keys : PortsInv(tx[a], <<a, regs[a]>>, k, ports[k], legacy)
                 /\ ImplsInv(tx[a], a, impl[a])

CommittedInv == \A k \in Keys : Committed(act[k], ports[k], legacy) /\ Tagged(ports[k])

RegistryInv ==
    /\ Typed
    /\ CommittedInv
    /\ Exclusive
    /\ \A a \in Agents : TxInv(a)
    /\ RegisteredIsDeclared
-----------------------------------------------------------------------------
(* Transactions. *)

LEMMA RecordTypes ==
    \A t \in TxRecords :
        /\ t.pc \in Steps /\ t.decl \in Decls /\ t.left \subseteq Interfaces
        /\ t.cur \in Interfaces \cup {Null} /\ t.alone \in BOOLEAN
        /\ t.actions \in [Keys -> Actions \cup {Null}]
        /\ t.impls \in [Interfaces -> Impls \cup {Null}]
        /\ t.act \in [Keys -> Actions \cup {Null, Same}]
        /\ t.impl \in [Interfaces -> Impls \cup {Null, Same}]
        /\ t.dropped \in [Keys -> SUBSET Copies] /\ t.built \in [Keys -> SUBSET Copies]
        /\ t.collected \subseteq Pairs \X (0 .. MaxRegs)
        /\ t.cascade \subseteq Pairs /\ t.counted \subseteq Pairs /\ t.since \subseteq Deeds
BY DEF TxRecords

LEMMA ActiveIsRecord ==
    ASSUME Typed, NEW a \in Agents
    PROVE  Active(a) <=> tx[a] \in TxRecords
<1>1. tx[a] \in TxRecords \/ tx[a] = Idle
  BY DEF Typed
<1>2. Idle.pc = "idle"
  BY DEF Idle
<1>3. tx[a] \in TxRecords => tx[a].pc \in Steps
  BY RecordTypes
<1>4. "idle" \notin Steps
  BY DEF Steps
<1>5. QED
  BY <1>1, <1>2, <1>3, <1>4 DEF Active

\* The interface a registration is taking declares an action and a definition.
LEMMA DeclaredType ==
    ASSUME NEW t \in TxRecords, NEW a, NEW im, ImplsInv(t, a, im), t.pc \in Taking
    PROVE  /\ t.cur \in Interfaces
           /\ t.decl[t.cur] \in Definitions
           /\ t.decl[t.cur][1] \in Keys /\ t.decl[t.cur][2] \in Hashes
<1>1. t.cur \in Interfaces /\ t.decl[t.cur] # Null
  BY DEF ImplsInv
<1>2. t.decl \in Decls
  BY RecordTypes
<1>3. t.decl[t.cur] \in Definitions
  BY <1>1, <1>2 DEF Decls
<1>4. \A d \in Keys \X Hashes \X BOOLEAN : d[1] \in Keys /\ d[2] \in Hashes
  OBVIOUS
<1>5. QED
  BY <1>1, <1>3, <1>4, RegistryAssumption

LEMMA RowFacts ==
    /\ Null # Same
    /\ \A r \in Actions : r # Null /\ r # Same
    /\ \A r \in Impls : r # Null /\ r # Same
    /\ \A a \in Agents : a # Null
BY NoRowAssumption, RegistryAssumption

\* The rows another registration has written are not written by this one.
LEMMA WrittenByNobodyElse ==
    ASSUME NEW a \in Agents, WaitsFor(a) = {}, NEW k \in Keys, <<"action", k>> \in Wants(a),
           NEW b \in Agents \ {a}, Active(b)
    PROVE  tx[b].act[k] = Same
<1>1. Wants(a) \cap Holds(b) = {}
  BY DEF WaitsFor
<1>2. tx[b].act[k] # Same => <<"action", k>> \in Holds(b)
  <2>1. tx[b].act[k] # Same => <<"action", k>> \in {<<"action", l>> : l \in {l \in Keys : tx[b].act[l] # Same}}
    OBVIOUS
  <2>2. {<<"action", l>> : l \in {l \in Keys : tx[b].act[l] # Same}} \subseteq Holds(b)
    BY DEF Holds
  <2>3. QED
    BY <2>1, <2>2
<1>3. QED
  BY <1>1, <1>2

LEMMA TwoAreMore ==
    ASSUME NEW S, IsFiniteSet(S), NEW x \in S, NEW y \in S, x # y
    PROVE  Cardinality(S) > 1
<1>1. Cardinality(S) \in Nat
  BY FS_CardinalityType
<1>2. Cardinality(S) # 0
  BY FS_EmptySet
<1>3. Cardinality(S) # 1
  <2> SUFFICES ASSUME Cardinality(S) = 1
               PROVE  FALSE
    OBVIOUS
  <2>1. PICK z : S = {z}
    BY FS_Singleton
  <2>2. QED
    BY <2>1
<1>4. QED
  BY <1>1, <1>2, <1>3
-----------------------------------------------------------------------------
(* What the steps of a registration do to its record. *)

\* What a registration under way can rely on.
LEMMA UnderWay ==
    ASSUME RegistryInv, NEW a \in Agents, tx[a].pc \in Steps
    PROVE  /\ Typed /\ Active(a) /\ tx[a] \in TxRecords /\ regs[a] \in 1 .. MaxRegs
           /\ \A k \in Keys : PortsInv(tx[a], <<a, regs[a]>>, k, ports[k], legacy)
           /\ ImplsInv(tx[a], a, impl[a])
<1>1. Active(a)
  BY DEF Active, Steps
<1>2. Typed /\ TxInv(a)
  BY DEF RegistryInv
<1>3. regs[a] \in 0 .. MaxRegs /\ regs[a] >= 1
  BY <1>1, <1>2 DEF Typed, TxInv
<1>4. QED
  BY <1>1, <1>2, <1>3, ActiveIsRecord, RegistryAssumption DEF TxInv

\* The action it declares for the interface it takes, and what it knows of it.
LEMMA WhileTaking ==
    ASSUME RegistryInv, NEW a \in Agents, tx[a].pc \in Taking
    PROVE  /\ tx[a].pc \in Steps /\ tx[a] \in TxRecords
           /\ tx[a].cur \in Interfaces /\ tx[a].decl[tx[a].cur] # Null
           /\ Key(a) = tx[a].decl[tx[a].cur][1] /\ Hash(a) = tx[a].decl[tx[a].cur][2]
           /\ Key(a) \in Keys /\ Hash(a) \in Hashes
           /\ Entry(a) = tx[a].actions[Key(a)] /\ Entry(a) \in Actions \cup {Null}
           /\ Known(a) = tx[a].impls[tx[a].cur] /\ Known(a) \in Impls \cup {Null}
<1>1. tx[a].pc \in Steps
  BY DEF Taking, Steps
<1>2. tx[a] \in TxRecords /\ ImplsInv(tx[a], a, impl[a])
  BY <1>1, UnderWay
<1>3. tx[a].cur \in Interfaces /\ tx[a].decl[tx[a].cur] # Null
  BY <1>2 DEF ImplsInv
<1>4. /\ Key(a) = tx[a].decl[tx[a].cur][1] /\ Hash(a) = tx[a].decl[tx[a].cur][2]
      /\ Entry(a) = tx[a].actions[Key(a)] /\ Known(a) = tx[a].impls[tx[a].cur]
  BY DEF Key, Hash, Declared, Entry, Known
<1>5. Key(a) \in Keys /\ Hash(a) \in Hashes
  BY <1>2, <1>4, DeclaredType
<1>6. Entry(a) \in Actions \cup {Null} /\ Known(a) \in Impls \cup {Null}
  BY <1>2, <1>3, <1>4, <1>5, RecordTypes
<1>7. QED
  BY <1>1, <1>2, <1>3, <1>4, <1>5, <1>6

\* A step of registration a leaves everything alone but its own record, of which it keeps
\* what it has been given and read at its start.
Frame == UNCHANGED <<act, ports, impl, pin, regs, legacy, protected, meddled, declared, since>>

Keeps(n, t) == n.decl = t.decl /\ n.alone = t.alone /\ n.impls = t.impls /\ n.since = t.since

Local(a) ==
    /\ Frame
    /\ tx[a] \in TxRecords /\ tx'[a] \in TxRecords /\ tx' = [tx EXCEPT ![a] = tx'[a]]
    /\ Keeps(tx'[a], tx[a])

\* The parts of the record: where it is, what it knows and does of actions, and of
\* implementations.
KeepsPlace(n, t) == n.left = t.left /\ n.cur = t.cur
KeepsPorts(n, t) ==
    n.actions = t.actions /\ n.act = t.act /\ n.dropped = t.dropped /\ n.built = t.built
KeepsImpls(n, t) ==
    /\ n.impl = t.impl /\ n.collected = t.collected /\ n.cascade = t.cascade
    /\ n.counted = t.counted

LEMMA FrameIs == UNCHANGED <<db, pin, regs, history>> <=> Frame
BY DEF Frame, db, history

LEMMA GotoIs ==
    ASSUME Typed, NEW a \in Agents, NEW rec \in TxRecords, NEW pc \in Steps, Goto(a, pc, rec)
    PROVE  /\ tx' = [tx EXCEPT ![a] = tx'[a]] /\ tx'[a] \in TxRecords /\ tx'[a].pc = pc
           /\ Keeps(tx'[a], rec) /\ KeepsPlace(tx'[a], rec) /\ KeepsPorts(tx'[a], rec)
           /\ KeepsImpls(tx'[a], rec)
<1>1. tx \in [Agents -> TxRecords \cup {Idle}]
  BY DEF Typed
<1>2. tx' = [tx EXCEPT ![a] = [rec EXCEPT !.pc = pc]]
  BY DEF Goto
<1>3. PICK n : n = [rec EXCEPT !.pc = pc]
  OBVIOUS
<1>4. tx'[a] = n /\ tx' = [tx EXCEPT ![a] = n]
  BY <1>1, <1>2, <1>3
<1>5. /\ n \in TxRecords /\ n.pc = pc /\ n.decl = rec.decl /\ n.left = rec.left
      /\ n.cur = rec.cur /\ n.alone = rec.alone /\ n.actions = rec.actions
      /\ n.impls = rec.impls /\ n.act = rec.act /\ n.impl = rec.impl
      /\ n.dropped = rec.dropped /\ n.built = rec.built /\ n.collected = rec.collected
      /\ n.cascade = rec.cascade /\ n.counted = rec.counted /\ n.since = rec.since
  BY <1>3 DEF TxRecords
<1>6. QED
  BY <1>4, <1>5 DEF Keeps, KeepsPlace, KeepsPorts, KeepsImpls

LEMMA NextDeclaredEffect ==
    ASSUME RegistryInv, NEW a \in Agents, NextDeclared(a)
    PROVE  /\ Local(a) /\ KeepsPorts(tx'[a], tx[a]) /\ KeepsImpls(tx'[a], tx[a])
           /\ tx[a].pc = "next"
           /\ \/ /\ tx[a].left = {} /\ KeepsPlace(tx'[a], tx[a]) /\ tx'[a].pc = "reap"
              \/ \E j \in tx[a].left : /\ tx'[a].left = tx[a].left \ {j} /\ tx'[a].cur = j
                                       /\ tx'[a].pc = "action"
<1>1. tx[a].pc = "next" /\ tx[a].pc \in Steps
  BY DEF NextDeclared, At, Steps
<1>2. Typed /\ tx[a] \in TxRecords /\ Frame
  BY <1>1, UnderWay, FrameIs DEF NextDeclared
<1>3. CASE tx[a].left = {} /\ Goto(a, "reap", tx[a])
  BY <1>1, <1>2, <1>3, GotoIs DEF Local, Steps
<1>4. ASSUME NEW j \in tx[a].left, Goto(a, "action", [tx[a] EXCEPT !.cur = j, !.left = @ \ {j}])
      PROVE  /\ Local(a) /\ KeepsPorts(tx'[a], tx[a]) /\ KeepsImpls(tx'[a], tx[a])
             /\ tx'[a].left = tx[a].left \ {j} /\ tx'[a].cur = j /\ tx'[a].pc = "action"
  <2>1. PICK rec : rec = [tx[a] EXCEPT !.cur = j, !.left = @ \ {j}]
    OBVIOUS
  <2>2. j \in Interfaces
    BY <1>2, RecordTypes
  <2>3. /\ rec \in TxRecords /\ rec.left = tx[a].left \ {j} /\ rec.cur = j
        /\ Keeps(rec, tx[a]) /\ KeepsPorts(rec, tx[a]) /\ KeepsImpls(rec, tx[a])
    BY <1>2, <2>1, <2>2 DEF TxRecords, Keeps, KeepsPorts, KeepsImpls
  <2>4. /\ tx' = [tx EXCEPT ![a] = tx'[a]] /\ tx'[a] \in TxRecords /\ tx'[a].pc = "action"
        /\ Keeps(tx'[a], rec) /\ KeepsPlace(tx'[a], rec) /\ KeepsPorts(tx'[a], rec)
        /\ KeepsImpls(tx'[a], rec)
    BY <1>2, <1>4, <2>1, <2>3, GotoIs DEF Steps
  <2>5. QED
    BY <1>2, <2>3, <2>4 DEF Local, Keeps, KeepsPlace, KeepsPorts, KeepsImpls
<1>5. QED
  BY <1>1, <1>3, <1>4 DEF NextDeclared

\* The action row k of the registration a is written as r.
Writes(a, k, r) ==
    /\ r \in Actions /\ <<"action", k>> \in Wants(a) /\ WaitsFor(a) = {}
    /\ tx'[a].act = [tx[a].act EXCEPT ![k] = r]
    /\ tx'[a].actions = [tx[a].actions EXCEPT ![k] = r]
    /\ tx'[a].dropped = tx[a].dropped /\ tx'[a].built = tx[a].built

LEMMA WriteEffect ==
    ASSUME RegistryInv, NEW a \in Agents, tx[a].pc \in Steps, Frame, NEW k \in Keys,
           NEW r \in Actions, NEW pc \in Steps, Goto(a, pc, Write(a, k, r)),
           <<"action", k>> \in Wants(a), WaitsFor(a) = {}
    PROVE  /\ Local(a) /\ KeepsPlace(tx'[a], tx[a]) /\ KeepsImpls(tx'[a], tx[a])
           /\ tx'[a].pc = pc /\ Writes(a, k, r)
<1>1. Typed /\ tx[a] \in TxRecords
  BY UnderWay
<1>2. PICK rec : rec = Write(a, k, r)
  OBVIOUS
<1>3. /\ rec \in TxRecords /\ rec.act = [tx[a].act EXCEPT ![k] = r]
      /\ rec.actions = [tx[a].actions EXCEPT ![k] = r]
      /\ rec.dropped = tx[a].dropped /\ rec.built = tx[a].built
      /\ Keeps(rec, tx[a]) /\ KeepsPlace(rec, tx[a]) /\ KeepsImpls(rec, tx[a])
  BY <1>1, <1>2 DEF Write, TxRecords, Keeps, KeepsPlace, KeepsImpls
<1>4. /\ tx' = [tx EXCEPT ![a] = tx'[a]] /\ tx'[a] \in TxRecords /\ tx'[a].pc = pc
      /\ Keeps(tx'[a], rec) /\ KeepsPlace(tx'[a], rec) /\ KeepsPorts(tx'[a], rec)
      /\ KeepsImpls(tx'[a], rec)
  BY <1>1, <1>2, <1>3, GotoIs
<1>5. QED
  BY <1>1, <1>3, <1>4 DEF Local, Keeps, KeepsPlace, KeepsPorts, KeepsImpls, Writes

LEMMA UpsertActionEffect ==
    ASSUME RegistryInv, NEW a \in Agents, UpsertAction(a)
    PROVE  /\ Local(a) /\ KeepsPlace(tx'[a], tx[a]) /\ KeepsImpls(tx'[a], tx[a])
           /\ tx[a].pc = "action"
           /\ \/ /\ tx'[a].pc = "ports"
                 /\ \E r \in Actions :
                       /\ Writes(a, Key(a), r) /\ r.hash = Hash(a)
                       /\ Entry(a) = Null => /\ SeesAction(a, Key(a)) = Null
                                             /\ r.pk = <<a, regs[a]>> /\ r.current = FALSE
                       /\ Entry(a) # Null => /\ EntryIsThere(a) \/ SeesAction(a, Key(a)) = Null
                                             /\ r.pk = Entry(a).pk /\ r.current = Entry(a).current
              \/ /\ KeepsPorts(tx'[a], tx[a]) /\ Entry(a) # Null /\ Entry(a).hash = Hash(a)
                 /\ Entry(a).current => EntryIsThere(a)
                 /\ tx'[a].pc = IF RelationalStateIsCurrent(a) THEN "impl" ELSE "ports"
<1>1. tx[a].pc = "action" /\ tx[a].pc \in Steps /\ tx[a].pc \in Taking /\ WaitsFor(a) = {}
  BY DEF UpsertAction, At, Steps, Taking
<1>2. Typed /\ tx[a] \in TxRecords /\ regs[a] \in 1 .. MaxRegs /\ Frame
  BY <1>1, UnderWay, FrameIs DEF UpsertAction
<1>3. Key(a) \in Keys /\ Hash(a) \in Hashes /\ Entry(a) \in Actions \cup {Null}
  BY <1>1, WhileTaking
<1>4. "ports" \in Steps /\ "impl" \in Steps
  BY DEF Steps
<1>5. ASSUME Entry(a) = Null, SeesAction(a, Key(a)) = Null,
             Goto(a, "ports", Write(a, Key(a), [pk |-> ThisRegistration(a), hash |-> Hash(a),
                                                current |-> FALSE])),
             Coherent(a)
      PROVE  /\ Local(a) /\ KeepsPlace(tx'[a], tx[a]) /\ KeepsImpls(tx'[a], tx[a])
             /\ tx'[a].pc = "ports"
             /\ \E r \in Actions : /\ Writes(a, Key(a), r) /\ r.hash = Hash(a)
                                   /\ r.pk = <<a, regs[a]>> /\ r.current = FALSE
  <2>1. PICK r : r = [pk |-> ThisRegistration(a), hash |-> Hash(a), current |-> FALSE]
    OBVIOUS
  <2>2. ThisRegistration(a) \in Pks /\ ThisRegistration(a) = <<a, regs[a]>>
    BY <1>2 DEF ThisRegistration, Pks
  <2>3. r \in Actions /\ r.hash = Hash(a) /\ r.pk = <<a, regs[a]>> /\ r.current = FALSE
    BY <1>3, <2>1, <2>2 DEF Actions
  <2>4. <<"action", Key(a)>> \in Wants(a)
    BY <1>1, <1>5 DEF Wants
  <2>5. /\ Local(a) /\ KeepsPlace(tx'[a], tx[a]) /\ KeepsImpls(tx'[a], tx[a])
        /\ tx'[a].pc = "ports" /\ Writes(a, Key(a), r)
    BY <1>1, <1>2, <1>3, <1>4, <1>5, <2>1, <2>3, <2>4, WriteEffect
  <2>6. QED
    BY <2>3, <2>5
<1>6. ASSUME Entry(a) # Null, Entry(a).hash # Hash(a),
             Goto(a, "ports", Write(a, Key(a), [Entry(a) EXCEPT !.hash = Hash(a)])),
             Coherent(a)
      PROVE  /\ Local(a) /\ KeepsPlace(tx'[a], tx[a]) /\ KeepsImpls(tx'[a], tx[a])
             /\ tx'[a].pc = "ports"
             /\ \E r \in Actions : /\ Writes(a, Key(a), r) /\ r.hash = Hash(a)
                                   /\ r.pk = Entry(a).pk /\ r.current = Entry(a).current
  <2>1. PICK r : r = [Entry(a) EXCEPT !.hash = Hash(a)]
    OBVIOUS
  <2>2. Entry(a) \in Actions
    BY <1>3, <1>6
  <2>3. r \in Actions /\ r.hash = Hash(a) /\ r.pk = Entry(a).pk /\ r.current = Entry(a).current
    BY <1>3, <2>1, <2>2 DEF Actions
  <2>4. <<"action", Key(a)>> \in Wants(a)
    BY <1>1, <1>6 DEF Wants
  <2>5. /\ Local(a) /\ KeepsPlace(tx'[a], tx[a]) /\ KeepsImpls(tx'[a], tx[a])
        /\ tx'[a].pc = "ports" /\ Writes(a, Key(a), r)
    BY <1>1, <1>2, <1>3, <1>4, <1>6, <2>1, <2>3, <2>4, WriteEffect
  <2>6. QED
    BY <2>3, <2>5
<1>7. ASSUME Goto(a, IF RelationalStateIsCurrent(a) THEN "impl" ELSE "ports", tx[a])
      PROVE  /\ Local(a) /\ KeepsPlace(tx'[a], tx[a]) /\ KeepsImpls(tx'[a], tx[a])
             /\ KeepsPorts(tx'[a], tx[a])
             /\ tx'[a].pc = IF RelationalStateIsCurrent(a) THEN "impl" ELSE "ports"
  BY <1>2, <1>4, <1>7, GotoIs DEF Local
<1>8. QED
  BY <1>1, <1>5, <1>6, <1>7 DEF UpsertAction

LEMMA RebuildRelationalPortsEffect ==
    ASSUME RegistryInv, NEW a \in Agents, RebuildRelationalPorts(a),
           Hash(a) \notin Malformed
    PROVE  /\ Local(a) /\ KeepsPlace(tx'[a], tx[a]) /\ KeepsImpls(tx'[a], tx[a])
           /\ tx[a].pc = "ports" /\ tx'[a].pc = "counts"
           /\ tx'[a].act = tx[a].act /\ tx'[a].actions = tx[a].actions
           /\ tx'[a].dropped = [tx[a].dropped EXCEPT ![Key(a)] = tx[a].dropped[Key(a)] \cup ports[Key(a)]]
           /\ tx'[a].built = [tx[a].built EXCEPT ![Key(a)] = {Copy(<<a, regs[a]>>, Hash(a))}]
<1>1. tx[a].pc = "ports" /\ tx[a].pc \in Steps /\ tx[a].pc \in Taking
  BY DEF RebuildRelationalPorts, At, Steps, Taking
<1>2. Typed /\ tx[a] \in TxRecords /\ regs[a] \in 1 .. MaxRegs /\ Frame
  BY <1>1, UnderWay, FrameIs DEF RebuildRelationalPorts
<1>3. Key(a) \in Keys /\ Hash(a) \in Hashes
  BY <1>1, WhileTaking
<1>4. PICK dropped, built :
         /\ dropped = [tx[a].dropped EXCEPT ![Key(a)] = tx[a].dropped[Key(a)] \cup ports[Key(a)]]
         /\ built = [tx[a].built EXCEPT ![Key(a)] = {Copy(<<a, regs[a]>>, Hash(a))}]
  OBVIOUS
<1>5. dropped \in [Keys -> SUBSET Copies] /\ built \in [Keys -> SUBSET Copies]
  <2>1. tx[a].dropped \in [Keys -> SUBSET Copies] /\ tx[a].built \in [Keys -> SUBSET Copies]
        /\ ports \in [Keys -> SUBSET Copies]
    BY <1>2, RecordTypes DEF Typed
  <2>2. Copy(<<a, regs[a]>>, Hash(a)) \in Copies
    <3>1. <<a, regs[a]>> \in Pks
      BY <1>2 DEF Pks
    <3>2. QED
      BY <1>3, <3>1 DEF Copy, Copies
  <2>3. dropped \in [Keys -> SUBSET Copies]
    BY <1>3, <1>4, <2>1
  <2>4. built \in [Keys -> SUBSET Copies]
    BY <1>3, <1>4, <2>1, <2>2
  <2>5. QED
    BY <2>3, <2>4
<1>6. PICK rec : rec = [tx[a] EXCEPT !.dropped = dropped, !.built = built]
  OBVIOUS
<1>7. /\ rec \in TxRecords /\ rec.act = tx[a].act /\ rec.actions = tx[a].actions
      /\ rec.dropped = dropped /\ rec.built = built
      /\ Keeps(rec, tx[a]) /\ KeepsPlace(rec, tx[a]) /\ KeepsImpls(rec, tx[a])
  BY <1>2, <1>5, <1>6 DEF TxRecords, Keeps, KeepsPlace, KeepsImpls
<1>8. rec = [tx[a] EXCEPT !.dropped[Key(a)] = @ \cup ports[Key(a)],
                          !.built[Key(a)] = {[by |-> ThisRegistration(a), hash |-> Hash(a)]}]
  BY <1>2, <1>4, <1>6 DEF TxRecords, Copy, ThisRegistration
<1>9. Goto(a, "counts", rec)
  BY <1>8 DEF RebuildRelationalPorts
<1>10. /\ tx' = [tx EXCEPT ![a] = tx'[a]] /\ tx'[a] \in TxRecords /\ tx'[a].pc = "counts"
       /\ Keeps(tx'[a], rec) /\ KeepsPlace(tx'[a], rec) /\ KeepsPorts(tx'[a], rec)
       /\ KeepsImpls(tx'[a], rec)
  BY <1>2, <1>7, <1>9, GotoIs DEF Steps
<1>11. QED
  BY <1>1, <1>2, <1>4, <1>7, <1>10 DEF Local, Keeps, KeepsPlace, KeepsPorts, KeepsImpls

LEMMA SaveCountsEffect ==
    ASSUME RegistryInv, NEW a \in Agents, SaveCounts(a), Entry(a) # Null
    PROVE  \/ Abort(a) /\ tx[a].pc = "counts" /\ ~EntryIsThere(a)
           \/ /\ Local(a) /\ KeepsPlace(tx'[a], tx[a]) /\ KeepsImpls(tx'[a], tx[a])
              /\ tx[a].pc = "counts" /\ tx'[a].pc = "impl" /\ EntryIsThere(a)
              /\ \E r \in Actions : /\ Writes(a, Key(a), r) /\ r.current = TRUE
                                    /\ r.hash = Entry(a).hash /\ r.pk = Entry(a).pk
<1>1. tx[a].pc = "counts" /\ tx[a].pc \in Steps /\ tx[a].pc \in Taking /\ WaitsFor(a) = {}
  BY DEF SaveCounts, At, Steps, Taking
<1>2. Key(a) \in Keys /\ Entry(a) \in Actions
  BY <1>1, WhileTaking
<1>3. CASE ~EntryIsThere(a)
  BY <1>1, <1>3 DEF SaveCounts
<1>4. CASE EntryIsThere(a)
  <2>1. Goto(a, "impl", Write(a, Key(a), [Entry(a) EXCEPT !.current = TRUE])) /\ Frame
    BY <1>4, FrameIs DEF SaveCounts
  <2>2. PICK r : r = [Entry(a) EXCEPT !.current = TRUE]
    OBVIOUS
  <2>3. r \in Actions /\ r.hash = Entry(a).hash /\ r.pk = Entry(a).pk /\ r.current = TRUE
    BY <1>2, <2>2 DEF Actions
  <2>4. <<"action", Key(a)>> \in Wants(a)
    BY <1>1 DEF Wants
  <2>5. "impl" \in Steps
    BY DEF Steps
  <2>6. /\ Local(a) /\ KeepsPlace(tx'[a], tx[a]) /\ KeepsImpls(tx'[a], tx[a])
        /\ tx'[a].pc = "impl" /\ Writes(a, Key(a), r)
    BY <1>1, <1>2, <2>1, <2>2, <2>3, <2>4, <2>5, WriteEffect
  <2>7. QED
    BY <1>1, <1>4, <2>3, <2>6
<1>5. QED
  BY <1>3, <1>4

LEMMA CountUsersEffect ==
    ASSUME RegistryInv, NEW a \in Agents, CountUsers(a)
    PROVE  /\ Local(a) /\ KeepsPlace(tx'[a], tx[a]) /\ KeepsPorts(tx'[a], tx[a])
           /\ tx[a].pc = "impl" /\ tx'[a].impl = tx[a].impl
           /\ tx'[a].collected = tx[a].collected /\ tx'[a].cascade = tx[a].cascade
           /\ \/ tx'[a].pc = "save" /\ tx'[a].counted = tx[a].counted
              \/ /\ tx'[a].pc = "collect" /\ tx'[a].counted = Users(a, Known(a))
                 /\ Known(a) # Null /\ ~Uses(Known(a), Key(a), Entry(a).pk)
                 /\ Cardinality(Users(a, Known(a))) = 1
<1>1. tx[a].pc = "impl" /\ tx[a].pc \in Steps
  BY DEF CountUsers, At, Steps
<1>2. Typed /\ tx[a] \in TxRecords /\ Frame
  BY <1>1, UnderWay, FrameIs DEF CountUsers
<1>3. CASE Goto(a, "save", tx[a])
  BY <1>1, <1>2, <1>3, GotoIs DEF Local, KeepsImpls, Steps
<1>4. ASSUME Known(a) # Null, ~Uses(Known(a), Key(a), Entry(a).pk),
             Cardinality(Users(a, Known(a))) = 1,
             Goto(a, "collect", [tx[a] EXCEPT !.counted = Users(a, Known(a))])
      PROVE  /\ Local(a) /\ KeepsPlace(tx'[a], tx[a]) /\ KeepsPorts(tx'[a], tx[a])
             /\ tx'[a].impl = tx[a].impl
             /\ tx'[a].collected = tx[a].collected /\ tx'[a].cascade = tx[a].cascade
             /\ tx'[a].pc = "collect" /\ tx'[a].counted = Users(a, Known(a))
  <2>1. PICK rec : rec = [tx[a] EXCEPT !.counted = Users(a, Known(a))]
    OBVIOUS
  <2>2. Users(a, Known(a)) \subseteq Pairs
    BY DEF Users
  <2>3. /\ rec \in TxRecords /\ Keeps(rec, tx[a]) /\ KeepsPlace(rec, tx[a]) /\ KeepsPorts(rec, tx[a])
        /\ rec.impl = tx[a].impl /\ rec.collected = tx[a].collected
        /\ rec.cascade = tx[a].cascade /\ rec.counted = Users(a, Known(a))
    BY <1>2, <2>1, <2>2 DEF TxRecords, Keeps, KeepsPlace, KeepsPorts
  <2>4. /\ tx' = [tx EXCEPT ![a] = tx'[a]] /\ tx'[a] \in TxRecords /\ tx'[a].pc = "collect"
        /\ Keeps(tx'[a], rec) /\ KeepsPlace(tx'[a], rec) /\ KeepsPorts(tx'[a], rec)
        /\ KeepsImpls(tx'[a], rec)
    BY <1>2, <1>4, <2>1, <2>3, GotoIs DEF Steps
  <2>5. QED
    BY <1>2, <2>3, <2>4 DEF Local, Keeps, KeepsPlace, KeepsPorts, KeepsImpls
<1>5. QED
  BY <1>1, <1>3, <1>4 DEF CountUsers

LEMMA SeesRowType ==
    ASSUME Typed, NEW a \in Agents, tx[a] \in TxRecords, NEW p \in Pairs
    PROVE  SeesRow(a, p) \in Impls \cup {Null}
<1>1. PICK b \in Agents, j \in Interfaces : p = <<b, j>>
  BY DEF Pairs
<1>2. p[1] = b /\ p[2] = j
  BY <1>1
<1>3. impl[a][j] \in Impls \cup {Null} /\ impl[b][j] \in Impls \cup {Null}
  BY DEF Typed
<1>4. tx[a].impl[j] \in Impls \cup {Null, Same}
  BY RecordTypes
<1>5. QED
  BY <1>2, <1>3, <1>4 DEF SeesRow, SeesImpl

LEMMA CollectUsersEffect ==
    ASSUME RegistryInv, NEW a \in Agents, CollectUsers(a)
    PROVE  \/ Abort(a) /\ tx[a].pc = "collect" /\ Users(a, Known(a)) \cap protected # {}
           \/ /\ Local(a) /\ KeepsPlace(tx'[a], tx[a]) /\ KeepsPorts(tx'[a], tx[a])
              /\ tx[a].pc = "collect" /\ tx'[a].impl = tx[a].impl /\ tx'[a].pc = "drop"
              /\ tx'[a].cascade = tx[a].cascade /\ tx'[a].counted = tx[a].counted
              /\ tx'[a].collected = {<<p, SeesRow(a, p).pk>> : p \in Users(a, Known(a))}
<1>1. tx[a].pc = "collect" /\ tx[a].pc \in Steps
  BY DEF CollectUsers, At, Steps
<1>2. Typed /\ tx[a] \in TxRecords
  BY <1>1, UnderWay
<1>3. CASE Abort(a) /\ Users(a, Known(a)) \cap protected # {}
  BY <1>1, <1>3
<1>4. PICK rows : rows = {<<p, SeesRow(a, p).pk>> : p \in Users(a, Known(a))}
  OBVIOUS
<1>5. rows \subseteq Pairs \X (0 .. MaxRegs)
  <2> SUFFICES ASSUME NEW p \in Users(a, Known(a))
               PROVE  p \in Pairs /\ SeesRow(a, p).pk \in 0 .. MaxRegs
    BY <1>4
  <2>1. p \in Pairs /\ SeesRow(a, p) # Null
    BY DEF Users, Uses
  <2>2. SeesRow(a, p) \in Impls
    BY <1>2, <2>1, SeesRowType
  <2>3. QED
    BY <2>1, <2>2 DEF Impls
<1>6. ASSUME Goto(a, "drop", [tx[a] EXCEPT
                    !.collected = {<<p, SeesRow(a, p).pk>> : p \in Users(a, Known(a))}]), Frame
      PROVE  /\ Local(a) /\ KeepsPlace(tx'[a], tx[a]) /\ KeepsPorts(tx'[a], tx[a])
             /\ tx'[a].impl = tx[a].impl /\ tx'[a].pc = "drop"
             /\ tx'[a].cascade = tx[a].cascade /\ tx'[a].counted = tx[a].counted
             /\ tx'[a].collected = rows
  <2>1. PICK rec : rec = [tx[a] EXCEPT !.collected = rows]
    OBVIOUS
  <2>2. /\ rec \in TxRecords /\ Keeps(rec, tx[a]) /\ KeepsPlace(rec, tx[a]) /\ KeepsPorts(rec, tx[a])
        /\ rec.impl = tx[a].impl /\ rec.collected = rows
        /\ rec.cascade = tx[a].cascade /\ rec.counted = tx[a].counted
    BY <1>2, <1>5, <2>1 DEF TxRecords, Keeps, KeepsPlace, KeepsPorts
  <2>3. Goto(a, "drop", rec)
    BY <1>4, <1>6, <2>1
  <2>4. /\ tx' = [tx EXCEPT ![a] = tx'[a]] /\ tx'[a] \in TxRecords /\ tx'[a].pc = "drop"
        /\ Keeps(tx'[a], rec) /\ KeepsPlace(tx'[a], rec) /\ KeepsPorts(tx'[a], rec)
        /\ KeepsImpls(tx'[a], rec)
    BY <1>2, <2>2, <2>3, GotoIs DEF Steps
  <2>5. QED
    BY <1>2, <1>6, <2>2, <2>4 DEF Local, Keeps, KeepsPlace, KeepsPorts, KeepsImpls
<1>7. QED
  BY <1>1, <1>3, <1>4, <1>6, FrameIs DEF CollectUsers

\* The action of the implementation it moves away from, and whether its row is there.
OldKey(a) == Known(a).key
OldActionIsThere(a) == SeesAction(a, OldKey(a)) # Null /\ SeesAction(a, OldKey(a)).pk = Known(a).action

LEMMA DropActionEffect ==
    ASSUME RegistryInv, NEW a \in Agents, DropAction(a)
    PROVE  /\ Local(a) /\ KeepsPlace(tx'[a], tx[a])
           /\ tx[a].pc = "drop" /\ tx'[a].pc = "save"
           /\ Known(a) \in Impls /\ OldKey(a) \in Keys
           /\ <<"action", OldKey(a)>> \in Wants(a) /\ WaitsFor(a) = {}
           /\ tx'[a].actions = tx[a].actions /\ tx'[a].counted = tx[a].counted
           /\ tx'[a].collected = {}
           /\ tx'[a].cascade = tx[a].cascade \cup {p \in Doomed(a) : p[1] # a}
           /\ tx'[a].impl = [i \in Interfaces |-> IF <<a, i>> \in Doomed(a) THEN Null
                                                  ELSE tx[a].impl[i]]
           /\ ~OldActionIsThere(a) => /\ tx'[a].act = tx[a].act /\ tx'[a].built = tx[a].built
                                      /\ tx'[a].dropped = tx[a].dropped
           /\ OldActionIsThere(a) =>
                 /\ tx'[a].act = [tx[a].act EXCEPT ![OldKey(a)] = Null]
                 /\ tx'[a].built = [tx[a].built EXCEPT ![OldKey(a)] = {}]
                 /\ tx'[a].dropped = [tx[a].dropped EXCEPT ![OldKey(a)] = tx[a].dropped[OldKey(a)] \cup ports[OldKey(a)]]
<1>1. tx[a].pc = "drop" /\ tx[a].pc \in Steps /\ tx[a].pc \in Taking /\ WaitsFor(a) = {}
  BY DEF DropAction, At, Steps, Taking
<1>2. Typed /\ tx[a] \in TxRecords /\ ImplsInv(tx[a], a, impl[a]) /\ Frame
  BY <1>1, UnderWay, FrameIs DEF DropAction
<1>3. Known(a) \in Impls /\ OldKey(a) \in Keys
  <2>1. Known(a) # Null /\ Known(a) \in Impls \cup {Null}
    BY <1>1, <1>2, WhileTaking DEF ImplsInv
  <2>2. QED
    BY <2>1 DEF OldKey, Impls
<1>4. <<"action", OldKey(a)>> \in Wants(a)
  BY <1>1 DEF Wants, OldKey
<1>5. PICK k, there, newAct, newDropped, newBuilt, newImpl, newCascade :
         /\ k = OldKey(a) /\ there = OldActionIsThere(a)
         /\ newAct = [tx[a].act EXCEPT ![k] = IF there THEN Null ELSE @]
         /\ newDropped = [tx[a].dropped EXCEPT ![k] = IF there THEN @ \cup ports[k] ELSE @]
         /\ newBuilt = [tx[a].built EXCEPT ![k] = IF there THEN {} ELSE @]
         /\ newImpl = [i \in Interfaces |-> IF <<a, i>> \in Doomed(a) THEN Null ELSE tx[a].impl[i]]
         /\ newCascade = tx[a].cascade \cup {p \in Doomed(a) : p[1] # a}
  OBVIOUS
<1>6. /\ tx[a].act \in [Keys -> Actions \cup {Null, Same}]
      /\ tx[a].impl \in [Interfaces -> Impls \cup {Null, Same}]
      /\ tx[a].dropped \in [Keys -> SUBSET Copies] /\ tx[a].built \in [Keys -> SUBSET Copies]
      /\ tx[a].cascade \subseteq Pairs /\ ports \in [Keys -> SUBSET Copies]
  BY <1>2, RecordTypes DEF Typed
<1>7. newAct \in [Keys -> Actions \cup {Null, Same}]
  BY <1>3, <1>5, <1>6
<1>8. newDropped \in [Keys -> SUBSET Copies]
  BY <1>3, <1>5, <1>6
<1>9. newBuilt \in [Keys -> SUBSET Copies]
  BY <1>3, <1>5, <1>6
<1>10. newImpl \in [Interfaces -> Impls \cup {Null, Same}]
  BY <1>5, <1>6
<1>11. newCascade \subseteq Pairs
  BY <1>5, <1>6 DEF Doomed
<1>12. PICK rec : rec = [tx[a] EXCEPT !.act = newAct, !.dropped = newDropped, !.built = newBuilt,
                                      !.impl = newImpl, !.cascade = newCascade, !.collected = {}]
  OBVIOUS
<1>13. /\ rec \in TxRecords /\ Keeps(rec, tx[a]) /\ KeepsPlace(rec, tx[a])
       /\ rec.act = newAct /\ rec.dropped = newDropped /\ rec.built = newBuilt
       /\ rec.impl = newImpl /\ rec.cascade = newCascade /\ rec.collected = {}
       /\ rec.actions = tx[a].actions /\ rec.counted = tx[a].counted
  BY <1>2, <1>7, <1>8, <1>9, <1>10, <1>11, <1>12 DEF TxRecords, Keeps, KeepsPlace
<1>14. Goto(a, "save", rec)
  <2>1. Goto(a, "save", [tx[a] EXCEPT
              !.act[k] = IF there THEN Null ELSE @,
              !.dropped[k] = IF there THEN @ \cup ports[k] ELSE @,
              !.built[k] = IF there THEN {} ELSE @,
              !.impl = [i \in Interfaces |-> IF <<a, i>> \in Doomed(a) THEN Null ELSE @[i]],
              !.cascade = @ \cup {p \in Doomed(a) : p[1] # a},
              !.collected = {}])
    BY <1>5 DEF DropAction, OldKey, OldActionIsThere
  <2>2. rec = [tx[a] EXCEPT
              !.act[k] = IF there THEN Null ELSE @,
              !.dropped[k] = IF there THEN @ \cup ports[k] ELSE @,
              !.built[k] = IF there THEN {} ELSE @,
              !.impl = [i \in Interfaces |-> IF <<a, i>> \in Doomed(a) THEN Null ELSE @[i]],
              !.cascade = @ \cup {p \in Doomed(a) : p[1] # a},
              !.collected = {}]
    BY <1>2, <1>5, <1>12 DEF TxRecords
  <2>3. QED
    BY <2>1, <2>2
<1>15. /\ tx' = [tx EXCEPT ![a] = tx'[a]] /\ tx'[a] \in TxRecords /\ tx'[a].pc = "save"
       /\ Keeps(tx'[a], rec) /\ KeepsPlace(tx'[a], rec) /\ KeepsPorts(tx'[a], rec)
       /\ KeepsImpls(tx'[a], rec)
  BY <1>2, <1>13, <1>14, GotoIs DEF Steps
<1>16. ~there => newAct = tx[a].act /\ newBuilt = tx[a].built /\ newDropped = tx[a].dropped
  BY <1>5, <1>6
<1>17. there => /\ newAct = [tx[a].act EXCEPT ![k] = Null]
                /\ newBuilt = [tx[a].built EXCEPT ![k] = {}]
                /\ newDropped = [tx[a].dropped EXCEPT ![k] = tx[a].dropped[k] \cup ports[k]]
  BY <1>5, <1>6
<1>18. Local(a) /\ KeepsPlace(tx'[a], tx[a])
  BY <1>2, <1>13, <1>15 DEF Local, Keeps, KeepsPlace
<1>19. /\ tx'[a].act = newAct /\ tx'[a].dropped = newDropped /\ tx'[a].built = newBuilt
       /\ tx'[a].impl = newImpl /\ tx'[a].cascade = newCascade /\ tx'[a].collected = {}
       /\ tx'[a].actions = tx[a].actions /\ tx'[a].counted = tx[a].counted
  BY <1>13, <1>15 DEF KeepsPorts, KeepsImpls
<1>20. QED
  BY <1>1, <1>3, <1>4, <1>5, <1>15, <1>16, <1>17, <1>18, <1>19

\* Another interface has the row that is to be written, or the row in its place is another.
Clashes(a, pk) ==
    \/ \E i \in Interfaces \ {tx[a].cur} : Uses(SeesImpl(a, i), Key(a), Entry(a).pk)
    \/ SeesImpl(a, tx[a].cur) # Null /\ SeesImpl(a, tx[a].cur).pk # pk

LEMMA SaveImplementationEffect ==
    ASSUME RegistryInv, NEW a \in Agents, SaveImplementation(a)
    PROVE  \/ /\ Abort(a) /\ tx[a].pc = "save"
              /\ Clashes(a, IF Known(a) = Null THEN regs[a] ELSE Known(a).pk)
           \/ /\ Local(a) /\ KeepsPlace(tx'[a], tx[a]) /\ KeepsPorts(tx'[a], tx[a])
              /\ tx[a].pc = "save" /\ tx'[a].pc = "next"
              /\ Entry(a) \in Actions
              /\ tx'[a].collected = tx[a].collected /\ tx'[a].cascade = tx[a].cascade
              /\ tx'[a].counted = tx[a].counted
              /\ \E r \in Impls : /\ tx'[a].impl = [tx[a].impl EXCEPT ![tx[a].cur] = r]
                                  /\ r.key = Key(a) /\ r.action = Entry(a).pk
                                  /\ r.pk = IF Known(a) = Null THEN regs[a] ELSE Known(a).pk
                                  /\ ~Clashes(a, r.pk)
<1>1. tx[a].pc = "save" /\ tx[a].pc \in Steps /\ tx[a].pc \in Taking /\ tx[a].pc \in Taking \ {"action"}
  BY DEF SaveImplementation, At, Steps, Taking
<1>2. Typed /\ tx[a] \in TxRecords /\ ImplsInv(tx[a], a, impl[a]) /\ regs[a] \in 1 .. MaxRegs
  BY <1>1, UnderWay
<1>3. /\ tx[a].cur \in Interfaces /\ Key(a) \in Keys /\ Key(a) = tx[a].decl[tx[a].cur][1]
      /\ Entry(a) = tx[a].actions[Key(a)] /\ Entry(a) \in Actions \cup {Null}
      /\ Known(a) \in Impls \cup {Null}
  BY <1>1, WhileTaking
<1>4. Entry(a) \in Actions
  BY <1>1, <1>2, <1>3 DEF ImplsInv
<1>5. PICK pk : pk = IF Known(a) = Null THEN regs[a] ELSE Known(a).pk
  OBVIOUS
<1>6. PICK r : r = [pk |-> pk, key |-> Key(a), action |-> Entry(a).pk]
  OBVIOUS
<1>7. r \in Impls /\ r.key = Key(a) /\ r.action = Entry(a).pk /\ r.pk = pk
  <2>1. pk \in 0 .. MaxRegs
    BY <1>2, <1>3, <1>5, RegistryAssumption DEF Impls
  <2>2. Entry(a).pk \in Pks
    BY <1>4 DEF Actions
  <2>3. QED
    BY <1>3, <1>6, <2>1, <2>2 DEF Impls
<1>8. ASSUME Abort(a), Clashes(a, pk)
      PROVE  /\ Abort(a) /\ tx[a].pc = "save"
             /\ Clashes(a, IF Known(a) = Null THEN regs[a] ELSE Known(a).pk)
  BY <1>1, <1>5, <1>8
<1>9. ASSUME Frame, ~Clashes(a, pk), Goto(a, "next", [tx[a] EXCEPT !.impl[tx[a].cur] = r])
      PROVE  /\ Local(a) /\ KeepsPlace(tx'[a], tx[a]) /\ KeepsPorts(tx'[a], tx[a])
             /\ tx'[a].pc = "next"
             /\ tx'[a].collected = tx[a].collected /\ tx'[a].cascade = tx[a].cascade
             /\ tx'[a].counted = tx[a].counted
             /\ tx'[a].impl = [tx[a].impl EXCEPT ![tx[a].cur] = r]
  <2>1. PICK newImpl : newImpl = [tx[a].impl EXCEPT ![tx[a].cur] = r]
    OBVIOUS
  <2>2. newImpl \in [Interfaces -> Impls \cup {Null, Same}]
    <3>1. tx[a].impl \in [Interfaces -> Impls \cup {Null, Same}]
      BY <1>2, RecordTypes
    <3>2. QED
      BY <1>7, <2>1, <3>1
  <2>3. PICK rec : rec = [tx[a] EXCEPT !.impl = newImpl]
    OBVIOUS
  <2>4. rec = [tx[a] EXCEPT !.impl[tx[a].cur] = r]
    BY <1>2, <2>1, <2>3 DEF TxRecords
  <2>5. /\ rec \in TxRecords /\ Keeps(rec, tx[a]) /\ KeepsPlace(rec, tx[a]) /\ KeepsPorts(rec, tx[a])
        /\ rec.impl = newImpl /\ rec.collected = tx[a].collected
        /\ rec.cascade = tx[a].cascade /\ rec.counted = tx[a].counted
    BY <1>2, <2>2, <2>3 DEF TxRecords, Keeps, KeepsPlace, KeepsPorts
  <2>6. Goto(a, "next", rec)
    BY <1>9, <2>4
  <2>7. /\ tx' = [tx EXCEPT ![a] = tx'[a]] /\ tx'[a] \in TxRecords /\ tx'[a].pc = "next"
        /\ Keeps(tx'[a], rec) /\ KeepsPlace(tx'[a], rec) /\ KeepsPorts(tx'[a], rec)
        /\ KeepsImpls(tx'[a], rec)
    BY <1>2, <2>5, <2>6, GotoIs DEF Steps
  <2>8. QED
    BY <1>2, <1>9, <2>1, <2>5, <2>7 DEF Local, Keeps, KeepsPlace, KeepsPorts, KeepsImpls
<1>10. \/ Abort(a) /\ Clashes(a, pk)
       \/ Frame /\ ~Clashes(a, pk) /\ Goto(a, "next", [tx[a] EXCEPT !.impl[tx[a].cur] = r])
  BY <1>5, <1>6, FrameIs DEF SaveImplementation, Clashes
<1>11. CASE Abort(a) /\ Clashes(a, pk)
  BY <1>8, <1>11
<1>12. CASE Frame /\ ~Clashes(a, pk) /\ Goto(a, "next", [tx[a] EXCEPT !.impl[tx[a].cur] = r])
  <2>1. /\ Local(a) /\ KeepsPlace(tx'[a], tx[a]) /\ KeepsPorts(tx'[a], tx[a])
        /\ tx'[a].pc = "next"
        /\ tx'[a].collected = tx[a].collected /\ tx'[a].cascade = tx[a].cascade
        /\ tx'[a].counted = tx[a].counted
        /\ tx'[a].impl = [tx[a].impl EXCEPT ![tx[a].cur] = r]
    BY <1>9, <1>12
  <2>2. /\ r.key = Key(a) /\ r.action = Entry(a).pk
        /\ r.pk = IF Known(a) = Null THEN regs[a] ELSE Known(a).pk
        /\ ~Clashes(a, r.pk)
    BY <1>5, <1>7, <1>12
  <2>3. QED
    BY <1>1, <1>4, <1>7, <2>1, <2>2
<1>13. QED
  BY <1>10, <1>11, <1>12

\* The implementations it sees and does not declare.
Stale(a) == {j \in Interfaces : tx[a].decl[j] = Null /\ SeesImpl(a, j) # Null}

LEMMA ReapEffect ==
    ASSUME RegistryInv, NEW a \in Agents, Reap(a)
    PROVE  \/ Abort(a) /\ tx[a].pc = "reap" /\ \E j \in Stale(a) : <<a, j>> \in protected
           \/ /\ Local(a) /\ KeepsPlace(tx'[a], tx[a]) /\ KeepsPorts(tx'[a], tx[a])
              /\ tx[a].pc = "reap" /\ tx'[a].pc = "commit"
              /\ tx'[a].impl = [j \in Interfaces |-> IF j \in Stale(a) THEN Null
                                                     ELSE tx[a].impl[j]]
              /\ tx'[a].collected = tx[a].collected /\ tx'[a].cascade = tx[a].cascade
              /\ tx'[a].counted = tx[a].counted
<1>1. tx[a].pc = "reap" /\ tx[a].pc \in Steps
  BY DEF Reap, At, Steps
<1>2. Typed /\ tx[a] \in TxRecords
  BY <1>1, UnderWay
<1>3. PICK newImpl : newImpl = [j \in Interfaces |-> IF j \in Stale(a) THEN Null ELSE tx[a].impl[j]]
  OBVIOUS
<1>4. newImpl \in [Interfaces -> Impls \cup {Null, Same}]
  BY <1>2, <1>3, RecordTypes
<1>5. ASSUME Frame, Goto(a, "commit", [tx[a] EXCEPT
                !.impl = [j \in Interfaces |-> IF j \in Stale(a) THEN Null ELSE @[j]]])
      PROVE  /\ Local(a) /\ KeepsPlace(tx'[a], tx[a]) /\ KeepsPorts(tx'[a], tx[a])
             /\ tx'[a].pc = "commit" /\ tx'[a].impl = newImpl
             /\ tx'[a].collected = tx[a].collected /\ tx'[a].cascade = tx[a].cascade
             /\ tx'[a].counted = tx[a].counted
  <2>1. PICK rec : rec = [tx[a] EXCEPT !.impl = newImpl]
    OBVIOUS
  <2>2. rec = [tx[a] EXCEPT !.impl = [j \in Interfaces |-> IF j \in Stale(a) THEN Null ELSE @[j]]]
    BY <1>2, <1>3, <2>1 DEF TxRecords
  <2>3. /\ rec \in TxRecords /\ Keeps(rec, tx[a]) /\ KeepsPlace(rec, tx[a]) /\ KeepsPorts(rec, tx[a])
        /\ rec.impl = newImpl /\ rec.collected = tx[a].collected
        /\ rec.cascade = tx[a].cascade /\ rec.counted = tx[a].counted
    BY <1>2, <1>4, <2>1 DEF TxRecords, Keeps, KeepsPlace, KeepsPorts
  <2>4. Goto(a, "commit", rec)
    BY <1>5, <2>2
  <2>5. /\ tx' = [tx EXCEPT ![a] = tx'[a]] /\ tx'[a] \in TxRecords /\ tx'[a].pc = "commit"
        /\ Keeps(tx'[a], rec) /\ KeepsPlace(tx'[a], rec) /\ KeepsPorts(tx'[a], rec)
        /\ KeepsImpls(tx'[a], rec)
    BY <1>2, <2>3, <2>4, GotoIs DEF Steps
  <2>6. QED
    BY <1>2, <1>5, <2>3, <2>5 DEF Local, Keeps, KeepsPlace, KeepsPorts, KeepsImpls
<1>6. \/ Abort(a) /\ \E j \in Stale(a) : <<a, j>> \in protected
      \/ Frame /\ Goto(a, "commit", [tx[a] EXCEPT
                !.impl = [j \in Interfaces |-> IF j \in Stale(a) THEN Null ELSE @[j]]])
  BY FrameIs DEF Reap, Stale
<1>7. QED
  BY <1>1, <1>3, <1>5, <1>6
-----------------------------------------------------------------------------
(* Steps of one registration. *)

\* A step of one registration keeps the invariant if its record stays as it should be and
\* it writes no action that another has written.
LEMMA LocalStep ==
    ASSUME RegistryInv, NEW a \in Agents, Local(a),
           \A k \in Keys : PortsInv(tx'[a], <<a, regs[a]>>, k, ports[k], legacy),
           ImplsInv(tx'[a], a, impl[a]),
           \A k \in Keys : \/ tx'[a].act[k] = Same \/ tx'[a].act[k] = tx[a].act[k]
                           \/ \A b \in Agents \ {a} : Active(b) => tx[b].act[k] = Same
    PROVE  RegistryInv'
<1>1. Typed /\ CommittedInv /\ Exclusive /\ (\A b \in Agents : TxInv(b)) /\ RegisteredIsDeclared
  BY DEF RegistryInv
<1>2. /\ act' = act /\ ports' = ports /\ impl' = impl /\ pin' = pin /\ regs' = regs
      /\ legacy' = legacy /\ declared' = declared /\ since' = since
  BY DEF Local, Frame
<1>3. /\ tx \in [Agents -> TxRecords \cup {Idle}] /\ tx[a] \in TxRecords
      /\ tx'[a] \in TxRecords /\ tx' = [tx EXCEPT ![a] = tx'[a]]
  BY <1>1 DEF Typed, Local
<1>4. tx' \in [Agents -> TxRecords \cup {Idle}] /\ \A b \in Agents \ {a} : tx'[b] = tx[b]
  BY <1>3
<1>5. Typed'
  BY <1>1, <1>2, <1>4 DEF Typed
<1>6. Active(a) /\ \A b \in Agents : Active(b)' <=> Active(b)
  <2>1. Active(a) /\ Active(a)'
    BY <1>3, RecordTypes DEF Active, Steps
  <2>2. QED
    BY <1>4, <2>1 DEF Active
<1>7. CommittedInv'
  BY <1>1, <1>2, <1>6 DEF CommittedInv, Tagged
<1>8. Exclusive'
  <2> SUFFICES ASSUME NEW b \in Agents, NEW c \in Agents, b # c, Active(b), Active(c),
                      NEW k \in Keys
               PROVE  tx'[b].act[k] = Same \/ tx'[c].act[k] = Same
    BY <1>6 DEF Exclusive
  <2>1. tx[b].act[k] = Same \/ tx[c].act[k] = Same
    BY <1>1 DEF Exclusive
  <2>2. CASE b = a
    BY <1>4, <2>1, <2>2
  <2>3. CASE c = a
    BY <1>4, <2>1, <2>3
  <2>4. CASE b # a /\ c # a
    BY <1>4, <2>1, <2>4
  <2>5. QED
    BY <2>2, <2>3, <2>4
<1>9. ASSUME NEW b \in Agents
      PROVE  TxInv(b)'
  <2>1. CASE b = a
    <3>1. regs[a] >= 1
      BY <1>1, <1>6 DEF TxInv
    <3>2. QED
      BY <1>2, <2>1, <3>1 DEF TxInv
  <2>2. CASE b # a
    BY <1>1, <1>2, <1>4, <1>6, <2>2 DEF TxInv
  <2>3. QED
    BY <2>1, <2>2
<1>10. RegisteredIsDeclared'
  BY <1>1, <1>2 DEF RegisteredIsDeclared
<1>11. QED
  BY <1>5, <1>7, <1>8, <1>9, <1>10 DEF RegistryInv

\* So does one that ends without a commit.
LEMMA AbortStep ==
    ASSUME RegistryInv, NEW a \in Agents, Abort(a)
    PROVE  RegistryInv'
<1>1. Typed /\ CommittedInv /\ Exclusive /\ (\A b \in Agents : TxInv(b)) /\ RegisteredIsDeclared
  BY DEF RegistryInv
<1>2. /\ act' = act /\ ports' = ports /\ impl' = impl /\ pin' = pin /\ regs' = regs
      /\ legacy' = legacy /\ declared' = declared /\ since' = since
  BY DEF Abort, db, history
<1>3. tx \in [Agents -> TxRecords \cup {Idle}] /\ tx' \in [Agents -> TxRecords \cup {Idle}]
  BY <1>1 DEF Typed, Abort
<1>4. tx'[a] = Idle /\ \A b \in Agents \ {a} : tx'[b] = tx[b]
  BY <1>3 DEF Abort
<1>5. Typed'
  BY <1>1, <1>2, <1>3 DEF Typed
<1>6. ~Active(a)' /\ \A b \in Agents \ {a} : Active(b)' <=> Active(b)
  BY <1>4 DEF Active, Idle
<1>7. CommittedInv'
  <2>1. \A b \in Agents : Active(b)' => Active(b)
    BY <1>6
  <2>2. QED
    BY <1>1, <1>2, <2>1 DEF CommittedInv, Tagged
<1>8. Exclusive'
  BY <1>1, <1>4, <1>6 DEF Exclusive
<1>9. ASSUME NEW b \in Agents
      PROVE  TxInv(b)'
  BY <1>1, <1>2, <1>4, <1>6 DEF TxInv
<1>10. RegisteredIsDeclared'
  BY <1>1, <1>2 DEF RegisteredIsDeclared
<1>11. QED
  BY <1>5, <1>7, <1>8, <1>9, <1>10 DEF RegistryInv

\* A step that does not bring action k up to date leaves what is known of it.
LEMMA PortsKept ==
    ASSUME NEW t, NEW n, NEW reg, NEW k, NEW ps, NEW lg, PortsInv(t, reg, k, ps, lg),
           n.act[k] = t.act[k], n.built[k] = t.built[k], n.dropped[k] = t.dropped[k],
           n.actions[k] = t.actions[k], ~Updates(t, k), ~Updates(n, k)
    PROVE  PortsInv(n, reg, k, ps, lg)
BY DEF PortsInv

\* A step that has nothing to do with actions keeps the invariant if it keeps what is
\* known of the implementations.
LEMMA ElsewhereStep ==
    ASSUME RegistryInv, NEW a \in Agents, Local(a), KeepsPorts(tx'[a], tx[a]),
           tx[a].pc \notin Updating, tx'[a].pc \notin Updating, ImplsInv(tx'[a], a, impl[a])
    PROVE  RegistryInv'
<1>1. tx[a].pc \in Steps
  BY RecordTypes DEF Local
<1>2. \A k \in Keys : PortsInv(tx[a], <<a, regs[a]>>, k, ports[k], legacy)
  BY <1>1, UnderWay
<1>3. ASSUME NEW k \in Keys
      PROVE  PortsInv(tx'[a], <<a, regs[a]>>, k, ports[k], legacy)
  <2>1. ~Updates(tx[a], k) /\ ~Updates(tx'[a], k)
    BY DEF Updates
  <2>2. /\ tx'[a].act[k] = tx[a].act[k] /\ tx'[a].built[k] = tx[a].built[k]
        /\ tx'[a].dropped[k] = tx[a].dropped[k] /\ tx'[a].actions[k] = tx[a].actions[k]
    BY DEF KeepsPorts
  <2>3. PortsInv(tx[a], <<a, regs[a]>>, k, ports[k], legacy)
    BY <1>2
  <2>4. QED
    BY <2>1, <2>2, <2>3, PortsKept
<1>4. \A k \in Keys : tx'[a].act[k] = tx[a].act[k]
  BY DEF KeepsPorts
<1>5. QED
  BY <1>3, <1>4, LocalStep

\* A registration that goes on taking its interface.
LEMMA TakingGoesOn ==
    ASSUME NEW t, NEW n, NEW a, NEW im, ImplsInv(t, a, im),
           t.pc \in Taking \ {"drop", "save"}, n.pc \in Taking, Keeps(n, t), KeepsPlace(n, t),
           n.impl = t.impl, n.cascade = t.cascade,
           n.actions[t.decl[t.cur][1]] # Null,
           n.pc \in {"collect", "drop"} => t.impls[t.cur] # Null,
           OwnDeeds(t, a) = {} =>
              /\ \A p \in n.counted : p[1] = a
              /\ n.pc = "collect" => \A i \in Interfaces \ {t.cur} :
                    ~Uses(Seen(t, im, i), t.impls[t.cur].key, t.impls[t.cur].action)
              /\ n.pc = "drop" => \A x \in n.collected : x[1][1] = a => x[1][2] = t.cur
    PROVE  ImplsInv(n, a, im)
<1>1. OwnDeeds(n, a) = OwnDeeds(t, a) /\ \A i : Seen(n, im, i) = Seen(t, im, i)
  BY DEF OwnDeeds, Seen, Keeps
<1>2. "commit" \notin Taking /\ "reap" \notin Taking
  BY DEF Taking
<1>3. /\ n.decl = t.decl /\ n.impls = t.impls /\ n.since = t.since /\ n.left = t.left
      /\ n.cur = t.cur
  BY DEF Keeps, KeepsPlace
<1>4. n.pc # "commit" /\ n.pc # "reap" /\ t.pc # "commit" /\ t.pc \in Taking \ {"save"}
  BY <1>2
<1>5. OwnDeeds(n, a) = {} =>
         /\ im = n.impls /\ (\A p \in n.counted : p[1] = a)
         /\ \A j \in n.left : n.impl[j] = Same
         /\ n.pc \in Taking \ {"save"} => n.impl[n.cur] = Same
         /\ n.pc = "collect" => \A i \in Interfaces \ {n.cur} :
               ~Uses(Seen(n, im, i), n.impls[n.cur].key, n.impls[n.cur].action)
         /\ n.pc = "drop" => \A x \in n.collected : x[1][1] = a => x[1][2] = n.cur
  BY <1>1, <1>3, <1>4 DEF ImplsInv
<1>6. QED
  BY <1>1, <1>3, <1>4, <1>5 DEF ImplsInv

\* That does nothing to implementations.
LEMMA TakingKeepsImpls ==
    ASSUME NEW t, NEW n, NEW a, NEW im, ImplsInv(t, a, im),
           t.pc \in {"action", "ports", "counts", "impl"}, n.pc \in {"ports", "counts", "impl", "save"},
           Keeps(n, t), KeepsPlace(n, t), KeepsImpls(n, t), n.actions[t.decl[t.cur][1]] # Null
    PROVE  ImplsInv(n, a, im)
<1>1. t.pc \in Taking \ {"drop", "save"} /\ n.pc \in Taking /\ n.pc \notin {"collect", "drop"}
  BY DEF Taking
<1>2. n.impl = t.impl /\ n.cascade = t.cascade /\ n.counted = t.counted
  BY DEF KeepsImpls
<1>3. OwnDeeds(t, a) = {} => \A p \in n.counted : p[1] = a
  BY <1>2 DEF ImplsInv
<1>4. QED
  BY <1>1, <1>2, <1>3, TakingGoesOn

LEMMA InvNextDeclared ==
    ASSUME RegistryInv, NEW a \in Agents, NextDeclared(a)
    PROVE  RegistryInv'
<1>1. PICK t, n : t = tx[a] /\ n = tx'[a]
  OBVIOUS
<1>2. /\ Local(a) /\ KeepsPorts(n, t) /\ KeepsImpls(n, t) /\ t.pc = "next"
      /\ \/ t.left = {} /\ KeepsPlace(n, t) /\ n.pc = "reap"
         \/ \E j \in t.left : n.left = t.left \ {j} /\ n.cur = j /\ n.pc = "action"
  BY <1>1, NextDeclaredEffect
<1>3. t \in TxRecords /\ ImplsInv(t, a, impl[a])
  BY <1>1, <1>2, UnderWay DEF Steps
<1>4. /\ n.decl = t.decl /\ n.impls = t.impls /\ n.since = t.since /\ n.impl = t.impl
      /\ n.cascade = t.cascade /\ n.counted = t.counted /\ n.collected = t.collected
  BY <1>1, <1>2 DEF Local, Keeps, KeepsImpls
<1>5. OwnDeeds(n, a) = OwnDeeds(t, a)
  BY <1>4 DEF OwnDeeds
<1>6. t.pc \notin Taking /\ t.pc # "commit"
  BY <1>2 DEF Taking
<1>7. CASE t.left = {} /\ KeepsPlace(n, t) /\ n.pc = "reap"
  <2>1. ImplsInv(n, a, impl[a])
    BY <1>3, <1>4, <1>5, <1>6, <1>7 DEF ImplsInv, Taking, KeepsPlace
  <2>2. QED
    BY <1>1, <1>2, <1>7, <2>1, ElsewhereStep DEF Updating
<1>8. ASSUME NEW j \in t.left, n.left = t.left \ {j}, n.cur = j, n.pc = "action"
      PROVE  RegistryInv'
  <2>1. j \in Interfaces
    BY <1>3, RecordTypes
  <2>2. n.pc \in Taking \ {"save"} /\ n.pc \notin Taking \ {"action"} /\ n.pc # "commit"
        /\ n.pc # "reap" /\ n.pc # "collect" /\ n.pc # "drop" /\ n.pc \in Taking
    BY <1>8 DEF Taking
  <2>3. OwnDeeds(n, a) = {} =>
           /\ impl[a] = n.impls /\ (\A p \in n.counted : p[1] = a)
           /\ \A i \in n.left : n.impl[i] = Same
           /\ n.impl[n.cur] = Same
    BY <1>3, <1>4, <1>5, <1>8 DEF ImplsInv
  <2>4. \A i \in n.left : n.impl[i] \in {Same, Null} /\ n.decl[i] # Null
    BY <1>3, <1>4, <1>8 DEF ImplsInv
  <2>5. \A i \in Interfaces : n.decl[i] # Null /\ i \notin n.left /\ ~(n.pc \in Taking /\ i = n.cur)
           => \/ n.impl[i] \in Impls /\ n.impl[i].key = n.decl[i][1]
              \/ n.impl[i] = Null /\ OwnDeeds(n, a) # {}
    BY <1>3, <1>4, <1>5, <1>6, <1>8, <2>2 DEF ImplsInv
  <2>6. \A i \in Interfaces : n.decl[i] = Null => n.impl[i] \in {Same, Null}
    BY <1>3, <1>4, <1>6 DEF ImplsInv
  <2>7. n.cur \in Interfaces /\ n.decl[n.cur] # Null /\ n.cur \notin n.left /\ n.impl[n.cur] \in {Same, Null}
    BY <1>3, <1>4, <1>8, <2>1 DEF ImplsInv
  <2>8. \A p \in n.cascade : p[1] # a
    BY <1>3, <1>4 DEF ImplsInv
  <2>9. ImplsInv(n, a, impl[a])
    BY <2>2, <2>3, <2>4, <2>5, <2>6, <2>7, <2>8 DEF ImplsInv
  <2>10. QED
    BY <1>1, <1>2, <1>8, <2>9, ElsewhereStep DEF Updating
<1>9. QED
  BY <1>2, <1>7, <1>8

\* A step that writes one action, which no other registration has written.
LEMMA WriteStep ==
    ASSUME RegistryInv, NEW a \in Agents, Local(a), NEW k \in Keys, NEW r \in Actions,
           Writes(a, k, r), \A l \in Keys \ {k} : ~Updates(tx[a], l) /\ ~Updates(tx'[a], l),
           PortsInv(tx'[a], <<a, regs[a]>>, k, ports[k], legacy),
           ImplsInv(tx'[a], a, impl[a])
    PROVE  RegistryInv'
<1>1. tx[a] \in TxRecords /\ tx[a].pc \in Steps
  BY RecordTypes DEF Local
<1>2. \A l \in Keys : PortsInv(tx[a], <<a, regs[a]>>, l, ports[l], legacy)
  BY <1>1, UnderWay
<1>3. /\ tx'[a].act = [tx[a].act EXCEPT ![k] = r]
      /\ tx'[a].actions = [tx[a].actions EXCEPT ![k] = r]
      /\ tx'[a].dropped = tx[a].dropped /\ tx'[a].built = tx[a].built
      /\ <<"action", k>> \in Wants(a) /\ WaitsFor(a) = {}
  BY DEF Writes
<1>4. \A l \in Keys \ {k} : tx'[a].act[l] = tx[a].act[l] /\ tx'[a].actions[l] = tx[a].actions[l]
  BY <1>1, <1>3, RecordTypes
<1>5. ASSUME NEW l \in Keys
      PROVE  PortsInv(tx'[a], <<a, regs[a]>>, l, ports[l], legacy)
  <2>1. CASE l = k
    BY <2>1
  <2>2. CASE l # k
    <3>1. PortsInv(tx[a], <<a, regs[a]>>, l, ports[l], legacy)
      BY <1>2
    <3>2. /\ tx'[a].act[l] = tx[a].act[l] /\ tx'[a].built[l] = tx[a].built[l]
          /\ tx'[a].dropped[l] = tx[a].dropped[l] /\ tx'[a].actions[l] = tx[a].actions[l]
      BY <1>3, <1>4, <2>2
    <3>3. ~Updates(tx[a], l) /\ ~Updates(tx'[a], l)
      BY <2>2
    <3>4. QED
      BY <3>1, <3>2, <3>3, PortsKept
  <2>3. QED
    BY <2>1, <2>2
<1>6. ASSUME NEW l \in Keys
      PROVE  \/ tx'[a].act[l] = Same \/ tx'[a].act[l] = tx[a].act[l]
             \/ \A b \in Agents \ {a} : Active(b) => tx[b].act[l] = Same
  <2>1. CASE l # k
    BY <1>4, <2>1
  <2>2. CASE l = k
    BY <1>3, <2>2, WrittenByNobodyElse
  <2>3. QED
    BY <2>1, <2>2
<1>7. QED
  BY <1>5, <1>6, LocalStep

\* An action that is left alone although its ports are looked up is up to date, unless it
\* is older than the ports.
LEMMA OnlyLegacyIsUpdated ==
    ASSUME RegistryInv, NEW a \in Agents, tx[a].pc = "action", Entry(a) # Null,
           Entry(a).current => EntryIsThere(a), ~RelationalStateIsCurrent(a)
    PROVE  legacy
<1> SUFFICES ASSUME ~legacy
             PROVE  FALSE
  OBVIOUS
<1>1. PICK t, k : t = tx[a] /\ k = Key(a)
  OBVIOUS
<1>2. t.pc \in Taking /\ t.pc \in Steps /\ t.pc \notin Updating
  BY <1>1 DEF Taking, Steps, Updating
<1>3. k \in Keys /\ Entry(a) = t.actions[k] /\ t \in TxRecords
  BY <1>1, <1>2, WhileTaking
<1>4. PortsInv(t, <<a, regs[a]>>, k, ports[k], legacy) /\ ~Updates(t, k)
  BY <1>1, <1>2, <1>3, UnderWay DEF Updates
<1>5. Entry(a).current
  BY <1>3, <1>4 DEF PortsInv
<1>6. EntryIsThere(a) /\ SeesPorts(a, k) = {}
  BY <1>1, <1>5 DEF RelationalStateIsCurrent
<1>7. SeesAction(a, k) # Null
  BY <1>1, <1>6 DEF EntryIsThere
<1>8. t.built[k] = {}
  BY <1>1, <1>6 DEF SeesPorts
<1>9. t.act[k] = Same
  <2>1. t.act[k] # Null
    BY <1>1, <1>7, RowFacts DEF SeesAction
  <2>2. t.act[k] \notin {Same, Null} => t.built[k] # {}
    BY <1>4 DEF PortsInv
  <2>3. QED
    BY <1>8, <2>1, <2>2
<1>10. t.dropped[k] = {} /\ act[k] # Null
  <2>1. t.dropped[k] = {}
    BY <1>4, <1>9 DEF PortsInv
  <2>2. QED
    BY <1>1, <1>7, <1>9 , <2>1 DEF SeesAction
<1>11. Committed(act[k], ports[k], legacy)
  BY <1>3 DEF RegistryInv, CommittedInv
<1>12. ports[k] # {}
  BY <1>10, <1>11 DEF Committed
<1>13. QED
  BY <1>1, <1>6, <1>10, <1>12 DEF SeesPorts

LEMMA InvUpsertAction ==
    ASSUME RegistryInv, NEW a \in Agents, UpsertAction(a)
    PROVE  RegistryInv'
<1>1. PICK t, n, k, h, e : /\ t = tx[a] /\ n = tx'[a] /\ k = Key(a) /\ h = Hash(a)
                           /\ e = Entry(a)
  OBVIOUS
<1>2. /\ Local(a) /\ KeepsPlace(n, t) /\ KeepsImpls(n, t) /\ t.pc = "action"
      /\ \/ /\ n.pc = "ports"
            /\ \E r \in Actions : /\ Writes(a, k, r) /\ r.hash = h
                                  /\ e = Null => r.current = FALSE
                                  /\ e # Null => r.current = e.current
         \/ /\ KeepsPorts(n, t) /\ e # Null /\ e.hash = h
            /\ e.current => EntryIsThere(a)
            /\ n.pc = IF RelationalStateIsCurrent(a) THEN "impl" ELSE "ports"
  BY <1>1, UpsertActionEffect
<1>3. t.pc \in Taking /\ t.pc \in Steps
  BY <1>2 DEF Taking, Steps
<1>4. /\ t \in TxRecords /\ n \in TxRecords /\ ImplsInv(t, a, impl[a])
      /\ \A l \in Keys : PortsInv(t, <<a, regs[a]>>, l, ports[l], legacy)
  BY <1>1, <1>2, <1>3, UnderWay DEF Local
<1>5. k = t.decl[t.cur][1] /\ h = t.decl[t.cur][2] /\ k \in Keys /\ e = t.actions[k]
  BY <1>1, <1>3, WhileTaking
<1>6. \A l \in Keys : ~Updates(t, l)
  BY <1>2 DEF Updates, Updating
<1>7. n.decl = t.decl /\ n.cur = t.cur /\ Keeps(n, t)
  BY <1>1, <1>2 DEF Local, Keeps, KeepsPlace
<1>8. n.actions[k] # Null /\ n.pc \in {"ports", "impl"} => ImplsInv(n, a, impl[a])
  <2>1. t.pc \in {"action", "ports", "counts", "impl"}
    BY <1>2
  <2>2. QED
    BY <1>2, <1>4, <1>5, <1>7, <2>1, TakingKeepsImpls
\* The row is written.
<1>9. ASSUME NEW r \in Actions, Writes(a, k, r), r.hash = h, e = Null => r.current = FALSE,
             e # Null => r.current = e.current, n.pc = "ports"
      PROVE  RegistryInv'
  <2>1. /\ n.act[k] = r /\ n.actions[k] = r /\ n.dropped = t.dropped /\ n.built = t.built
    BY <1>1, <1>4, <1>5, <1>9, RecordTypes DEF Writes
  <2>2. Updates(n, k) /\ ~Updates(t, k) /\ n.pc # "counts" /\ t.pc # "counts"
    BY <1>2, <1>5, <1>6, <1>7, <1>9 DEF Updates, Updating
  <2>3. PortsInv(t, <<a, regs[a]>>, k, ports[k], legacy)
    BY <1>4, <1>5
  <2>4. r # Same /\ r # Null /\ n.actions[k].hash = n.decl[n.cur][2]
    BY <1>5, <1>7, <1>9, <2>1, RowFacts
  <2>5. n.built[k] = t.built[k] /\ n.dropped[k] = t.dropped[k]
    BY <2>1
  <2>6. PortsInv(n, <<a, regs[a]>>, k, ports[k], legacy)
    BY <2>1, <2>2, <2>3, <2>4, <2>5 DEF PortsInv
  <2>7. \A l \in Keys \ {k} : ~Updates(t, l) /\ ~Updates(n, l)
    BY <1>5, <1>6, <1>7 DEF Updates
  <2>8. ImplsInv(n, a, impl[a])
    BY <1>8, <1>9, <2>1, <2>4
  <2>9. QED
    BY <1>1, <1>2, <1>5, <1>9, <2>6, <2>7, <2>8, WriteStep
\* It is left alone.
<1>10. ASSUME KeepsPorts(n, t), e # Null, e.hash = h, e.current => EntryIsThere(a),
              n.pc = IF RelationalStateIsCurrent(a) THEN "impl" ELSE "ports"
       PROVE  RegistryInv'
  <2>1. n.act = t.act /\ n.built = t.built /\ n.dropped = t.dropped /\ n.actions = t.actions
    BY <1>10 DEF KeepsPorts
  <2>2. ASSUME NEW l \in Keys
        PROVE  PortsInv(n, <<a, regs[a]>>, l, ports[l], legacy)
    <3>1. PortsInv(t, <<a, regs[a]>>, l, ports[l], legacy) /\ ~Updates(t, l)
      BY <1>4, <1>6
    <3>2. /\ n.act[l] = t.act[l] /\ n.built[l] = t.built[l] /\ n.dropped[l] = t.dropped[l]
          /\ n.actions[l] = t.actions[l]
      BY <2>1
    <3>3. CASE ~Updates(n, l)
      BY <3>1, <3>2, <3>3, PortsKept
    <3>4. CASE Updates(n, l)
      <4>1. l = k /\ n.pc = "ports" /\ t.pc # "counts"
        BY <1>2, <1>5, <1>7, <1>10, <3>4 DEF Updates, Updating
      <4>2. legacy
        <5>1. ~RelationalStateIsCurrent(a)
          BY <1>10, <4>1
        <5>2. QED
          BY <1>1, <1>2, <1>10, <5>1, OnlyLegacyIsUpdated
      <4>3. n.actions[l] # Null /\ n.actions[l].hash = n.decl[n.cur][2] /\ n.pc # "counts"
        BY <1>5, <1>7, <1>10, <2>1, <4>1
      <4>4. QED
        BY <3>1, <3>2, <3>4, <4>1, <4>2, <4>3 DEF PortsInv
    <3>5. QED
      BY <3>3, <3>4
  <2>3. n.actions[k] # Null /\ n.pc \in {"ports", "impl"}
    BY <1>5, <1>10, <2>1
  <2>4. ImplsInv(n, a, impl[a])
    BY <1>8, <2>3
  <2>5. \A l \in Keys : tx'[a].act[l] = tx[a].act[l]
    BY <1>1, <2>1
  <2>6. QED
    BY <1>1, <1>2, <2>2, <2>4, <2>5, LocalStep
<1>11. QED
  BY <1>2, <1>9, <1>10

LEMMA InvRebuildRelationalPorts ==
    ASSUME RegistryInv, NEW a \in Agents, RebuildRelationalPorts(a),
           Hash(a) \notin Malformed
    PROVE  RegistryInv'
<1>1. PICK t, n, k, h, reg : /\ t = tx[a] /\ n = tx'[a] /\ k = Key(a) /\ h = Hash(a)
                             /\ reg = <<a, regs[a]>>
  OBVIOUS
<1>2. /\ Local(a) /\ KeepsPlace(n, t) /\ KeepsImpls(n, t)
      /\ t.pc = "ports" /\ n.pc = "counts" /\ n.act = t.act /\ n.actions = t.actions
      /\ n.dropped = [t.dropped EXCEPT ![k] = t.dropped[k] \cup ports[k]]
      /\ n.built = [t.built EXCEPT ![k] = {Copy(reg, h)}]
  BY <1>1, RebuildRelationalPortsEffect
<1>3. t.pc \in Taking /\ t.pc \in Steps /\ t.pc \in Taking \ {"action"}
  BY <1>2 DEF Taking, Steps
<1>4. /\ t \in TxRecords /\ n \in TxRecords /\ ImplsInv(t, a, impl[a])
      /\ \A l \in Keys : PortsInv(t, reg, l, ports[l], legacy)
  BY <1>1, <1>2, <1>3, UnderWay DEF Local
<1>5. k = t.decl[t.cur][1] /\ h = t.decl[t.cur][2] /\ k \in Keys
  BY <1>1, <1>3, WhileTaking
<1>6. n.decl = t.decl /\ n.cur = t.cur /\ Keeps(n, t)
  BY <1>1, <1>2 DEF Local, Keeps, KeepsPlace
<1>7. /\ n.dropped[k] = t.dropped[k] \cup ports[k] /\ n.built[k] = {Copy(reg, h)}
      /\ \A l \in Keys \ {k} : n.dropped[l] = t.dropped[l] /\ n.built[l] = t.built[l]
  <2>1. t.dropped \in [Keys -> SUBSET Copies] /\ t.built \in [Keys -> SUBSET Copies]
    BY <1>4, RecordTypes
  <2>2. QED
    BY <1>2, <1>5, <2>1
<1>8. ASSUME NEW l \in Keys
      PROVE  PortsInv(n, reg, l, ports[l], legacy)
  <2>1. PortsInv(t, reg, l, ports[l], legacy)
    BY <1>4
  <2>2. CASE l # k
    <3>1. ~Updates(t, l) /\ ~Updates(n, l)
      BY <1>5, <1>6, <2>2 DEF Updates
    <3>2. QED
      BY <1>2, <1>7, <2>1, <2>2, <3>1, PortsKept
  <2>3. CASE l = k
    <3>1. Updates(t, l) /\ Updates(n, l)
      BY <1>2, <1>5, <1>6, <2>3 DEF Updates, Updating
    <3>2. IsFiniteSet(n.built[l]) /\ \A c \in n.built[l] : c.by = reg
      <4>1. n.built[l] = {Copy(reg, h)} /\ Copy(reg, h).by = reg
        BY <1>7, <2>3 DEF Copy
      <4>2. IsFiniteSet({Copy(reg, h)})
        BY FS_Singleton
      <4>3. QED
        BY <4>1, <4>2
    <3>3. n.act[l] = t.act[l] /\ n.actions[l] = t.actions[l] /\ ports[l] \subseteq n.dropped[l]
      BY <1>2, <1>7, <2>3
    <3>4. n.built[l] = {Copy(reg, n.decl[n.cur][2])} /\ n.decl[n.cur] = t.decl[t.cur]
      BY <1>5, <1>6, <1>7, <2>3
    <3>5. QED
      BY <1>2, <2>1, <3>1, <3>2, <3>3, <3>4 DEF PortsInv
  <2>4. QED
    BY <2>2, <2>3
<1>9. ImplsInv(n, a, impl[a])
  <2>1. n.actions[t.decl[t.cur][1]] # Null
    BY <1>2, <1>3, <1>4 DEF ImplsInv
  <2>2. t.pc \in {"action", "ports", "counts", "impl"} /\ n.pc \in {"ports", "counts", "impl", "save"}
    BY <1>2
  <2>3. QED
    BY <1>2, <1>4, <1>6, <2>1, <2>2, TakingKeepsImpls
<1>10. \A l \in Keys : tx'[a].act[l] = tx[a].act[l]
  BY <1>1, <1>2
<1>11. QED
  BY <1>1, <1>2, <1>8, <1>9, <1>10, LocalStep

LEMMA InvSaveCounts ==
    ASSUME RegistryInv, NEW a \in Agents, SaveCounts(a)
    PROVE  RegistryInv'
<1>1. PICK t, n, k, h, reg, e : /\ t = tx[a] /\ n = tx'[a] /\ k = Key(a) /\ h = Hash(a)
                                /\ reg = <<a, regs[a]>> /\ e = Entry(a)
  OBVIOUS
<1>2. t.pc = "counts" /\ t.pc \in Taking /\ t.pc \in Steps
  BY <1>1 DEF SaveCounts, At, Taking, Steps
<1>3. /\ t \in TxRecords /\ ImplsInv(t, a, impl[a])
      /\ \A l \in Keys : PortsInv(t, reg, l, ports[l], legacy)
  BY <1>1, <1>2, UnderWay
<1>4. k = t.decl[t.cur][1] /\ h = t.decl[t.cur][2] /\ k \in Keys /\ e = t.actions[k]
  BY <1>1, <1>2, WhileTaking
<1>5. Updates(t, k) /\ PortsInv(t, reg, k, ports[k], legacy)
  BY <1>2, <1>3, <1>4 DEF Updates, Updating
<1>6. e # Null /\ e.hash = h /\ t.built[k] = {Copy(reg, h)}
  BY <1>2, <1>4, <1>5 DEF PortsInv
<1>7. CASE Abort(a)
  BY <1>7, AbortStep
<1>8. ASSUME NEW r \in Actions, Writes(a, k, r), r.current = TRUE, r.hash = e.hash, Local(a),
             KeepsPlace(n, t), KeepsImpls(n, t), n.pc = "impl"
      PROVE  RegistryInv'
  <2>1. n.decl = t.decl /\ n.cur = t.cur /\ Keeps(n, t)
    BY <1>1, <1>8 DEF Local, Keeps, KeepsPlace
  <2>2. /\ n.act[k] = r /\ n.actions[k] = r /\ n.dropped[k] = t.dropped[k]
        /\ n.built[k] = t.built[k]
    BY <1>1, <1>3, <1>4, <1>8, RecordTypes DEF Writes
  <2>3. (\A l \in Keys : ~Updates(n, l)) /\ (\A l \in Keys \ {k} : ~Updates(t, l))
    BY <1>4, <1>8 DEF Updates, Updating
  <2>4. r # Same /\ r # Null
    BY <1>8, RowFacts
  <2>5. PortsInv(n, reg, k, ports[k], legacy)
    BY <1>4, <1>5, <1>6, <1>8, <2>2, <2>3, <2>4 DEF PortsInv
  <2>6. ImplsInv(n, a, impl[a])
    <3>1. t.pc \in {"action", "ports", "counts", "impl"} /\ n.pc \in {"ports", "counts", "impl", "save"}
      BY <1>2, <1>8
    <3>2. n.actions[t.decl[t.cur][1]] # Null
      BY <1>4, <2>2, <2>4
    <3>3. QED
      BY <1>3, <1>8, <2>1, <3>1, <3>2, TakingKeepsImpls
  <2>7. QED
    BY <1>1, <1>4, <1>8, <2>3, <2>5, <2>6, WriteStep
<1>9. QED
  BY <1>1, <1>6, <1>7, <1>8, SaveCountsEffect

\* Unless others have meddled, the one implementation it counts is its own: it has not
\* written that row yet.
LEMMA CountsItsOwn ==
    ASSUME RegistryInv, NEW a \in Agents, tx[a].pc = "impl", Known(a) # Null,
           Cardinality(Users(a, Known(a))) = 1, OwnDeeds(tx[a], a) = {}
    PROVE  Users(a, Known(a)) = {<<a, tx[a].cur>>}
<1>1. PICK t, j, r, users : /\ t = tx[a] /\ j = tx[a].cur /\ r = Known(a)
                            /\ users = Users(a, Known(a))
  OBVIOUS
<1>2. t.pc \in Taking /\ t.pc \in Taking \ {"save"} /\ t.pc \in Steps
  BY <1>1 DEF Taking, Steps
<1>3. ImplsInv(t, a, impl[a]) /\ j \in Interfaces
  BY <1>1, <1>2, UnderWay, WhileTaking
<1>4. t.impl[j] = Same /\ impl[a] = t.impls
  BY <1>1, <1>2, <1>3 DEF ImplsInv
<1>5. SeesRow(a, <<a, j>>) = r
  BY <1>1, <1>4 DEF SeesRow, SeesImpl, Known
<1>6. <<a, j>> \in users
  BY <1>1, <1>3, <1>5 DEF Users, Uses, Pairs
<1>7. IsFiniteSet(users)
  <2>1. IsFiniteSet(Agents \X Interfaces)
    BY RegistryAssumption, FS_Product
  <2>2. users \subseteq Agents \X Interfaces
    BY <1>1 DEF Users, Pairs
  <2>3. QED
    BY <2>1, <2>2, FS_Subset
<1>8. PICK x : users = {x}
  <2>1. Cardinality(users) = 1
    BY <1>1
  <2>2. QED
    BY <1>7, <2>1, FS_Singleton
<1>9. QED
  BY <1>1, <1>6, <1>8

LEMMA InvCountUsers ==
    ASSUME RegistryInv, NEW a \in Agents, CountUsers(a)
    PROVE  RegistryInv'
<1>1. PICK t, n, r : t = tx[a] /\ n = tx'[a] /\ r = Known(a)
  OBVIOUS
<1>2. /\ Local(a) /\ KeepsPlace(n, t) /\ KeepsPorts(n, t) /\ t.pc = "impl"
      /\ n.impl = t.impl /\ n.collected = t.collected /\ n.cascade = t.cascade
      /\ \/ n.pc = "save" /\ n.counted = t.counted
         \/ /\ n.pc = "collect" /\ n.counted = Users(a, r) /\ r # Null
            /\ Cardinality(Users(a, r)) = 1
  BY <1>1, CountUsersEffect
<1>3. t.pc \in Taking /\ t.pc \in Taking \ {"action"} /\ t.pc \in Steps
  BY <1>2 DEF Taking, Steps
<1>4. ImplsInv(t, a, impl[a]) /\ r = t.impls[t.cur]
  BY <1>1, <1>3, UnderWay, WhileTaking
<1>5. Keeps(n, t) /\ n.actions = t.actions
  BY <1>1, <1>2 DEF Local, KeepsPorts
<1>6. n.actions[t.decl[t.cur][1]] # Null
  BY <1>3, <1>4, <1>5 DEF ImplsInv
<1>7. CASE n.pc = "save" /\ n.counted = t.counted
  <2>1. ImplsInv(n, a, impl[a])
    <3>1. KeepsImpls(n, t)
      BY <1>2, <1>7 DEF KeepsImpls
    <3>2. t.pc \in {"action", "ports", "counts", "impl"} /\ n.pc \in {"ports", "counts", "impl", "save"}
      BY <1>2, <1>7
    <3>3. QED
      BY <1>2, <1>4, <1>5, <1>6, <3>1, <3>2, TakingKeepsImpls
  <2>2. QED
    BY <1>1, <1>2, <1>7, <2>1, ElsewhereStep DEF Updating
<1>8. CASE n.pc = "collect" /\ n.counted = Users(a, r) /\ r # Null /\ Cardinality(Users(a, r)) = 1
  <2>1. OwnDeeds(t, a) = {} =>
           /\ \A p \in n.counted : p[1] = a
           /\ \A i \in Interfaces \ {t.cur} :
                 ~Uses(Seen(t, impl[a], i), t.impls[t.cur].key, t.impls[t.cur].action)
    <3> SUFFICES ASSUME OwnDeeds(t, a) = {}
                 PROVE  /\ \A p \in n.counted : p[1] = a
                        /\ \A i \in Interfaces \ {t.cur} :
                              ~Uses(Seen(t, impl[a], i), r.key, r.action)
      BY <1>4
    <3>1. Users(a, r) = {<<a, t.cur>>}
      BY <1>1, <1>2, <1>8, CountsItsOwn
    <3>2. ASSUME NEW i \in Interfaces \ {t.cur}
          PROVE  ~Uses(Seen(t, impl[a], i), r.key, r.action)
      <4>1. <<a, i>> \in Pairs /\ <<a, i>> \notin Users(a, r)
        BY <3>1 DEF Pairs
      <4>2. SeesRow(a, <<a, i>>) = Seen(t, impl[a], i)
        BY <1>1 DEF SeesRow, SeesImpl, Seen
      <4>3. QED
        BY <4>1, <4>2 DEF Users
    <3>3. QED
      BY <1>8, <3>1, <3>2
  <2>2. t.pc \in Taking \ {"drop", "save"} /\ n.pc \in Taking
    BY <1>2, <1>8 DEF Taking
  <2>3. n.pc # "drop" /\ t.impls[t.cur] # Null
    BY <1>4, <1>8
  <2>4. ImplsInv(n, a, impl[a])
    BY <1>2, <1>4, <1>5, <1>6, <2>1, <2>2, <2>3, TakingGoesOn
  <2>5. QED
    BY <1>1, <1>2, <1>8, <2>4, ElsewhereStep DEF Updating
<1>9. QED
  BY <1>2, <1>7, <1>8

LEMMA InvCollectUsers ==
    ASSUME RegistryInv, NEW a \in Agents, CollectUsers(a)
    PROVE  RegistryInv'
<1>1. PICK t, n, r : t = tx[a] /\ n = tx'[a] /\ r = Known(a)
  OBVIOUS
<1>2. CASE Abort(a)
  BY <1>2, AbortStep
<1>3. CASE /\ Local(a) /\ KeepsPlace(n, t) /\ KeepsPorts(n, t) /\ t.pc = "collect"
           /\ n.impl = t.impl /\ n.pc = "drop" /\ n.cascade = t.cascade
           /\ n.counted = t.counted
           /\ n.collected = {<<p, SeesRow(a, p).pk>> : p \in Users(a, r)}
  <2>1. /\ t.pc \in Taking /\ t.pc \in Taking \ {"action"} /\ t.pc \in Steps
        /\ t.pc \in Taking \ {"drop", "save"} /\ n.pc \in Taking
    BY <1>3 DEF Taking, Steps
  <2>2. ImplsInv(t, a, impl[a]) /\ r = t.impls[t.cur]
    BY <1>1, <2>1, UnderWay, WhileTaking
  <2>3. Keeps(n, t) /\ n.actions = t.actions
    BY <1>1, <1>3 DEF Local, KeepsPorts
  <2>4. n.actions[t.decl[t.cur][1]] # Null /\ t.impls[t.cur] # Null
    BY <1>3, <2>1, <2>2, <2>3 DEF ImplsInv
  <2>5. ASSUME OwnDeeds(t, a) = {}, NEW x \in n.collected, x[1][1] = a
        PROVE  x[1][2] = t.cur
    <3>1. PICK p \in Users(a, r) : x = <<p, SeesRow(a, p).pk>>
      BY <1>3
    <3>2. p \in Pairs /\ Uses(SeesRow(a, p), r.key, r.action) /\ x[1] = p
      BY <3>1 DEF Users
    <3>3. p[1] = a /\ p[2] \in Interfaces
      BY <2>5, <3>2 DEF Pairs
    <3>4. SeesRow(a, p) = Seen(t, impl[a], p[2])
      BY <1>1, <3>3 DEF SeesRow, SeesImpl, Seen
    <3>5. \A i \in Interfaces \ {t.cur} : ~Uses(Seen(t, impl[a], i), r.key, r.action)
      BY <1>3, <2>2, <2>5 DEF ImplsInv
    <3>6. QED
      BY <3>2, <3>3, <3>4, <3>5
  <2>6. OwnDeeds(t, a) = {} => \A p \in n.counted : p[1] = a
    BY <1>3, <2>2 DEF ImplsInv
  <2>7. n.pc # "collect"
    BY <1>3
  <2>8. ImplsInv(n, a, impl[a])
    BY <1>3, <2>1, <2>2, <2>3, <2>4, <2>5, <2>6, <2>7, TakingGoesOn
  <2>9. QED
    BY <1>1, <1>3, <2>8, ElsewhereStep DEF Updating
<1>4. QED
  BY <1>1, <1>2, <1>3, CollectUsersEffect

LEMMA InvDropAction ==
    ASSUME RegistryInv, NEW a \in Agents, DropAction(a)
    PROVE  RegistryInv'
<1>1. PICK t, n, k, there : /\ t = tx[a] /\ n = tx'[a] /\ k = OldKey(a)
                            /\ there = OldActionIsThere(a)
  OBVIOUS
<1>2. /\ Local(a) /\ KeepsPlace(n, t) /\ t.pc = "drop" /\ n.pc = "save" /\ k \in Keys
      /\ <<"action", k>> \in Wants(a) /\ WaitsFor(a) = {}
      /\ n.actions = t.actions /\ n.counted = t.counted
      /\ n.cascade = t.cascade \cup {p \in Doomed(a) : p[1] # a}
      /\ n.impl = [i \in Interfaces |-> IF <<a, i>> \in Doomed(a) THEN Null ELSE t.impl[i]]
      /\ ~there => n.act = t.act /\ n.built = t.built /\ n.dropped = t.dropped
      /\ there => /\ n.act = [t.act EXCEPT ![k] = Null]
                  /\ n.built = [t.built EXCEPT ![k] = {}]
                  /\ n.dropped = [t.dropped EXCEPT ![k] = t.dropped[k] \cup ports[k]]
  BY <1>1, DropActionEffect
<1>3. t.pc \in Taking /\ t.pc \in Taking \ {"action"} /\ t.pc \in Steps /\ t.pc # "commit"
      /\ t.pc \in Taking \ {"save"}
  BY <1>2 DEF Taking, Steps
<1>4. /\ t \in TxRecords /\ n \in TxRecords /\ ImplsInv(t, a, impl[a])
      /\ \A l \in Keys : PortsInv(t, <<a, regs[a]>>, l, ports[l], legacy)
  BY <1>1, <1>2, <1>3, UnderWay DEF Local
<1>5. n.decl = t.decl /\ n.cur = t.cur /\ n.left = t.left /\ n.impls = t.impls /\ n.since = t.since
  BY <1>1, <1>2 DEF Local, Keeps, KeepsPlace
<1>6. /\ there => n.act[k] = Null /\ n.built[k] = {}
      /\ \A l \in Keys : l # k \/ ~there => /\ n.act[l] = t.act[l] /\ n.dropped[l] = t.dropped[l]
                                            /\ n.built[l] = t.built[l]
  <2>1. /\ t.act \in [Keys -> Actions \cup {Null, Same}]
        /\ t.dropped \in [Keys -> SUBSET Copies] /\ t.built \in [Keys -> SUBSET Copies]
    BY <1>4, RecordTypes
  <2>2. CASE there
    BY <1>2, <2>1, <2>2
  <2>3. CASE ~there
    BY <1>2, <2>3
  <2>4. QED
    BY <2>2, <2>3
<1>7. \A l \in Keys : ~Updates(t, l) /\ ~Updates(n, l)
  BY <1>2 DEF Updates, Updating
<1>8. ASSUME NEW l \in Keys
      PROVE  PortsInv(n, <<a, regs[a]>>, l, ports[l], legacy)
  <2>1. PortsInv(t, <<a, regs[a]>>, l, ports[l], legacy) /\ n.actions[l] = t.actions[l]
    BY <1>2, <1>4
  <2>2. CASE l # k \/ ~there
    <3>1. n.act[l] = t.act[l] /\ n.built[l] = t.built[l] /\ n.dropped[l] = t.dropped[l]
      BY <1>6, <2>2
    <3>2. QED
      BY <1>7, <2>1, <3>1, PortsKept
  <2>3. CASE l = k /\ there
    <3>1. n.act[l] = Null /\ n.built[l] = {} /\ Null # Same
      BY <1>6, <2>3, RowFacts
    <3>2. IsFiniteSet(n.built[l])
      BY <3>1, FS_EmptySet
    <3>3. QED
      BY <1>7, <2>1, <3>1, <3>2 DEF PortsInv
  <2>4. QED
    BY <2>2, <2>3
<1>9. ImplsInv(n, a, impl[a])
  <2>1. OwnDeeds(n, a) = OwnDeeds(t, a)
    BY <1>5 DEF OwnDeeds
  <2>2. n.pc \in Taking /\ n.pc \notin {"collect", "drop", "commit", "reap"}
        /\ n.pc \notin Taking \ {"save"}
    BY <1>2 DEF Taking
  <2>3. \A i \in Interfaces : n.impl[i] = t.impl[i] \/ n.impl[i] = Null
    BY <1>2
  <2>4. ASSUME OwnDeeds(t, a) = {}, NEW i \in Interfaces \ {t.cur}
        PROVE  n.impl[i] = t.impl[i]
    <3>1. \A x \in t.collected : x[1][1] = a => x[1][2] = t.cur
      BY <1>2, <1>4, <2>4 DEF ImplsInv
    <3>2. <<a, i>> \notin Doomed(a)
      BY <1>1, <2>4, <3>1 DEF Doomed
    <3>3. QED
      BY <1>2, <3>2
  <2>5. /\ t.cur \in Interfaces /\ t.decl[t.cur] # Null /\ t.cur \notin t.left
        /\ t.actions[t.decl[t.cur][1]] # Null /\ t.impl[t.cur] \in {Same, Null}
        /\ \A i \in t.left : t.impl[i] \in {Same, Null} /\ t.decl[i] # Null
        /\ \A p \in t.cascade : p[1] # a
    BY <1>3, <1>4 DEF ImplsInv
  <2>6. \A i \in t.left : i \in Interfaces \ {t.cur}
    BY <1>4, <2>5, RecordTypes
  <2>7. \A i \in n.left : n.impl[i] \in {Same, Null} /\ n.decl[i] # Null
    BY <1>5, <2>3, <2>5, <2>6
  <2>8. ASSUME NEW i \in Interfaces, n.decl[i] # Null, i \notin n.left, i # n.cur
        PROVE  \/ n.impl[i] \in Impls /\ n.impl[i].key = n.decl[i][1]
               \/ n.impl[i] = Null /\ OwnDeeds(n, a) # {}
    <3>1. \/ t.impl[i] \in Impls /\ t.impl[i].key = t.decl[i][1]
          \/ t.impl[i] = Null /\ OwnDeeds(t, a) # {}
      BY <1>4, <1>5, <2>8 DEF ImplsInv
    <3>2. CASE n.impl[i] = t.impl[i]
      BY <1>5, <2>1, <3>1, <3>2
    <3>3. CASE n.impl[i] # t.impl[i]
      <4>1. n.impl[i] = Null /\ i \in Interfaces \ {t.cur}
        BY <1>5, <2>3, <2>8, <3>3
      <4>2. OwnDeeds(t, a) # {}
        BY <2>4, <3>3, <4>1
      <4>3. QED
        BY <2>1, <4>1, <4>2
    <3>4. QED
      BY <3>2, <3>3
  <2>9. \A i \in Interfaces : n.decl[i] = Null => n.impl[i] \in {Same, Null}
    BY <1>3, <1>4, <1>5, <2>3 DEF ImplsInv
  <2>10. \A p \in n.cascade : p[1] # a
    BY <1>2, <2>5
  <2>11. OwnDeeds(n, a) = {} =>
            /\ impl[a] = n.impls /\ (\A p \in n.counted : p[1] = a)
            /\ \A i \in n.left : n.impl[i] = Same
    <3> SUFFICES ASSUME OwnDeeds(t, a) = {}
                 PROVE  /\ impl[a] = n.impls /\ (\A p \in n.counted : p[1] = a)
                        /\ \A i \in n.left : n.impl[i] = Same
      BY <2>1
    <3>1. impl[a] = t.impls /\ (\A p \in t.counted : p[1] = a) /\ \A i \in t.left : t.impl[i] = Same
      BY <1>4 DEF ImplsInv
    <3>2. QED
      BY <1>2, <1>5, <2>4, <2>6, <3>1
  <2>12. n.impl[n.cur] \in {Same, Null}
    BY <1>5, <2>3, <2>5
  <2>13. n.actions[n.decl[n.cur][1]] # Null /\ n.cur \in Interfaces /\ n.decl[n.cur] # Null
         /\ n.cur \notin n.left
    BY <1>2, <1>5, <2>5
  <2>14. QED
    BY <2>2, <2>7, <2>8, <2>9, <2>10, <2>11, <2>12, <2>13 DEF ImplsInv
<1>10. ASSUME NEW l \in Keys
       PROVE  \/ tx'[a].act[l] = Same \/ tx'[a].act[l] = tx[a].act[l]
              \/ \A b \in Agents \ {a} : Active(b) => tx[b].act[l] = Same
  <2>1. CASE l # k
    BY <1>1, <1>6, <2>1
  <2>2. CASE l = k
    BY <1>2, <2>2, WrittenByNobodyElse
  <2>3. QED
    BY <2>1, <2>2
<1>11. QED
  BY <1>1, <1>2, <1>8, <1>9, <1>10, LocalStep

LEMMA InvSaveImplementation ==
    ASSUME RegistryInv, NEW a \in Agents, SaveImplementation(a)
    PROVE  RegistryInv'
<1>1. PICK t, n, j : t = tx[a] /\ n = tx'[a] /\ j = tx[a].cur
  OBVIOUS
<1>2. CASE Abort(a)
  BY <1>2, AbortStep
<1>3. ASSUME NEW r \in Impls, n.impl = [t.impl EXCEPT ![j] = r], r.key = Key(a), Local(a),
             KeepsPlace(n, t), KeepsPorts(n, t), t.pc = "save", n.pc = "next",
             n.cascade = t.cascade, n.counted = t.counted
      PROVE  RegistryInv'
  <2>1. t.pc \in Taking /\ t.pc \in Taking \ {"action"} /\ t.pc \in Steps /\ t.pc # "commit"
    BY <1>3 DEF Taking, Steps
  <2>2. t \in TxRecords /\ ImplsInv(t, a, impl[a]) /\ Key(a) = t.decl[j][1] /\ j \in Interfaces
    BY <1>1, <2>1, UnderWay, WhileTaking
  <2>3. n.decl = t.decl /\ n.cur = t.cur /\ n.left = t.left /\ n.impls = t.impls /\ n.since = t.since
    BY <1>1, <1>3 DEF Local, Keeps, KeepsPlace
  <2>4. n.impl[j] = r /\ \A i \in Interfaces \ {j} : n.impl[i] = t.impl[i]
    <3>1. t.impl \in [Interfaces -> Impls \cup {Null, Same}]
      BY <2>2, RecordTypes
    <3>2. QED
      BY <1>3, <2>2, <3>1
  <2>5. OwnDeeds(n, a) = OwnDeeds(t, a)
    BY <2>3 DEF OwnDeeds
  <2>6. n.pc \notin Taking /\ n.pc \notin {"collect", "drop", "commit", "reap"}
        /\ n.pc \notin Taking \ {"action"} /\ n.pc \notin Taking \ {"save"}
    BY <1>3 DEF Taking
  <2>7. j \notin t.left /\ t.decl[j] # Null
    BY <1>1, <2>1, <2>2 DEF ImplsInv
  <2>8. \A i \in t.left : i \in Interfaces \ {j}
    BY <2>2, <2>7, RecordTypes
  <2>9. \A i \in n.left : n.impl[i] \in {Same, Null} /\ n.decl[i] # Null
    BY <2>2, <2>3, <2>4, <2>8 DEF ImplsInv
  <2>10. ASSUME NEW i \in Interfaces, n.decl[i] # Null, i \notin n.left
         PROVE  \/ n.impl[i] \in Impls /\ n.impl[i].key = n.decl[i][1]
                \/ n.impl[i] = Null /\ OwnDeeds(n, a) # {}
    <3>1. CASE i = j
      BY <1>3, <2>2, <2>3, <2>4, <3>1
    <3>2. CASE i # j
      <4>1. \/ t.impl[i] \in Impls /\ t.impl[i].key = t.decl[i][1]
            \/ t.impl[i] = Null /\ OwnDeeds(t, a) # {}
        BY <1>1, <2>2, <2>3, <2>10, <3>2 DEF ImplsInv
      <4>2. QED
        BY <2>3, <2>4, <2>5, <3>2, <4>1
    <3>3. QED
      BY <3>1, <3>2
  <2>11. ASSUME NEW i \in Interfaces, n.decl[i] = Null
         PROVE  n.impl[i] \in {Same, Null}
    BY <2>1, <2>2, <2>3, <2>4, <2>7, <2>11 DEF ImplsInv
  <2>12. \A p \in n.cascade : p[1] # a
    BY <1>3, <2>2 DEF ImplsInv
  <2>13. OwnDeeds(n, a) = {} =>
            /\ impl[a] = n.impls /\ (\A p \in n.counted : p[1] = a)
            /\ \A i \in n.left : n.impl[i] = Same
    BY <1>3, <2>2, <2>3, <2>4, <2>5, <2>8 DEF ImplsInv
  <2>14. ImplsInv(n, a, impl[a])
    BY <2>6, <2>9, <2>10, <2>11, <2>12, <2>13 DEF ImplsInv
  <2>15. QED
    BY <1>1, <1>3, <2>14, ElsewhereStep DEF Updating
<1>4. QED
  BY <1>1, <1>2, <1>3, SaveImplementationEffect

LEMMA InvReap ==
    ASSUME RegistryInv, NEW a \in Agents, Reap(a)
    PROVE  RegistryInv'
<1>1. PICK t, n : t = tx[a] /\ n = tx'[a]
  OBVIOUS
<1>2. CASE Abort(a)
  BY <1>2, AbortStep
<1>3. CASE /\ Local(a) /\ KeepsPlace(n, t) /\ KeepsPorts(n, t) /\ t.pc = "reap" /\ n.pc = "commit"
           /\ n.impl = [j \in Interfaces |-> IF j \in Stale(a) THEN Null ELSE t.impl[j]]
           /\ n.cascade = t.cascade /\ n.counted = t.counted
  <2>1. t.pc \notin Taking /\ t.pc \in Steps /\ n.pc \notin Taking
        /\ n.pc \notin Taking \ {"action"} /\ n.pc \notin Taking \ {"save"}
    BY <1>3 DEF Taking, Steps
  <2>2. t \in TxRecords /\ ImplsInv(t, a, impl[a])
    BY <1>1, <2>1, UnderWay
  <2>3. n.decl = t.decl /\ n.cur = t.cur /\ n.left = t.left /\ n.impls = t.impls /\ n.since = t.since
    BY <1>1, <1>3 DEF Local, Keeps, KeepsPlace
  <2>4. OwnDeeds(n, a) = OwnDeeds(t, a)
    BY <2>3 DEF OwnDeeds
  <2>5. n.left = {}
    BY <1>3, <2>2, <2>3 DEF ImplsInv
  <2>6. ASSUME NEW i \in Interfaces, n.decl[i] # Null
        PROVE  \/ n.impl[i] \in Impls /\ n.impl[i].key = n.decl[i][1]
               \/ n.impl[i] = Null /\ OwnDeeds(n, a) # {}
    <3>1. \/ t.impl[i] \in Impls /\ t.impl[i].key = t.decl[i][1]
          \/ t.impl[i] = Null /\ OwnDeeds(t, a) # {}
      BY <2>1, <2>2, <2>3, <2>5, <2>6 DEF ImplsInv
    <3>2. i \notin Stale(a)
      BY <1>1, <2>3, <2>6 DEF Stale
    <3>3. n.impl[i] = t.impl[i]
      BY <1>3, <3>2
    <3>4. QED
      BY <2>3, <2>4, <3>1, <3>3
  <2>7. ASSUME NEW i \in Interfaces, n.decl[i] = Null
        PROVE  n.impl[i] = Null \/ (n.impl[i] = Same /\ impl[a][i] = Null)
    <3>1. t.impl[i] \in {Same, Null}
      BY <1>3, <2>2, <2>3, <2>7 DEF ImplsInv
    <3>2. t.impl[i] = Same /\ i \notin Stale(a) => impl[a][i] = Null
      BY <1>1, <2>3, <2>7 DEF Stale, SeesImpl
    <3>3. QED
      BY <1>3, <3>1, <3>2
  <2>8. \A p \in n.cascade : p[1] # a
    BY <1>3, <2>2 DEF ImplsInv
  <2>9. OwnDeeds(n, a) = {} => impl[a] = n.impls /\ \A p \in n.counted : p[1] = a
    BY <1>3, <2>2, <2>3, <2>4 DEF ImplsInv
  <2>10. ImplsInv(n, a, impl[a])
    BY <1>3, <2>1, <2>5, <2>6, <2>7, <2>8, <2>9 DEF ImplsInv
  <2>11. QED
    BY <1>1, <1>3, <2>10, ElsewhereStep DEF Updating
<1>4. QED
  BY <1>1, <1>2, <1>3, ReapEffect
-----------------------------------------------------------------------------
(* Steps of others. *)

\* The registration t, while others do deeds.
Disturbed(t, deeds) == [t EXCEPT !.alone = FALSE, !.since = @ \cup deeds]

LEMMA DisturbedRecord ==
    ASSUME NEW t \in TxRecords, NEW deeds \in SUBSET Deeds, NEW n, n = Disturbed(t, deeds)
    PROVE  /\ n \in TxRecords /\ n.pc = t.pc /\ n.decl = t.decl /\ n.left = t.left
           /\ n.cur = t.cur /\ n.actions = t.actions /\ n.impls = t.impls
           /\ n.act = t.act /\ n.impl = t.impl
           /\ n.dropped = t.dropped /\ n.built = t.built /\ n.collected = t.collected
           /\ n.cascade = t.cascade /\ n.counted = t.counted
           /\ n.since = t.since \cup deeds
BY DEF Disturbed, TxRecords

\* What a registration knows of the ports survives, for others do not build ports it
\* builds itself.
LEMMA DisturbedPorts ==
    ASSUME NEW t \in TxRecords, NEW deeds \in SUBSET Deeds, NEW reg, NEW k, NEW ps, NEW qs, NEW lg,
           PortsInv(t, reg, k, ps, lg),
           ~lg /\ t.built[k] # {} => qs = ps
    PROVE  PortsInv(Disturbed(t, deeds), reg, k, qs, lg)
<1>1. PICK n : n = Disturbed(t, deeds)
  OBVIOUS
<1>2. /\ n.pc = t.pc /\ n.decl = t.decl /\ n.cur = t.cur /\ n.actions = t.actions
      /\ n.act = t.act /\ n.dropped = t.dropped /\ n.built = t.built
  BY <1>1, DisturbedRecord
<1>3. Updates(n, k) <=> Updates(t, k)
  BY <1>2 DEF Updates
<1>4. PortsInv(n, reg, k, qs, lg)
  BY <1>2, <1>3 DEF PortsInv
<1>5. QED
  BY <1>1, <1>4

\* So does what it knows of its implementations, if it is told of those that others take
\* away or write back.
LEMMA DisturbedImpls ==
    ASSUME NEW t \in TxRecords, NEW deeds \in SUBSET Deeds, NEW a \in Agents, NEW im, NEW jm,
           ImplsInv(t, a, im),
           (\A d \in deeds : d[2][1] # a) => jm = im,
           \A j \in Interfaces : im[j] = Null => jm[j] = Null \/ <<"revived", <<a, j>>>> \in deeds
    PROVE  ImplsInv(Disturbed(t, deeds), a, jm)
<1>1. PICK n : n = Disturbed(t, deeds)
  OBVIOUS
<1>2. /\ n \in TxRecords /\ n.pc = t.pc /\ n.decl = t.decl /\ n.left = t.left
      /\ n.cur = t.cur /\ n.actions = t.actions /\ n.impls = t.impls
      /\ n.impl = t.impl /\ n.collected = t.collected /\ n.cascade = t.cascade
      /\ n.counted = t.counted /\ n.since = t.since \cup deeds
  BY <1>1, DisturbedRecord
<1>3. OwnDeeds(n, a) = {} => OwnDeeds(t, a) = {} /\ jm = im
  <2>1. OwnDeeds(n, a) = {} => \A d \in t.since \cup deeds : d[2][1] # a
    BY <1>2 DEF OwnDeeds
  <2>2. OwnDeeds(n, a) = {} => OwnDeeds(t, a) = {}
    BY <2>1 DEF OwnDeeds
  <2>3. QED
    BY <2>1, <2>2
<1>4. \A j \in Interfaces : n.decl[j] = Null /\ n.pc = "commit" =>
         \/ n.impl[j] = Null
         \/ n.impl[j] = Same /\ (jm[j] = Null \/ <<"revived", <<a, j>>>> \in n.since)
  BY <1>2 DEF ImplsInv
<1>5. ASSUME NEW j \in Interfaces, n.decl[j] # Null, j \notin n.left, ~(n.pc \in Taking /\ j = n.cur)
      PROVE  \/ n.impl[j] \in Impls /\ n.impl[j].key = n.decl[j][1]
             \/ n.impl[j] = Null /\ OwnDeeds(n, a) # {}
  <2>1. \/ t.impl[j] \in Impls /\ t.impl[j].key = t.decl[j][1]
        \/ t.impl[j] = Null /\ OwnDeeds(t, a) # {}
    BY <1>2, <1>5 DEF ImplsInv
  <2>2. QED
    BY <1>2, <1>3, <2>1
<1>6. ASSUME OwnDeeds(n, a) = {}
      PROVE  /\ jm = n.impls /\ (\A p \in n.counted : p[1] = a)
             /\ \A j \in n.left : n.impl[j] = Same
             /\ n.pc \in Taking \ {"save"} => n.impl[n.cur] = Same
             /\ n.pc = "collect" => \A i \in Interfaces \ {n.cur} :
                   ~Uses(Seen(n, jm, i), n.impls[n.cur].key, n.impls[n.cur].action)
             /\ n.pc = "drop" => \A x \in n.collected : x[1][1] = a => x[1][2] = n.cur
  <2>1. OwnDeeds(t, a) = {} /\ jm = im
    BY <1>3, <1>6
  <2>2. \A i : Seen(n, jm, i) = Seen(t, im, i)
    BY <1>2, <2>1 DEF Seen
  <2>3. QED
    BY <1>2, <2>1, <2>2 DEF ImplsInv
<1>7. ImplsInv(n, a, jm)
  BY <1>2, <1>4, <1>5, <1>6 DEF ImplsInv
<1>8. QED
  BY <1>1, <1>7

LEMMA DisturbIs ==
    ASSUME Typed, NEW x, NEW deeds \in SUBSET Deeds, NEW f, f = Disturb(tx, x, deeds)
    PROVE  /\ f \in [Agents -> TxRecords \cup {Idle}]
           /\ \A b \in Agents : f[b] = IF b # x /\ Active(b) THEN Disturbed(tx[b], deeds) ELSE tx[b]
<1>1. f = [b \in Agents |-> IF b # x /\ Active(b) THEN Disturbed(tx[b], deeds) ELSE tx[b]]
  BY DEF Disturb, Disturbed, Active
<1>2. \A b \in Agents : f[b] = IF b # x /\ Active(b) THEN Disturbed(tx[b], deeds) ELSE tx[b]
  BY <1>1
<1>3. ASSUME NEW b \in Agents
      PROVE  f[b] \in TxRecords \cup {Idle}
  <2>1. CASE b # x /\ Active(b)
    <3>1. tx[b] \in TxRecords
      BY <2>1, ActiveIsRecord
    <3>2. Disturbed(tx[b], deeds) \in TxRecords
      BY <3>1, DisturbedRecord
    <3>3. QED
      BY <1>2, <2>1, <3>2
  <2>2. CASE ~(b # x /\ Active(b))
    BY <1>2, <2>2 DEF Typed
  <2>3. QED
    BY <2>1, <2>2
<1>4. QED
  BY <1>1, <1>2, <1>3

LEMMA DisturbedStaysActive ==
    ASSUME Typed, NEW x, NEW deeds \in SUBSET Deeds, tx' = Disturb(tx, x, deeds)
    PROVE  \A b \in Agents : /\ Active(b)' <=> Active(b)
                             /\ Active(b) => tx'[b].act = tx[b].act
<1>1. SUFFICES ASSUME NEW b \in Agents
               PROVE  (Active(b)' <=> Active(b)) /\ (Active(b) => tx'[b].act = tx[b].act)
  OBVIOUS
<1>2. tx'[b] = IF b # x /\ Active(b) THEN Disturbed(tx[b], deeds) ELSE tx[b]
  BY DisturbIs
<1>3. CASE Active(b)
  <2>1. tx[b] \in TxRecords
    BY <1>3, ActiveIsRecord
  <2>2. Disturbed(tx[b], deeds).pc = tx[b].pc /\ Disturbed(tx[b], deeds).act = tx[b].act
    BY <2>1, DisturbedRecord
  <2>3. QED
    BY <1>2, <1>3, <2>2 DEF Active
<1>4. CASE ~Active(b)
  BY <1>2, <1>4 DEF Active
<1>5. QED
  BY <1>3, <1>4

\* A user's step keeps the invariant if it records what it did to the implementations.
LEMMA UserStep ==
    ASSUME RegistryInv, NEW deeds \in SUBSET Deeds, tx' = Disturb(tx, Null, deeds),
           act' = act, ports' = ports, regs' = regs, legacy' = legacy, declared' = declared,
           since' = since \cup deeds,
           impl' \in [Agents -> [Interfaces -> Impls \cup {Null}]],
           pin' = Null \/ (pin'.of \in Pairs /\ pin'.row \in Impls),
           \A b \in Agents : (\A d \in deeds : d[2][1] # b) => impl'[b] = impl[b],
           \A b \in Agents, j \in Interfaces :
               \/ impl'[b][j] = impl[b][j]
               \/ impl'[b][j] = Null /\ <<"deleted", <<b, j>>>> \in deeds
               \/ <<"revived", <<b, j>>>> \in deeds
    PROVE  RegistryInv'
<1>1. Typed /\ CommittedInv /\ Exclusive /\ (\A b \in Agents : TxInv(b)) /\ RegisteredIsDeclared
  BY DEF RegistryInv
<1>2. tx' \in [Agents -> TxRecords \cup {Idle}]
  BY <1>1, DisturbIs
<1>3. \A b \in Agents : Active(b) => tx'[b] = Disturbed(tx[b], deeds)
  BY <1>1, DisturbIs, RowFacts
<1>4. \A b \in Agents : /\ Active(b)' <=> Active(b)
                        /\ Active(b) => tx'[b].act = tx[b].act
  BY <1>1, DisturbedStaysActive
<1>5. Typed'
  BY <1>1, <1>2 DEF Typed
<1>6. CommittedInv'
  BY <1>1, <1>4 DEF CommittedInv, Tagged
<1>7. Exclusive'
  BY <1>1, <1>4 DEF Exclusive
<1>8. ASSUME NEW b \in Agents
      PROVE  TxInv(b)'
  <2> SUFFICES ASSUME Active(b)
               PROVE  /\ regs[b] >= 1
                      /\ \A k \in Keys : PortsInv(tx'[b], <<b, regs[b]>>, k, ports[k], legacy)
                      /\ ImplsInv(tx'[b], b, impl'[b])
    BY <1>4 DEF TxInv
  <2>1. tx[b] \in TxRecords /\ tx'[b] = Disturbed(tx[b], deeds)
    BY <1>1, <1>3, ActiveIsRecord
  <2>2. /\ regs[b] >= 1 /\ ImplsInv(tx[b], b, impl[b])
        /\ \A k \in Keys : PortsInv(tx[b], <<b, regs[b]>>, k, ports[k], legacy)
    BY <1>1 DEF TxInv
  <2>3. \A k \in Keys : PortsInv(tx'[b], <<b, regs[b]>>, k, ports[k], legacy)
    BY <2>1, <2>2, DisturbedPorts
  <2>4. \A j \in Interfaces : impl[b][j] = Null => impl'[b][j] = Null \/ <<"revived", <<b, j>>>> \in deeds
    OBVIOUS
  <2>5. (\A d \in deeds : d[2][1] # b) => impl'[b] = impl[b]
    OBVIOUS
  <2>6. ImplsInv(tx'[b], b, impl'[b])
    BY <2>1, <2>2, <2>4, <2>5, DisturbedImpls
  <2>7. QED
    BY <2>2, <2>3, <2>6
<1>9. RegisteredIsDeclared'
  <2> SUFFICES ASSUME NEW p \in Pairs, declared[p[1]] # Null, <<"revived", p>> \notin since \cup deeds
               PROVE  \/ /\ impl'[p[1]][p[2]] = Null
                         /\ \/ declared[p[1]][p[2]] = Null
                            \/ {<<"deleted", p>>, <<"lost", p>>} \cap (since \cup deeds) # {}
                      \/ /\ impl'[p[1]][p[2]] # Null /\ declared[p[1]][p[2]] # Null
                         /\ impl'[p[1]][p[2]].key = declared[p[1]][p[2]][1]
    BY DEF RegisteredIsDeclared
  <2>1. PICK b \in Agents, j \in Interfaces : p = <<b, j>>
    BY DEF Pairs
  <2>2. p[1] = b /\ p[2] = j
    BY <2>1
  <2>3. \/ /\ impl[b][j] = Null
           /\ declared[b][j] = Null \/ {<<"deleted", p>>, <<"lost", p>>} \cap since # {}
        \/ impl[b][j] # Null /\ declared[b][j] # Null /\ impl[b][j].key = declared[b][j][1]
    BY <1>1, <2>2 DEF RegisteredIsDeclared
  <2>4. impl'[b][j] = impl[b][j] \/ (impl'[b][j] = Null /\ <<"deleted", p>> \in deeds)
    BY <2>1
  <2>5. QED
    BY <2>2, <2>3, <2>4
<1>10. QED
  BY <1>5, <1>6, <1>7, <1>8, <1>9 DEF RegistryInv

LEMMA InvDeleteImplementation ==
    ASSUME RegistryInv, NEW p \in Pairs, DeleteImplementation(p)
    PROVE  RegistryInv'
<1>1. PICK b \in Agents, j \in Interfaces : p = <<b, j>>
  BY DEF Pairs
<1>2. p[1] = b /\ p[2] = j
  BY <1>1
<1>3. PICK deeds : deeds = {<<"deleted", p>>}
  OBVIOUS
<1>4. Typed
  BY DEF RegistryInv
<1>5. deeds \in SUBSET Deeds /\ tx' = Disturb(tx, Null, deeds) /\ since' = since \cup deeds
  BY <1>3 DEF DeleteImplementation, Deeds
<1>6. /\ act' = act /\ ports' = ports /\ regs' = regs /\ legacy' = legacy /\ declared' = declared
      /\ pin' = pin /\ impl' = [impl EXCEPT ![b][j] = Null]
  BY <1>2 DEF DeleteImplementation
<1>7. impl \in [Agents -> [Interfaces -> Impls \cup {Null}]]
  BY <1>4 DEF Typed
<1>8. impl' \in [Agents -> [Interfaces -> Impls \cup {Null}]]
  BY <1>6, <1>7
<1>9. pin' = Null \/ (pin'.of \in Pairs /\ pin'.row \in Impls)
  BY <1>4, <1>6 DEF Typed
<1>10. /\ impl'[b][j] = Null /\ \A c \in Agents \ {b} : impl'[c] = impl[c]
       /\ \A i \in Interfaces \ {j} : impl'[b][i] = impl[b][i]
  BY <1>6, <1>7
<1>11. <<"deleted", p>> \in deeds /\ <<"deleted", p>>[2][1] = b
  BY <1>2, <1>3
<1>12. \A c \in Agents : (\A d \in deeds : d[2][1] # c) => impl'[c] = impl[c]
  BY <1>10, <1>11
<1>13. \A c \in Agents, i \in Interfaces :
            \/ impl'[c][i] = impl[c][i]
            \/ impl'[c][i] = Null /\ <<"deleted", <<c, i>>>> \in deeds
            \/ <<"revived", <<c, i>>>> \in deeds
  BY <1>1, <1>10, <1>11
<1>14. QED
  BY <1>5, <1>6, <1>8, <1>9, <1>12, <1>13, UserStep

LEMMA InvPinRead ==
    ASSUME RegistryInv, NEW p \in Pairs, PinRead(p)
    PROVE  RegistryInv'
<1>1. PICK b \in Agents, j \in Interfaces : p = <<b, j>>
  BY DEF Pairs
<1>2. p[1] = b /\ p[2] = j
  BY <1>1
<1>3. PICK deeds : deeds = {}
  OBVIOUS
<1>4. Typed
  BY DEF RegistryInv
<1>5. deeds \in SUBSET Deeds /\ tx' = Disturb(tx, Null, deeds) /\ since' = since \cup deeds
  BY <1>3 DEF PinRead
<1>6. /\ act' = act /\ ports' = ports /\ regs' = regs /\ legacy' = legacy /\ declared' = declared
      /\ impl' = impl /\ pin' = [of |-> p, row |-> impl[b][j]] /\ impl[b][j] # Null
  BY <1>2 DEF PinRead, db
<1>7. impl \in [Agents -> [Interfaces -> Impls \cup {Null}]]
  BY <1>4 DEF Typed
<1>8. impl' \in [Agents -> [Interfaces -> Impls \cup {Null}]] /\ impl[b][j] \in Impls
  BY <1>6, <1>7
<1>9. pin' = Null \/ (pin'.of \in Pairs /\ pin'.row \in Impls)
  BY <1>6, <1>8
<1>10. \A c \in Agents : (\A d \in deeds : d[2][1] # c) => impl'[c] = impl[c]
  BY <1>6
<1>11. \A c \in Agents, i \in Interfaces :
            \/ impl'[c][i] = impl[c][i]
            \/ impl'[c][i] = Null /\ <<"deleted", <<c, i>>>> \in deeds
            \/ <<"revived", <<c, i>>>> \in deeds
  BY <1>6
<1>12. QED
  BY <1>5, <1>6, <1>8, <1>9, <1>10, <1>11, UserStep

LEMMA InvPinSave ==
    ASSUME RegistryInv, PinSave
    PROVE  RegistryInv'
<1>1. Typed /\ pin # Null
  BY DEF RegistryInv, PinSave
<1>2. PICK b \in Agents, j \in Interfaces : pin.of = <<b, j>>
  BY <1>1 DEF Typed, Pairs
<1>3. pin.of[1] = b /\ pin.of[2] = j /\ pin.row \in Impls
  BY <1>1, <1>2 DEF Typed
<1>4. /\ act' = act /\ ports' = ports /\ regs' = regs /\ legacy' = legacy /\ declared' = declared
      /\ pin' = Null
  BY DEF PinSave
<1>5. impl \in [Agents -> [Interfaces -> Impls \cup {Null}]]
  BY <1>1 DEF Typed
<1>6. ASSUME impl' = [impl EXCEPT ![b][j] = pin.row], since' = since \cup {<<"revived", pin.of>>},
             tx' = Disturb(tx, Null, {<<"revived", pin.of>>})
      PROVE  RegistryInv'
  <2>1. PICK deeds : deeds = {<<"revived", pin.of>>}
    OBVIOUS
  <2>2. deeds \in SUBSET Deeds /\ tx' = Disturb(tx, Null, deeds) /\ since' = since \cup deeds
    BY <1>2, <1>6, <2>1 DEF Deeds, Pairs
  <2>3. impl' \in [Agents -> [Interfaces -> Impls \cup {Null}]]
    BY <1>3, <1>5, <1>6
  <2>4. /\ \A c \in Agents \ {b} : impl'[c] = impl[c]
        /\ \A i \in Interfaces \ {j} : impl'[b][i] = impl[b][i]
    BY <1>5, <1>6
  <2>5. <<"revived", <<b, j>>>> \in deeds /\ <<"revived", <<b, j>>>>[2][1] = b
    BY <1>2, <2>1
  <2>6. \A c \in Agents : (\A d \in deeds : d[2][1] # c) => impl'[c] = impl[c]
    BY <2>4, <2>5
  <2>7. \A c \in Agents, i \in Interfaces :
            \/ impl'[c][i] = impl[c][i]
            \/ impl'[c][i] = Null /\ <<"deleted", <<c, i>>>> \in deeds
            \/ <<"revived", <<c, i>>>> \in deeds
    BY <2>4, <2>5
  <2>8. QED
    BY <1>4, <2>2, <2>3, <2>6, <2>7, UserStep
<1>7. ASSUME impl' = impl, since' = since, tx' = Disturb(tx, Null, {})
      PROVE  RegistryInv'
  <2>1. PICK deeds : deeds = {}
    OBVIOUS
  <2>2. deeds \in SUBSET Deeds /\ tx' = Disturb(tx, Null, deeds) /\ since' = since \cup deeds
    BY <1>7, <2>1
  <2>3. \A c \in Agents : (\A d \in deeds : d[2][1] # c) => impl'[c] = impl[c]
    BY <1>7
  <2>4. \A c \in Agents, i \in Interfaces :
            \/ impl'[c][i] = impl[c][i]
            \/ impl'[c][i] = Null /\ <<"deleted", <<c, i>>>> \in deeds
            \/ <<"revived", <<c, i>>>> \in deeds
    BY <1>7
  <2>5. impl' \in [Agents -> [Interfaces -> Impls \cup {Null}]]
    BY <1>5, <1>7
  <2>6. QED
    BY <1>4, <2>2, <2>3, <2>4, <2>5, UserStep
<1>8. QED
  BY <1>3, <1>6, <1>7 DEF PinSave
LEMMA InvBegin ==
    ASSUME RegistryInv, NEW a \in Agents, NEW decl \in Declarations, Begin(a, decl)
    PROVE  RegistryInv'
<1>1. PICK f, n :
         /\ f = Disturb(tx, a, {})
         /\ n = [pc |-> "next", decl |-> decl, left |-> {j \in Interfaces : decl[j] # Null},
                 cur |-> Null, alone |-> Undisturbed(a),
                 actions |-> [k \in Keys |-> IF \E j \in Interfaces : decl[j] # Null /\ decl[j][1] = k
                                             THEN act[k] ELSE Null],
                 impls |-> impl[a],
                 act |-> [k \in Keys |-> Same], impl |-> [j \in Interfaces |-> Same],
                 dropped |-> [k \in Keys |-> {}], built |-> [k \in Keys |-> {}],
                 collected |-> {}, cascade |-> {}, counted |-> {}, since |-> {}]
  OBVIOUS
<1>2. Typed /\ CommittedInv /\ Exclusive /\ (\A b \in Agents : TxInv(b)) /\ RegisteredIsDeclared
  BY DEF RegistryInv
<1>3. /\ act' = act /\ ports' = ports /\ impl' = impl /\ pin' = pin
      /\ legacy' = legacy /\ declared' = declared /\ since' = since
      /\ regs' = [regs EXCEPT ![a] = @ + 1] /\ ~Active(a) /\ regs[a] < MaxRegs
  BY DEF Begin, db, history
<1>4. tx' = [f EXCEPT ![a] = n]
  BY <1>1 DEF Begin
<1>5. /\ act \in [Keys -> Actions \cup {Null}] /\ ports \in [Keys -> SUBSET Copies]
      /\ impl \in [Agents -> [Interfaces -> Impls \cup {Null}]]
      /\ regs \in [Agents -> 0 .. MaxRegs]
  BY <1>2 DEF Typed
<1>6. /\ f \in [Agents -> TxRecords \cup {Idle}]
      /\ \A b \in Agents : f[b] = IF b # a /\ Active(b) THEN Disturbed(tx[b], {}) ELSE tx[b]
  BY <1>1, <1>2, DisturbIs
<1>7. /\ n.pc = "next" /\ n.decl = decl /\ n.left = {j \in Interfaces : decl[j] # Null}
      /\ n.cur = Null /\ n.impls = impl[a] /\ n.cascade = {} /\ n.counted = {} /\ n.since = {}
      /\ \A k \in Keys : /\ n.actions[k] = Null \/ n.actions[k] = act[k]
                         /\ n.act[k] = Same /\ n.dropped[k] = {} /\ n.built[k] = {}
      /\ \A j \in Interfaces : n.impl[j] = Same
  BY <1>1
<1>8. n \in TxRecords
  <2>1. decl \in Decls
    BY RegistryAssumption DEF Decls
  <2>2. Undisturbed(a) \in BOOLEAN
    BY DEF Undisturbed
  <2>3. [k \in Keys |-> IF \E j \in Interfaces : decl[j] # Null /\ decl[j][1] = k THEN act[k] ELSE Null]
            \in [Keys -> Actions \cup {Null}]
    BY <1>5
  <2>4. impl[a] \in [Interfaces -> Impls \cup {Null}]
    BY <1>5
  <2>5. QED
    BY <1>1, <2>1, <2>2, <2>3, <2>4 DEF TxRecords, Steps
<1>9. tx'[a] = n /\ \A b \in Agents \ {a} : tx'[b] = f[b]
  BY <1>4, <1>6
<1>10. regs'[a] = regs[a] + 1 /\ regs'[a] \in 1 .. MaxRegs /\ \A b \in Agents \ {a} : regs'[b] = regs[b]
  BY <1>3, <1>5, RegistryAssumption
<1>11. Typed'
  <2>1. tx' \in [Agents -> TxRecords \cup {Idle}]
    BY <1>4, <1>6, <1>8
  <2>2. regs' \in [Agents -> 0 .. MaxRegs]
    BY <1>3, <1>5, <1>10, RegistryAssumption
  <2>3. QED
    BY <1>2, <1>3, <2>1, <2>2 DEF Typed
<1>12. /\ Active(a)'
       /\ \A b \in Agents \ {a} : /\ Active(b)' <=> Active(b)
                                  /\ Active(b) => /\ tx[b] \in TxRecords
                                                  /\ tx'[b] = Disturbed(tx[b], {})
                                                  /\ tx'[b].act = tx[b].act
  <2>1. Active(a)'
    BY <1>7, <1>9 DEF Active
  <2>2. ASSUME NEW b \in Agents \ {a}, Active(b)
        PROVE  /\ Active(b)' /\ tx[b] \in TxRecords /\ tx'[b] = Disturbed(tx[b], {})
               /\ tx'[b].act = tx[b].act
    <3>1. tx[b] \in TxRecords /\ tx'[b] = Disturbed(tx[b], {})
      BY <1>2, <1>6, <1>9, <2>2, ActiveIsRecord
    <3>2. {} \in SUBSET Deeds
      OBVIOUS
    <3>3. tx'[b].pc = tx[b].pc /\ tx'[b].act = tx[b].act
      BY <3>1, <3>2, DisturbedRecord
    <3>4. QED
      BY <2>2, <3>1, <3>3 DEF Active
  <2>3. ASSUME NEW b \in Agents \ {a}, ~Active(b)
        PROVE  ~Active(b)'
    BY <1>6, <1>9, <2>3 DEF Active
  <2>4. QED
    BY <2>1, <2>2, <2>3
<1>13. CommittedInv'
  <2>1. ASSUME NEW k \in Keys
        PROVE  Tagged(ports[k])'
    <3>1. Tagged(ports[k])
      BY <1>2 DEF CommittedInv
    <3>2. ASSUME NEW c \in ports[k], NEW b \in Agents, NEW i \in 0 .. MaxRegs, c.by = <<b, i>>
          PROVE  i <= regs'[b] /\ (Active(b)' => i < regs'[b])
      <4>1. i <= regs[b] /\ (Active(b) => i < regs[b])
        BY <3>1, <3>2 DEF Tagged
      <4>2. regs[b] \in Nat /\ i \in Nat
        BY <1>5
      <4>3. CASE b = a
        BY <1>10, <4>1, <4>2, <4>3
      <4>4. CASE b # a
        BY <1>10, <1>12, <4>1, <4>4
      <4>5. QED
        BY <4>3, <4>4
    <3>3. IsFiniteSet(ports[k]) /\ ports'[k] = ports[k]
      BY <1>3, <3>1 DEF Tagged
    <3>4. QED
      BY <3>2, <3>3 DEF Tagged
  <2>2. QED
    BY <1>2, <1>3, <2>1 DEF CommittedInv
<1>14. Exclusive'
  <2> SUFFICES ASSUME NEW b \in Agents, NEW c \in Agents, b # c, Active(b)', Active(c)',
                      NEW k \in Keys
               PROVE  tx'[b].act[k] = Same \/ tx'[c].act[k] = Same
    BY DEF Exclusive
  <2>1. CASE b = a \/ c = a
    BY <1>7, <1>9, <2>1
  <2>2. CASE b # a /\ c # a
    BY <1>2, <1>12, <2>2 DEF Exclusive
  <2>3. QED
    BY <2>1, <2>2
<1>15. ASSUME NEW b \in Agents
       PROVE  TxInv(b)'
  <2>1. CASE b = a
    <3>1. ASSUME NEW k \in Keys
          PROVE  PortsInv(n, <<a, regs'[a]>>, k, ports[k], legacy)
      <4>1. ~Updates(n, k)
        BY <1>7 DEF Updates, Updating
      <4>2. Committed(act[k], ports[k], legacy)
        BY <1>2 DEF CommittedInv
      <4>3. ~legacy /\ n.actions[k] # Null => n.actions[k].current
        BY <1>7, <4>2 DEF Committed
      <4>4. IsFiniteSet(n.built[k])
        BY <1>7, FS_EmptySet
      <4>5. QED
        BY <1>7, <4>1, <4>3, <4>4 DEF PortsInv
    <3>2. ImplsInv(n, a, impl[a])
      <4>1. n.pc \notin Taking /\ n.pc \notin Taking \ {"action"} /\ n.pc \notin Taking \ {"save"}
        BY <1>7 DEF Taking
      <4>2. QED
        BY <1>7, <4>1 DEF ImplsInv
    <3>3. QED
      BY <1>3, <1>9, <1>10, <2>1, <3>1, <3>2 DEF TxInv
  <2>2. CASE b # a /\ Active(b)
    <3>1. /\ regs[b] >= 1 /\ ImplsInv(tx[b], b, impl[b])
          /\ \A k \in Keys : PortsInv(tx[b], <<b, regs[b]>>, k, ports[k], legacy)
      BY <1>2, <2>2 DEF TxInv
    <3>2. tx[b] \in TxRecords /\ tx'[b] = Disturbed(tx[b], {}) /\ {} \in SUBSET Deeds
      BY <1>12, <2>2
    <3>3. \A k \in Keys : PortsInv(tx'[b], <<b, regs[b]>>, k, ports[k], legacy)
      BY <3>1, <3>2, DisturbedPorts
    <3>4. ImplsInv(tx'[b], b, impl[b])
      BY <3>1, <3>2, DisturbedImpls
    <3>5. QED
      BY <1>3, <1>10, <2>2, <3>1, <3>3, <3>4 DEF TxInv
  <2>3. CASE b # a /\ ~Active(b)
    BY <1>12, <2>3 DEF TxInv
  <2>4. QED
    BY <2>1, <2>2, <2>3
<1>16. RegisteredIsDeclared'
  BY <1>2, <1>3 DEF RegisteredIsDeclared
<1>17. QED
  BY <1>11, <1>13, <1>14, <1>15, <1>16 DEF RegistryInv

LEMMA InvInit == Init => RegistryInv
<1> SUFFICES ASSUME Init
             PROVE  RegistryInv
  OBVIOUS
<1>1. PICK b : b = Before
  OBVIOUS
<1>2. b \in Definitions /\ b[1] \in Keys /\ b[2] \in Hashes
  <2>1. b \in Keys \X Hashes \X BOOLEAN /\ b \in Definitions
    BY <1>1, RegistryAssumption
  <2>2. QED
    BY <2>1
<1>3. Null \in Pks
  BY DEF Pks
<1>4. /\ legacy \in BOOLEAN
      /\ \A k \in Keys : act[k] = IF k # b[1] THEN Null
                                  ELSE [pk |-> Null, hash |-> b[2], current |-> ~legacy]
      /\ \A k \in Keys : ports[k] = IF k # b[1] \/ legacy THEN {} ELSE {[by |-> Null, hash |-> b[2]]}
      /\ act \in [Keys -> Actions \cup {Null}] /\ ports \in [Keys -> SUBSET Copies]
  <2>1. legacy \in BOOLEAN
    BY DEF Init
  <2>2. [pk |-> Null, hash |-> b[2], current |-> ~legacy] \in Actions
    BY <1>2, <1>3, <2>1 DEF Actions
  <2>3. [by |-> Null, hash |-> b[2]] \in Copies
    BY <1>2, <1>3 DEF Copies
  <2>4. act = [k \in Keys |-> IF k # b[1] THEN Null
                              ELSE [pk |-> Null, hash |-> b[2], current |-> ~legacy]]
    BY <1>1 DEF Init
  <2>5. ports = [k \in Keys |-> IF k # b[1] \/ legacy THEN {} ELSE {[by |-> Null, hash |-> b[2]]}]
    BY <1>1 DEF Init
  <2>6. QED
    BY <2>1, <2>2, <2>3, <2>4, <2>5
<1>5. impl \in [Agents -> [Interfaces -> Impls \cup {Null}]]
  <2>1. PICK i \in Interfaces, old \in SUBSET Agents :
           impl = [a \in Agents |-> [j \in Interfaces |->
                      IF a \in old /\ j = i THEN [pk |-> 0, key |-> Before[1], action |-> Null]
                      ELSE Null]]
    BY DEF Init
  <2>2. [pk |-> 0, key |-> Before[1], action |-> Null] \in Impls
    BY <1>1, <1>2, <1>3, RegistryAssumption DEF Impls
  <2>3. QED
    BY <2>1, <2>2
<1>6. /\ tx \in [Agents -> TxRecords \cup {Idle}] /\ \A a \in Agents : ~Active(a)
  BY DEF Init, Active, Idle
<1>7. /\ pin = Null /\ regs = [a \in Agents |-> 0] /\ declared = [a \in Agents |-> Null] /\ since = {}
  BY DEF Init
<1>8. Typed
  <2>1. regs \in [Agents -> 0 .. MaxRegs] /\ declared \in [Agents -> Decls \cup {Null}] /\ since \subseteq Deeds
    BY <1>7, RegistryAssumption
  <2>2. QED
    BY <1>4, <1>5, <1>6, <1>7, <2>1 DEF Typed
<1>9. ASSUME NEW k \in Keys
      PROVE  Committed(act[k], ports[k], legacy) /\ Tagged(ports[k])
  <2>1. CASE k # b[1]
    <3>1. act[k] = Null /\ ports[k] = {}
      BY <1>4, <2>1
    <3>2. QED
      BY <3>1, FS_EmptySet DEF Committed, Tagged
  <2>2. CASE k = b[1]
    <3>1. PICK c : c = [by |-> Null, hash |-> b[2]]
      OBVIOUS
    <3>2. act[k] = [pk |-> Null, hash |-> b[2], current |-> ~legacy] /\ (legacy => ports[k] = {})
          /\ (~legacy => ports[k] = {c})
      BY <1>4, <2>2, <3>1
    <3>3. act[k].hash = b[2] /\ act[k].current = ~legacy /\ c.by = Null /\ c.hash = b[2]
      <4>1. act[k].hash = b[2] /\ c.by = Null /\ c.hash = b[2]
        BY <3>1, <3>2
      <4>2. PICK current : current = ~legacy
        OBVIOUS
      <4>3. act[k] = [pk |-> Null, hash |-> b[2], current |-> current]
        BY <3>2, <4>2, Zenon
      <4>4. act[k].current = current
        BY <4>3
      <4>5. act[k].current = ~legacy
        BY <4>2, <4>4, Zenon
      <4>6. QED
        BY <4>1, <4>5
    <3>4. Committed(act[k], ports[k], legacy)
      <4>1. CASE legacy
        BY <3>2, <3>3, <4>1 DEF Committed
      <4>2. CASE ~legacy
        BY <3>2, <3>3, <4>2 DEF Committed
      <4>3. QED
        BY <1>4, <4>1, <4>2
    <3>5. IsFiniteSet(ports[k])
      <4>1. IsFiniteSet({}) /\ IsFiniteSet({c})
        BY FS_EmptySet, FS_Singleton
      <4>2. ports[k] = {} \/ ports[k] = {c}
        BY <1>4, <3>2
      <4>3. CASE ports[k] = {}
        BY <4>1, <4>3
      <4>4. CASE ports[k] = {c}
        BY <4>1, <4>4
      <4>5. QED
        BY <4>2, <4>3, <4>4
    <3>6. ASSUME NEW d \in ports[k], NEW a \in Agents, NEW i \in 0 .. MaxRegs, d.by = <<a, i>>
          PROVE  i <= regs[a] /\ (Active(a) => i < regs[a])
      <4>1. d.by = Null
        BY <1>4, <3>2, <3>3
      <4>2. i \notin 1 .. MaxRegs
        BY <3>6, <4>1, NoRowAssumption
      <4>3. i = 0
        BY <4>2, RegistryAssumption
      <4>4. QED
        BY <1>6, <1>7, <4>3
    <3>7. QED
      BY <3>4, <3>5, <3>6 DEF Tagged
  <2>3. QED
    BY <2>1, <2>2
<1>10. CommittedInv /\ Exclusive /\ \A a \in Agents : TxInv(a)
  BY <1>6, <1>9 DEF CommittedInv, Exclusive, TxInv
<1>11. RegisteredIsDeclared
  BY <1>7 DEF RegisteredIsDeclared, Pairs
<1>12. QED
  BY <1>8, <1>10, <1>11 DEF RegistryInv
-----------------------------------------------------------------------------
(* The end of a registration. *)

\* What is committed of an action and its ports where the registration t, of agent a, ends.
LEMMA CommitsPorts ==
    ASSUME RegistryInv, NEW a \in Agents, tx[a].pc = "commit", NEW k \in Keys
    PROVE  /\ Committed(SeesAction(a, k), SeesPorts(a, k), legacy)
           /\ ~legacy /\ tx[a].act[k] = Same => SeesPorts(a, k) = ports[k]
           /\ IsFiniteSet(SeesPorts(a, k))
           /\ \A c \in SeesPorts(a, k) : c \in ports[k] \/ c.by = <<a, regs[a]>>
<1>1. PICK t, reg, ps : t = tx[a] /\ reg = <<a, regs[a]>> /\ ps = SeesPorts(a, k)
  OBVIOUS
<1>2. tx[a].pc \in Steps
  BY DEF Steps
<1>3. Typed /\ Active(a) /\ t \in TxRecords /\ PortsInv(t, reg, k, ports[k], legacy)
  BY <1>1, <1>2, UnderWay
<1>4. ~Updates(t, k)
  BY <1>1 DEF Updates, Updating
<1>5. ps = (ports[k] \ t.dropped[k]) \cup t.built[k]
  BY <1>1 DEF SeesPorts
<1>6. Committed(act[k], ports[k], legacy) /\ Tagged(ports[k])
  BY DEF RegistryInv, CommittedInv
<1>7. \A c \in t.built[k] : c.by = reg
  BY <1>3 DEF PortsInv
<1>8. IsFiniteSet(ps)
  <2>1. IsFiniteSet(t.built[k]) /\ IsFiniteSet(ports[k])
    BY <1>3, <1>6 DEF PortsInv, Tagged
  <2>2. IsFiniteSet(ports[k] \ t.dropped[k])
    BY <2>1, FS_Subset
  <2>3. QED
    BY <1>5, <2>1, <2>2, FS_Union
<1>9. t.act[k] = Same => t.built[k] = {} /\ t.dropped[k] = {}
  BY <1>3, <1>4 DEF PortsInv
<1>10. t.act[k] = Same => ps = ports[k]
  BY <1>5, <1>9
<1>11. Committed(SeesAction(a, k), ps, legacy)
  <2>1. CASE t.act[k] = Same
    BY <1>1, <1>6, <1>10, <2>1 DEF SeesAction
  <2>2. CASE t.act[k] = Null
    BY <1>1, <2>2, RowFacts DEF SeesAction, Committed
  <2>3. CASE t.act[k] \notin {Same, Null}
    <3>1. PICK r, c : r = t.act[k] /\ c = Copy(reg, t.act[k].hash)
      OBVIOUS
    <3>2. SeesAction(a, k) = r /\ r.current /\ t.built[k] = {c}
      BY <1>1, <1>3, <1>4, <2>3, <3>1 DEF SeesAction, PortsInv
    <3>3. c.by = reg /\ c.hash = r.hash /\ c \in ps
      BY <1>5, <3>1, <3>2 DEF Copy
    <3>4. CASE ports[k] \subseteq t.dropped[k]
      <4>1. ps = {c}
        BY <1>5, <3>2, <3>4
      <4>2. QED
        BY <3>2, <3>3, <4>1 DEF Committed
    <3>5. CASE ~(ports[k] \subseteq t.dropped[k])
      <4>1. legacy
        BY <1>3, <3>2, <3>5 DEF PortsInv
      <4>2. PICK x \in ports[k] : x \in ps
        BY <1>5, <3>5
      <4>3. x # c
        <5>1. x.by # reg
          <6>1. regs[a] \in 0 .. MaxRegs
            BY <1>3 DEF Typed
          <6>2. x.by = <<a, regs[a]>> => regs[a] < regs[a]
            BY <1>3, <1>6, <6>1 DEF Tagged
          <6>3. QED
            BY <1>1, <6>1, <6>2
        <5>2. QED
          BY <3>3, <5>1
      <4>4. Cardinality(ps) > 1
        BY <1>8, <3>3, <4>2, <4>3, TwoAreMore
      <4>5. QED
        BY <3>2, <4>1, <4>4 DEF Committed
    <3>6. QED
      BY <3>4, <3>5
  <2>4. QED
    BY <2>1, <2>2, <2>3
<1>12. QED
  BY <1>1, <1>5, <1>7, <1>8, <1>10, <1>11

\* What a registration takes away, of others and of its own, that others are told at its end.
Lost(a) == {<<"lost", p>> : p \in IF OwnDeeds(tx[a], a) = {} THEN tx[a].cascade \ tx[a].counted
                                   ELSE tx[a].cascade \cup TakenFromItself(a)}

LEMMA LostIsTold ==
    ASSUME RegistryInv, NEW a \in Agents, tx[a].pc = "commit"
    PROVE  /\ \A p \in tx[a].cascade : <<"lost", p>> \in Lost(a) /\ p[1] # a
           /\ OwnDeeds(tx[a], a) # {} => \A p \in TakenFromItself(a) : <<"lost", p>> \in Lost(a)
           /\ \A d \in Lost(a) : d[1] = "lost" /\ (d[2][1] # a => d[2] \in tx[a].cascade)
           /\ Lost(a) \in SUBSET Deeds
<1>1. PICK t, lost, taken :
         /\ t = tx[a] /\ lost = Lost(a) /\ taken = TakenFromItself(a)
         /\ lost = {<<"lost", p>> : p \in IF OwnDeeds(t, a) = {} THEN t.cascade \ t.counted
                                           ELSE t.cascade \cup taken}
  BY DEF Lost
<1>2. tx[a].pc \in Steps
  BY DEF Steps
<1>3. t \in TxRecords /\ ImplsInv(t, a, impl[a])
  BY <1>1, <1>2, UnderWay
<1>4. t.cascade \subseteq Pairs /\ taken \subseteq Pairs /\ \A p \in taken : p[1] = a
  BY <1>1, <1>3, RecordTypes DEF TakenFromItself
<1>5. \A p \in t.cascade : p[1] # a
  BY <1>3 DEF ImplsInv
<1>6. OwnDeeds(t, a) = {} => \A p \in t.counted : p[1] = a
  BY <1>3 DEF ImplsInv
<1>7. ASSUME NEW p \in t.cascade
      PROVE  <<"lost", p>> \in lost
  <2>1. CASE OwnDeeds(t, a) = {}
    <3>1. p \notin t.counted
      BY <1>5, <1>6, <2>1
    <3>2. QED
      BY <1>1, <2>1, <3>1
  <2>2. CASE OwnDeeds(t, a) # {}
    BY <1>1, <2>2
  <2>3. QED
    BY <2>1, <2>2
<1>8. OwnDeeds(t, a) # {} => \A p \in taken : <<"lost", p>> \in lost
  BY <1>1
<1>9. \A d \in lost : \E p \in t.cascade \cup taken : d = <<"lost", p>>
  BY <1>1
<1>10. lost \in SUBSET Deeds
  BY <1>4, <1>9 DEF Deeds
<1>11. \A d \in lost : d[1] = "lost" /\ (d[2][1] # a => d[2] \in t.cascade)
  BY <1>4, <1>9
<1>12. QED
  BY <1>1, <1>5, <1>7, <1>8, <1>10, <1>11

LEMMA InvCommit ==
    ASSUME RegistryInv, NEW a \in Agents, Commit(a)
    PROVE  RegistryInv'
<1>1. CASE Abort(a)
  BY <1>1, AbortStep
<1> SUFFICES ASSUME ~Abort(a)
             PROVE  RegistryInv'
  BY <1>1
<1>2. PICK t, own, lost, f :
         /\ t = tx[a] /\ own = OwnDeeds(t, a) /\ lost = Lost(a) /\ f = Disturb(tx, a, lost)
  OBVIOUS
<1>3. /\ t.pc = "commit" /\ tx[a].pc \in Steps /\ tx[a].pc = "commit"
      /\ act' = [k \in Keys |-> SeesAction(a, k)]
      /\ ports' = [k \in Keys |-> SeesPorts(a, k)]
      /\ impl' = [b \in Agents |-> [j \in Interfaces |-> SeesRow(a, <<b, j>>)]]
      /\ declared' = [declared EXCEPT ![a] = t.decl]
      /\ since' = {d \in since : d[2][1] # a} \cup lost \cup own
      /\ tx' = [f EXCEPT ![a] = Idle]
      /\ pin' = pin /\ regs' = regs /\ legacy' = legacy
  BY <1>2 DEF Commit, At, Steps, OwnDeeds, Lost
<1>4. /\ Typed /\ CommittedInv /\ Exclusive /\ (\A b \in Agents : TxInv(b))
      /\ RegisteredIsDeclared
  BY DEF RegistryInv
<1>5. /\ Active(a) /\ t \in TxRecords
      /\ \A k \in Keys : PortsInv(t, <<a, regs[a]>>, k, ports[k], legacy)
      /\ ImplsInv(t, a, impl[a])
  BY <1>2, <1>3, UnderWay
<1>6. /\ act \in [Keys -> Actions \cup {Null}] /\ ports \in [Keys -> SUBSET Copies]
      /\ impl \in [Agents -> [Interfaces -> Impls \cup {Null}]]
      /\ regs \in [Agents -> 0 .. MaxRegs] /\ since \subseteq Deeds
      /\ declared \in [Agents -> Decls \cup {Null}]
  BY <1>4 DEF Typed
<1>7. /\ \A p \in t.cascade : <<"lost", p>> \in lost /\ p[1] # a
      /\ own # {} => \A p \in TakenFromItself(a) : <<"lost", p>> \in lost
      /\ lost \in SUBSET Deeds
  BY <1>2, <1>3, LostIsTold
<1>8. /\ f \in [Agents -> TxRecords \cup {Idle}]
      /\ \A b \in Agents : f[b] = IF b # a /\ Active(b) THEN Disturbed(tx[b], lost) ELSE tx[b]
  BY <1>2, <1>4, <1>7, DisturbIs
<1>9. /\ ~Active(a)'
      /\ \A b \in Agents : Active(b)' => b # a /\ Active(b)
      /\ \A b \in Agents \ {a} : Active(b) =>
            /\ tx[b] \in TxRecords /\ tx'[b] = Disturbed(tx[b], lost)
            /\ tx'[b].act = tx[b].act
  <2>1. tx'[a] = Idle /\ \A b \in Agents \ {a} : tx'[b] = f[b]
    BY <1>3, <1>8
  <2>2. ~Active(a)'
    BY <2>1 DEF Active, Idle
  <2>3. ASSUME NEW b \in Agents \ {a}, Active(b)
        PROVE  tx[b] \in TxRecords /\ tx'[b] = Disturbed(tx[b], lost) /\ tx'[b].act = tx[b].act
    <3>1. tx[b] \in TxRecords /\ tx'[b] = Disturbed(tx[b], lost)
      BY <1>4, <1>8, <2>1, <2>3, ActiveIsRecord
    <3>2. tx'[b].act = tx[b].act
      BY <1>7, <3>1, DisturbedRecord
    <3>3. QED
      BY <3>1, <3>2
  <2>4. ASSUME NEW b \in Agents \ {a}, ~Active(b)
        PROVE  ~Active(b)'
    BY <1>8, <2>1, <2>4 DEF Active
  <2>5. QED
    BY <2>2, <2>3, <2>4
<1>10. /\ \A k \in Keys : act'[k] = SeesAction(a, k) /\ ports'[k] = SeesPorts(a, k)
       /\ \A j \in Interfaces : impl'[a][j] = SeesImpl(a, j)
       /\ \A b \in Agents \ {a}, j \in Interfaces :
             impl'[b][j] = IF <<b, j>> \in t.cascade THEN Null ELSE impl[b][j]
  BY <1>2, <1>3 DEF SeesRow
\* A row it does not delete is of the type of the rows.
<1>11. /\ \A k \in Keys : SeesAction(a, k) \in Actions \cup {Null} /\ SeesPorts(a, k) \subseteq Copies
       /\ \A j \in Interfaces : SeesImpl(a, j) \in Impls \cup {Null}
  <2>1. /\ t.act \in [Keys -> Actions \cup {Null, Same}]
        /\ t.impl \in [Interfaces -> Impls \cup {Null, Same}]
        /\ t.built \in [Keys -> SUBSET Copies]
    BY <1>5, RecordTypes
  <2>2. \A k \in Keys : SeesAction(a, k) \in Actions \cup {Null}
    BY <1>2, <1>6, <2>1 DEF SeesAction
  <2>3. \A k \in Keys : SeesPorts(a, k) \subseteq Copies
    BY <1>2, <1>6, <2>1 DEF SeesPorts
  <2>4. \A j \in Interfaces : SeesImpl(a, j) \in Impls \cup {Null}
    BY <1>2, <1>6, <2>1 DEF SeesImpl
  <2>5. QED
    BY <2>2, <2>3, <2>4
<1>12. Typed'
  <2>1. act' \in [Keys -> Actions \cup {Null}] /\ ports' \in [Keys -> SUBSET Copies]
    BY <1>3, <1>11
  <2>2. impl' \in [Agents -> [Interfaces -> Impls \cup {Null}]]
    <3>1. \A b \in Agents, j \in Interfaces : SeesRow(a, <<b, j>>) \in Impls \cup {Null}
      <4> SUFFICES ASSUME NEW b \in Agents, NEW j \in Interfaces
                   PROVE  SeesRow(a, <<b, j>>) \in Impls \cup {Null}
        OBVIOUS
      <4>1. <<b, j>> \in Pairs
        BY DEF Pairs
      <4>2. QED
        BY <1>2, <1>4, <1>5, <4>1, SeesRowType
    <3>2. QED
      BY <1>3, <3>1
  <2>3. tx' \in [Agents -> TxRecords \cup {Idle}]
    BY <1>3, <1>8
  <2>4. since' \subseteq Deeds
    <3>1. own \subseteq Deeds
      BY <1>2, <1>5, RecordTypes DEF OwnDeeds
    <3>2. QED
      BY <1>3, <1>6, <1>7, <3>1
  <2>5. declared' \in [Agents -> Decls \cup {Null}]
    BY <1>3, <1>5, <1>6, RecordTypes
  <2>6. QED
    BY <1>3, <1>4, <2>1, <2>2, <2>3, <2>4, <2>5 DEF Typed
<1>13. CommittedInv'
  <2>1. ASSUME NEW k \in Keys
        PROVE  Committed(act'[k], ports'[k], legacy')
    BY <1>3, <1>10, CommitsPorts
  <2>2. ASSUME NEW k \in Keys
        PROVE  Tagged(ports[k])'
    <3>1. IsFiniteSet(ports'[k]) /\ \A c \in ports'[k] : c \in ports[k] \/ c.by = <<a, regs[a]>>
      BY <1>3, <1>10, CommitsPorts
    <3>2. Tagged(ports[k])
      BY <1>4 DEF CommittedInv
    <3>3. ASSUME NEW c \in ports'[k], NEW b \in Agents, NEW i \in 0 .. MaxRegs, c.by = <<b, i>>
          PROVE  i <= regs[b] /\ (Active(b)' => i < regs[b])
      <4>1. CASE c \in ports[k]
        <5>1. i <= regs[b] /\ (Active(b) => i < regs[b])
          BY <3>2, <3>3, <4>1 DEF Tagged
        <5>2. QED
          BY <1>9, <5>1
      <4>2. CASE c.by = <<a, regs[a]>>
        <5>1. b = a /\ i = regs[a]
          BY <3>3, <4>2
        <5>2. QED
          BY <1>6, <1>9, <5>1
      <4>3. QED
        BY <3>1, <4>1, <4>2
    <3>4. QED
      BY <1>3, <3>1, <3>3 DEF Tagged
  <2>3. QED
    BY <2>1, <2>2 DEF CommittedInv
<1>14. Exclusive'
  BY <1>4, <1>9 DEF Exclusive
<1>15. ASSUME NEW b \in Agents
       PROVE  TxInv(b)'
  <2> SUFFICES ASSUME b \in Agents \ {a}, Active(b)
               PROVE  /\ regs[b] >= 1
                      /\ \A k \in Keys : PortsInv(tx'[b], <<b, regs[b]>>, k, ports'[k], legacy)
                      /\ ImplsInv(tx'[b], b, impl'[b])
    BY <1>3, <1>9 DEF TxInv
  <2>1. /\ regs[b] >= 1 /\ ImplsInv(tx[b], b, impl[b])
        /\ \A k \in Keys : PortsInv(tx[b], <<b, regs[b]>>, k, ports[k], legacy)
    BY <1>4 DEF TxInv
  <2>2. tx[b] \in TxRecords /\ tx'[b] = Disturbed(tx[b], lost)
    BY <1>9
  <2>3. ASSUME NEW k \in Keys
        PROVE  PortsInv(tx'[b], <<b, regs[b]>>, k, ports'[k], legacy)
    <3>1. PortsInv(tx[b], <<b, regs[b]>>, k, ports[k], legacy)
      BY <2>1
    <3>2. ASSUME ~legacy, tx[b].built[k] # {}
          PROVE  ports'[k] = ports[k]
      <4>1. tx[b].act[k] # Same
        BY <3>1, <3>2 DEF PortsInv
      <4>2. tx[a].act[k] = Same
        BY <1>4, <1>5, <4>1 DEF Exclusive
      <4>3. QED
        BY <1>3, <1>10, <3>2, <4>2, CommitsPorts
    <3>3. QED
      BY <1>7, <2>2, <3>1, <3>2, DisturbedPorts
  <2>4. (\A d \in lost : d[2][1] # b) => impl'[b] = impl[b]
    <3> SUFFICES ASSUME \A d \in lost : d[2][1] # b
                 PROVE  impl'[b] = impl[b]
      OBVIOUS
    <3>1. \A j \in Interfaces : <<b, j>> \notin t.cascade
      <4> SUFFICES ASSUME NEW j \in Interfaces, <<b, j>> \in t.cascade
                   PROVE  FALSE
        OBVIOUS
      <4>1. <<"lost", <<b, j>>>> \in lost
        BY <1>7
      <4>2. <<"lost", <<b, j>>>>[2][1] = b
        OBVIOUS
      <4>3. QED
        BY <4>1, <4>2
    <3>2. \A j \in Interfaces : impl'[b][j] = impl[b][j]
      BY <1>10, <3>1
    <3>3. impl[b] \in [Interfaces -> Impls \cup {Null}] /\ impl'[b] \in [Interfaces -> Impls \cup {Null}]
      BY <1>6, <1>12 DEF Typed
    <3>4. QED
      BY <3>2, <3>3
  <2>5. \A j \in Interfaces : impl[b][j] = Null => impl'[b][j] = Null \/ <<"revived", <<b, j>>>> \in lost
    BY <1>10
  <2>6. ImplsInv(tx'[b], b, impl'[b])
    <3>1. PICK im, jm, s : im = impl[b] /\ jm = impl'[b] /\ s = tx[b]
      OBVIOUS
    <3>2. ImplsInv(s, b, im) /\ s \in TxRecords /\ lost \in SUBSET Deeds
      BY <1>7, <2>1, <2>2, <3>1
    <3>3. \A j \in Interfaces : im[j] = Null => jm[j] = Null \/ <<"revived", <<b, j>>>> \in lost
      BY <2>5, <3>1
    <3>4. (\A d \in lost : d[2][1] # b) => jm = im
      BY <2>4, <3>1
    <3>5. ImplsInv(Disturbed(s, lost), b, jm)
      BY <3>2, <3>3, <3>4, DisturbedImpls
    <3>6. QED
      BY <2>2, <3>1, <3>5
  <2>7. QED
    BY <2>1, <2>3, <2>6
<1>16. RegisteredIsDeclared'
  <2> SUFFICES ASSUME NEW p \in Pairs, declared'[p[1]] # Null, <<"revived", p>> \notin since'
               PROVE  \/ /\ impl'[p[1]][p[2]] = Null
                         /\ \/ declared'[p[1]][p[2]] = Null
                            \/ {<<"deleted", p>>, <<"lost", p>>} \cap since' # {}
                      \/ /\ impl'[p[1]][p[2]] # Null /\ declared'[p[1]][p[2]] # Null
                         /\ impl'[p[1]][p[2]].key = declared'[p[1]][p[2]][1]
    BY DEF RegisteredIsDeclared
  <2>1. PICK b \in Agents, j \in Interfaces : p = <<b, j>>
    BY DEF Pairs
  <2>2. p[1] = b /\ p[2] = j
    BY <2>1
\* Its own implementations.
  <2>3. CASE b = a
    <3>1. declared'[a] = t.decl /\ impl'[a][j] = SeesImpl(a, j)
      BY <1>3, <1>6, <1>10
    <3>2. t.pc \notin Taking /\ t.left = {}
      BY <1>3, <1>5 DEF ImplsInv, Taking
    <3>3. CASE t.decl[j] # Null
      <4>1. \/ t.impl[j] \in Impls /\ t.impl[j].key = t.decl[j][1]
            \/ t.impl[j] = Null /\ own # {}
        BY <1>2, <1>5, <3>2, <3>3 DEF ImplsInv
      <4>2. CASE t.impl[j] \in Impls /\ t.impl[j].key = t.decl[j][1]
        <5>1. SeesImpl(a, j) = t.impl[j] /\ t.impl[j] # Null
          BY <1>2, <4>2, RowFacts DEF SeesImpl
        <5>2. QED
          BY <2>2, <2>3, <3>1, <3>3, <4>2, <5>1
      <4>3. CASE t.impl[j] = Null /\ own # {}
        <5>1. SeesImpl(a, j) = Null
          BY <1>2, <4>3, RowFacts DEF SeesImpl
        <5>2. p \in TakenFromItself(a)
          BY <1>2, <2>2, <2>3, <3>3, <4>3 DEF TakenFromItself
        <5>3. <<"lost", p>> \in since'
          BY <1>3, <1>7, <4>3, <5>2
        <5>4. QED
          BY <2>2, <2>3, <3>1, <5>1, <5>3
      <4>4. QED
        BY <4>1, <4>2, <4>3
    <3>4. CASE t.decl[j] = Null
      <4>1. \/ t.impl[j] = Null
            \/ t.impl[j] = Same /\ (impl[a][j] = Null \/ <<"revived", <<a, j>>>> \in t.since)
        BY <1>3, <1>5, <3>4 DEF ImplsInv
      <4>2. <<"revived", <<a, j>>>> \notin t.since
        <5>1. <<"revived", <<a, j>>>>[2][1] = a
          OBVIOUS
        <5>2. <<"revived", <<a, j>>>> \in t.since => <<"revived", <<a, j>>>> \in own
          BY <1>2, <5>1 DEF OwnDeeds
        <5>3. QED
          BY <1>3, <2>1, <2>3, <5>2
      <4>3. SeesImpl(a, j) = Null
        BY <1>2, <4>1, <4>2, RowFacts DEF SeesImpl
      <4>4. QED
        BY <2>2, <2>3, <3>1, <3>4, <4>3
    <3>5. QED
      BY <3>3, <3>4
\* Those of others.
  <2>4. CASE b # a
    <3>1. declared'[b] = declared[b]
      BY <1>3, <1>6, <2>4
    <3>2. p[1] # a
      BY <2>2, <2>4
    <3>3. \A kind : <<kind, p>> \in since => <<kind, p>> \in since'
      <4> SUFFICES ASSUME NEW kind, <<kind, p>> \in since
                   PROVE  <<kind, p>> \in since'
        OBVIOUS
      <4>1. <<kind, p>>[2][1] # a
        BY <3>2
      <4>2. QED
        BY <1>3, <4>1
    <3>4. CASE p \in t.cascade
      <4>1. impl'[b][j] = Null
        BY <1>10, <2>1, <2>4, <3>4
      <4>2. <<"lost", p>> \in since'
        BY <1>3, <1>7, <3>4
      <4>3. QED
        BY <2>2, <4>1, <4>2
    <3>5. CASE p \notin t.cascade
      <4>1. impl'[b][j] = impl[b][j]
        BY <1>10, <2>1, <2>4, <3>5
      <4>2. <<"revived", p>> \notin since
        BY <3>3
      <4>3. \/ /\ impl[b][j] = Null
               /\ declared[b][j] = Null \/ {<<"deleted", p>>, <<"lost", p>>} \cap since # {}
            \/ impl[b][j] # Null /\ declared[b][j] # Null /\ impl[b][j].key = declared[b][j][1]
        BY <1>4, <2>2, <3>1, <4>2 DEF RegisteredIsDeclared
      <4>4. QED
        BY <2>2, <3>1, <3>3, <4>1, <4>3
    <3>6. QED
      BY <3>4, <3>5
  <2>5. QED
    BY <2>3, <2>4
<1>17. QED
  BY <1>12, <1>13, <1>14, <1>15, <1>16 DEF RegistryInv
-----------------------------------------------------------------------------
(* The theorems. *)

\* The invariant holds at the start and is kept by every step.
LEMMA InvNext ==
    ASSUME RegistryInv, [Next]_vars
    PROVE  RegistryInv'
<1>1. CASE UNCHANGED vars
  <2>1. UNCHANGED <<act, ports, impl, tx, pin, regs, legacy, declared, since>>
    BY <1>1 DEF vars
  <2>2. Typed' /\ RegisteredIsDeclared'
    BY <2>1 DEF RegistryInv, Typed, RegisteredIsDeclared
  <2>3. \A b \in Agents : Active(b)' <=> Active(b)
    BY <2>1 DEF Active
  <2>4. CommittedInv' /\ Exclusive' /\ \A b \in Agents : TxInv(b)'
    BY <2>1, <2>3 DEF RegistryInv, CommittedInv, Tagged, Exclusive, TxInv
  <2>5. QED
    BY <2>2, <2>4 DEF RegistryInv
<1>2. ASSUME NEW a \in Agents, Step(a)
      PROVE  RegistryInv'
  <2>1. CASE NextDeclared(a)
    BY <2>1, InvNextDeclared
  <2>2. CASE UpsertAction(a)
    BY <2>2, InvUpsertAction
  <2>3. CASE UpsertFails(a)
    BY <2>3, AbortStep DEF UpsertFails
  <2>4. CASE RebuildRelationalPorts(a)
    BY <2>4, InvRebuildRelationalPorts, AbortStep DEF RebuildRelationalPorts
  <2>5. CASE SaveCounts(a)
    BY <2>5, InvSaveCounts
  <2>6. CASE CountUsers(a)
    BY <2>6, InvCountUsers
  <2>7. CASE CollectUsers(a)
    BY <2>7, InvCollectUsers
  <2>8. CASE DropAction(a)
    BY <2>8, InvDropAction
  <2>9. CASE SaveImplementation(a)
    BY <2>9, InvSaveImplementation
  <2>10. CASE Reap(a)
    BY <2>10, InvReap
  <2>11. CASE Commit(a)
    BY <2>11, InvCommit
  <2>12. CASE Deadlock(a)
    BY <2>12, AbortStep DEF Deadlock
  <2>13. QED
    BY <1>2, <2>1, <2>2, <2>3, <2>4, <2>5, <2>6, <2>7, <2>8, <2>9, <2>10, <2>11, <2>12
       DEF Step
<1>3. ASSUME NEW a \in Agents, NEW decl \in Declarations, Begin(a, decl)
      PROVE  RegistryInv'
  BY <1>3, InvBegin
<1>4. ASSUME NEW p \in Pairs, DeleteImplementation(p) \/ PinRead(p)
      PROVE  RegistryInv'
  BY <1>4, InvDeleteImplementation, InvPinRead
<1>5. CASE PinSave
  BY <1>5, InvPinSave
<1>6. QED
  BY <1>1, <1>2, <1>3, <1>4, <1>5 DEF Next

\* Whatever the registrations of the agents and the deletions and pins of users interleave
\* to, and whichever of them fail or are ended, the rows keep the invariant.
THEOREM RegistryInductive == Spec => []RegistryInv
<1>1. Init => RegistryInv
  BY InvInit
<1>2. RegistryInv /\ [Next]_vars => RegistryInv'
  BY InvNext
<1>3. QED
  BY <1>1, <1>2, PTL DEF Spec

\* After a registration (implement_agent) an agent has exactly the implementations it
\* declared, but for what users did to them and for what another agent took away that
\* had counted the users of an action before.
THEOREM AgentsAreRegistered == Spec => []RegisteredIsDeclared
<1>1. RegistryInv => RegisteredIsDeclared
  BY DEF RegistryInv
<1>2. QED
  BY <1>1, RegistryInductive, PTL

\* The matching engine sees the ports of the definition an action has, each once
\* (rebuild_relational_ports), but for an action of before the ports that two agents
\* brought up to date at once.
THEOREM MatchedPortsAreDefined == Spec => []PortsMatchDefinition
<1>1. RegistryInv => PortsMatchDefinition
  BY DEF RegistryInv, CommittedInv, Committed, PortsMatchDefinition
<1>2. QED
  BY <1>1, RegistryInductive, PTL
-----------------------------------------------------------------------------
(* What the rows refer to. *)

\* Every implementation refers to an action that is there.
Referenced ==
    \A p \in Pairs : LET r == impl[p[1]][p[2]]
                     IN  r # Null => act[r.key] # Null /\ act[r.key].pk = r.action

Declares(t, k) == \E j \in Interfaces : t.decl[j] # Null /\ t.decl[j][1] = k

\* What the registration t writes and knows of action k, of which r is committed, is that
\* very action: it rewrites the row that is there, has deleted the one it knew, and knew
\* the one its implementations referred to.
LinkInv(t, k, r) ==
    /\ t.act[k] \notin {Same, Null} /\ r # Null => t.act[k].pk = r.pk
    /\ t.act[k] = Null /\ r # Null /\ Declares(t, k) => t.actions[k] # Null /\ t.actions[k].pk = r.pk
    /\ \A j \in Interfaces : t.impls[j] # Null /\ t.impls[j].key = k /\ Declares(t, k) =>
           t.actions[k] # Null /\ t.actions[k].pk = t.impls[j].action

ReferenceInv ==
    /\ Referenced
    /\ \A a \in Agents, k \in Keys : Active(a) => LinkInv(tx[a], k, act[k])

LEMMA LinkKept ==
    ASSUME NEW t, NEW n, NEW k, NEW r, LinkInv(t, k, r), n.act[k] = t.act[k],
           n.actions[k] = t.actions[k], n.decl = t.decl, n.impls = t.impls
    PROVE  LinkInv(n, k, r)
BY DEF LinkInv, Declares

LEMMA LocalReferences ==
    ASSUME RegistryInv, ReferenceInv, NEW a \in Agents, Local(a),
           \A k \in Keys : LinkInv(tx'[a], k, act[k])
    PROVE  ReferenceInv'
<1>1. act' = act /\ impl' = impl
  BY DEF Local, Frame
<1>2. tx \in [Agents -> TxRecords \cup {Idle}] /\ tx' = [tx EXCEPT ![a] = tx'[a]]
  BY DEF RegistryInv, Typed, Local
<1>3. \A b \in Agents \ {a} : tx'[b] = tx[b]
  BY <1>2
<1>4. ASSUME NEW b \in Agents, NEW k \in Keys, Active(b)'
      PROVE  LinkInv(tx'[b], k, act[k])
  <2>1. CASE b = a
    BY <2>1
  <2>2. CASE b # a
    BY <1>3, <1>4, <2>2 DEF Active, ReferenceInv
  <2>3. QED
    BY <2>1, <2>2
<1>5. QED
  BY <1>1, <1>4 DEF ReferenceInv, Referenced

LEMMA AbortReferences ==
    ASSUME RegistryInv, ReferenceInv, NEW a \in Agents, Abort(a)
    PROVE  ReferenceInv'
<1>1. act' = act /\ impl' = impl
  BY DEF Abort, db
<1>2. tx \in [Agents -> TxRecords \cup {Idle}] /\ tx' = [tx EXCEPT ![a] = Idle]
  BY DEF RegistryInv, Typed, Abort
<1>3. \A b \in Agents : Active(b)' => b # a /\ Active(b) /\ tx'[b] = tx[b]
  BY <1>2 DEF Active, Idle
<1>4. QED
  BY <1>1, <1>3 DEF ReferenceInv, Referenced

\* A step that does nothing to the actions.
LEMMA ElsewhereReferences ==
    ASSUME RegistryInv, ReferenceInv, NEW a \in Agents, Local(a), KeepsPorts(tx'[a], tx[a])
    PROVE  ReferenceInv'
<1>1. Active(a)
  BY RecordTypes DEF Local, Active, Steps
<1>2. /\ tx'[a].act = tx[a].act /\ tx'[a].actions = tx[a].actions
      /\ tx'[a].decl = tx[a].decl /\ tx'[a].impls = tx[a].impls
  BY DEF Local, Keeps, KeepsPorts
<1>3. ASSUME NEW k \in Keys
      PROVE  LinkInv(tx'[a], k, act[k])
  <2>1. LinkInv(tx[a], k, act[k])
    BY <1>1 DEF ReferenceInv
  <2>2. QED
    BY <1>2, <2>1, LinkKept
<1>4. QED
  BY <1>3, LocalReferences

\* What a registration that takes an interface knows of the action it declares.
LEMMA KeyIsDeclared ==
    ASSUME RegistryInv, NEW a \in Agents, tx[a].pc \in Taking
    PROVE  Declares(tx[a], Key(a))
BY WhileTaking DEF Declares

\* The row it writes is that which is there, if there is one.
LEMMA WriteReferences ==
    ASSUME RegistryInv, ReferenceInv, NEW a \in Agents, tx[a].pc \in Taking, Local(a),
           NEW r \in Actions, Writes(a, Key(a), r),
           Entry(a) = Null => SeesAction(a, Key(a)) = Null,
           Entry(a) # Null => /\ EntryIsThere(a) \/ SeesAction(a, Key(a)) = Null
                              /\ r.pk = Entry(a).pk
    PROVE  ReferenceInv'
<1>1. PICK t, n, k, e : t = tx[a] /\ n = tx'[a] /\ k = Key(a) /\ e = Entry(a)
  OBVIOUS
<1>2. Active(a) /\ t \in TxRecords /\ n.decl = t.decl /\ n.impls = t.impls
  BY <1>1, RecordTypes DEF Local, Active, Steps, Keeps
<1>3. k \in Keys /\ e = t.actions[k] /\ Declares(t, k)
  BY <1>1, WhileTaking, KeyIsDeclared
<1>4. /\ n.act[k] = r /\ n.actions[k] = r
      /\ \A l \in Keys \ {k} : n.act[l] = t.act[l] /\ n.actions[l] = t.actions[l]
  <2>1. n.act = [t.act EXCEPT ![k] = r] /\ n.actions = [t.actions EXCEPT ![k] = r]
    BY <1>1 DEF Writes
  <2>2. QED
    BY <1>2, <1>3, <2>1, RecordTypes
<1>5. LinkInv(t, k, act[k])
  BY <1>1, <1>2, <1>3 DEF ReferenceInv
<1>6. r # Null /\ r # Same
  BY RowFacts
<1>7. LinkInv(n, k, act[k])
  <2>1. \A j \in Interfaces : t.impls[j] # Null /\ t.impls[j].key = k => r.pk = t.impls[j].action
    BY <1>1, <1>3, <1>5 DEF LinkInv
  <2>2. act[k] # Null => r.pk = act[k].pk
    <3>1. CASE e = Null
      <4>1. SeesAction(a, k) = Null /\ (t.act[k] = Null => act[k] = Null)
        BY <1>1, <1>3, <1>5, <3>1 DEF LinkInv
      <4>2. QED
        BY <1>1, <4>1 DEF SeesAction
    <3>2. CASE e # Null /\ SeesAction(a, k) = Null
      <4>1. t.act[k] = Null /\ act[k] # Null => e.pk = act[k].pk
        BY <1>3, <1>5 DEF LinkInv
      <4>2. QED
        BY <1>1, <3>2, <4>1 DEF SeesAction
    <3>3. CASE e # Null /\ EntryIsThere(a)
      <4>1. SeesAction(a, k) # Null /\ SeesAction(a, k).pk = e.pk
        BY <1>1, <3>3 DEF EntryIsThere
      <4>2. t.act[k] \notin {Same, Null} /\ act[k] # Null => t.act[k].pk = act[k].pk
        BY <1>5 DEF LinkInv
      <4>3. QED
        BY <1>1, <3>3, <4>1, <4>2, RowFacts DEF SeesAction
    <3>4. QED
      BY <1>1, <3>1, <3>2, <3>3
  <2>3. QED
    BY <1>2, <1>4, <1>6, <2>1, <2>2 DEF LinkInv
<1>8. ASSUME NEW l \in Keys
      PROVE  LinkInv(n, l, act[l])
  <2>1. CASE l = k
    BY <1>7, <2>1
  <2>2. CASE l # k
    <3>1. LinkInv(t, l, act[l])
      BY <1>1, <1>2 DEF ReferenceInv
    <3>2. QED
      BY <1>2, <1>4, <2>2, <3>1, LinkKept
  <2>3. QED
    BY <2>1, <2>2
<1>9. QED
  BY <1>1, <1>8, LocalReferences

LEMMA UpsertActionReferences ==
    ASSUME RegistryInv, ReferenceInv, NEW a \in Agents, UpsertAction(a)
    PROVE  ReferenceInv'
<1>1. /\ Local(a) /\ tx[a].pc = "action"
      /\ \/ \E r \in Actions :
               /\ Writes(a, Key(a), r)
               /\ Entry(a) = Null => SeesAction(a, Key(a)) = Null
               /\ Entry(a) # Null => /\ EntryIsThere(a) \/ SeesAction(a, Key(a)) = Null
                                     /\ r.pk = Entry(a).pk
         \/ KeepsPorts(tx'[a], tx[a])
  BY UpsertActionEffect
<1>2. tx[a].pc \in Taking
  BY <1>1 DEF Taking
<1>3. QED
  BY <1>1, <1>2, ElsewhereReferences, WriteReferences

LEMMA RebuildRelationalPortsReferences ==
    ASSUME RegistryInv, ReferenceInv, NEW a \in Agents, RebuildRelationalPorts(a),
           Hash(a) \notin Malformed
    PROVE  ReferenceInv'
<1>1. Local(a) /\ tx'[a].act = tx[a].act /\ tx'[a].actions = tx[a].actions
  BY RebuildRelationalPortsEffect
<1>2. Active(a) /\ tx'[a].decl = tx[a].decl /\ tx'[a].impls = tx[a].impls
  BY <1>1, RecordTypes DEF Local, Active, Steps, Keeps
<1>3. ASSUME NEW k \in Keys
      PROVE  LinkInv(tx'[a], k, act[k])
  <2>1. LinkInv(tx[a], k, act[k])
    BY <1>2 DEF ReferenceInv
  <2>2. QED
    BY <1>1, <1>2, <2>1, LinkKept
<1>4. QED
  BY <1>1, <1>3, LocalReferences

\* It has an entry for the action whose counts it saves.
LEMMA EntryWhileUpdating ==
    ASSUME RegistryInv, NEW a \in Agents, tx[a].pc = "counts"
    PROVE  Entry(a) \in Actions
<1>1. tx[a].pc \in Taking /\ tx[a].pc \in Taking \ {"action"} /\ tx[a].pc \in Steps
  BY DEF Taking, Steps
<1>2. ImplsInv(tx[a], a, impl[a])
  BY <1>1, UnderWay
<1>3. Entry(a) # Null
  BY <1>1, <1>2 DEF ImplsInv, Entry, Key, Declared
<1>4. QED
  BY <1>1, <1>3, WhileTaking

LEMMA SaveCountsReferences ==
    ASSUME RegistryInv, ReferenceInv, NEW a \in Agents, SaveCounts(a)
    PROVE  ReferenceInv'
<1>1. tx[a].pc = "counts" /\ tx[a].pc \in Taking
  BY DEF SaveCounts, At, Taking
<1>2. Entry(a) # Null
  BY <1>1, EntryWhileUpdating, RowFacts
<1>3. \/ Abort(a)
      \/ /\ Local(a) /\ EntryIsThere(a)
         /\ \E r \in Actions : Writes(a, Key(a), r) /\ r.pk = Entry(a).pk
  BY <1>2, SaveCountsEffect
<1>4. QED
  BY <1>1, <1>2, <1>3, AbortReferences, WriteReferences

LEMMA DropActionReferences ==
    ASSUME RegistryInv, ReferenceInv, NEW a \in Agents, DropAction(a)
    PROVE  ReferenceInv'
<1>1. PICK t, n, k, there, o : /\ t = tx[a] /\ n = tx'[a] /\ k = OldKey(a)
                               /\ there = OldActionIsThere(a) /\ o = Known(a)
  OBVIOUS
<1>2. /\ Local(a) /\ t.pc = "drop" /\ k \in Keys /\ o \in Impls /\ n.actions = t.actions
      /\ ~there => n.act = t.act
      /\ there => n.act = [t.act EXCEPT ![k] = Null]
  BY <1>1, DropActionEffect
<1>3. /\ Active(a) /\ t \in TxRecords /\ n.decl = t.decl /\ n.impls = t.impls
  BY <1>1, <1>2, RecordTypes DEF Local, Active, Steps, Keeps
<1>4. o = t.impls[t.cur] /\ t.cur \in Interfaces /\ o.key = k /\ o # Null
  <2>1. t.pc \in Taking
    BY <1>2 DEF Taking
  <2>2. QED
    BY <1>1, <1>2, <2>1, WhileTaking, RowFacts DEF OldKey
<1>5. (there => n.act[k] = Null) /\ \A l \in Keys : l # k \/ ~there => n.act[l] = t.act[l]
  <2>1. t.act \in [Keys -> Actions \cup {Null, Same}]
    BY <1>3, RecordTypes
  <2>2. CASE there
    BY <1>2, <2>1, <2>2
  <2>3. CASE ~there
    BY <1>2, <2>3
  <2>4. QED
    BY <2>2, <2>3
<1>6. ASSUME NEW l \in Keys
      PROVE  LinkInv(n, l, act[l])
  <2>1. LinkInv(t, l, act[l])
    BY <1>1, <1>3 DEF ReferenceInv
  <2>2. CASE l # k \/ ~there
    BY <1>2, <1>3, <1>5, <2>1, <2>2, LinkKept
  <2>3. CASE l = k /\ there
    <3>1. SeesAction(a, k) # Null /\ SeesAction(a, k).pk = o.action
      BY <1>1, <2>3 DEF OldActionIsThere
    <3>2. act[k] # Null => act[k].pk = o.action
      <4>1. t.act[k] \notin {Same, Null} /\ act[k] # Null => t.act[k].pk = act[k].pk
        BY <2>1, <2>3 DEF LinkInv
      <4>2. QED
        BY <1>1, <3>1, <4>1 DEF SeesAction
    <3>3. Declares(t, k) => t.actions[k] # Null /\ t.actions[k].pk = o.action
      BY <1>4, <2>1, <2>3 DEF LinkInv
    <3>4. Declares(n, k) <=> Declares(t, k)
      BY <1>3 DEF Declares
    <3>5. n.act[k] = Null /\ Null # Same
      BY <1>5, <2>3, RowFacts
    <3>6. QED
      BY <1>2, <1>3, <2>1, <2>3, <3>2, <3>3, <3>4, <3>5 DEF LinkInv
  <2>4. QED
    BY <2>2, <2>3
<1>7. QED
  BY <1>1, <1>2, <1>6, LocalReferences

\* The end of a registration, and what others are left with.
LEMMA CommitEffect ==
    ASSUME RegistryInv, NEW a \in Agents, Commit(a)
    PROVE  \/ Abort(a) /\ tx[a].pc = "commit" /\ ~ForeignKeysHold(a)
           \/ /\ tx[a].pc = "commit" /\ ForeignKeysHold(a)
              /\ \A k \in Keys : act'[k] = SeesAction(a, k)
              /\ \A p \in Pairs : impl'[p[1]][p[2]] = SeesRow(a, p)
              /\ pin' = pin /\ declared' = [declared EXCEPT ![a] = tx[a].decl]
              /\ ~Active(a)'
              /\ \A b \in Agents \ {a} :
                    /\ Active(b)' <=> Active(b)
                    /\ Active(b) => tx[b] \in TxRecords /\ tx'[b] = Disturbed(tx[b], Lost(a))
              /\ Lost(a) \in SUBSET Deeds
<1>1. tx[a].pc = "commit"
  BY DEF Commit, At
<1>2. CASE ~ForeignKeysHold(a)
  BY <1>1, <1>2 DEF Commit
<1>3. CASE ForeignKeysHold(a)
  <2>1. PICK f : f = Disturb(tx, a, Lost(a))
    OBVIOUS
  <2>2. /\ act' = [k \in Keys |-> SeesAction(a, k)]
        /\ impl' = [b \in Agents |-> [j \in Interfaces |-> SeesRow(a, <<b, j>>)]]
        /\ pin' = pin /\ declared' = [declared EXCEPT ![a] = tx[a].decl]
        /\ tx' = [f EXCEPT ![a] = Idle]
    BY <1>3, <2>1 DEF Commit, OwnDeeds, Lost
  <2>3. Typed /\ Lost(a) \in SUBSET Deeds
    BY <1>1, LostIsTold DEF RegistryInv
  <2>4. /\ f \in [Agents -> TxRecords \cup {Idle}]
        /\ \A b \in Agents : f[b] = IF b # a /\ Active(b) THEN Disturbed(tx[b], Lost(a)) ELSE tx[b]
    BY <2>1, <2>3, DisturbIs
  <2>5. tx'[a] = Idle /\ \A b \in Agents \ {a} : tx'[b] = f[b]
    BY <2>2, <2>4
  <2>6. ~Active(a)'
    BY <2>5 DEF Active, Idle
  <2>7. ASSUME NEW b \in Agents \ {a}, Active(b)
        PROVE  tx[b] \in TxRecords /\ tx'[b] = Disturbed(tx[b], Lost(a)) /\ Active(b)'
    <3>1. tx[b] \in TxRecords /\ tx'[b] = Disturbed(tx[b], Lost(a))
      BY <2>3, <2>4, <2>5, <2>7, ActiveIsRecord
    <3>2. tx'[b].pc = tx[b].pc
      BY <2>3, <3>1, DisturbedRecord
    <3>3. QED
      BY <2>7, <3>1, <3>2 DEF Active
  <2>8. ASSUME NEW b \in Agents \ {a}, ~Active(b)
        PROVE  ~Active(b)'
    BY <2>4, <2>5, <2>8 DEF Active
  <2>9. ASSUME NEW p \in Pairs
        PROVE  impl'[p[1]][p[2]] = SeesRow(a, p)
    <3>1. PICK b \in Agents, j \in Interfaces : p = <<b, j>>
      BY DEF Pairs
    <3>2. QED
      BY <2>2, <3>1
  <2>10. \A k \in Keys : act'[k] = SeesAction(a, k)
    BY <2>2
  <2>11. QED
    BY <1>1, <1>3, <2>2, <2>3, <2>6, <2>7, <2>8, <2>9, <2>10
<1>4. QED
  BY <1>2, <1>3

\* The links of a registration that others disturb.
LEMMA DisturbedLinks ==
    ASSUME NEW t \in TxRecords, NEW deeds \in SUBSET Deeds, NEW k, NEW r, LinkInv(t, k, r)
    PROVE  LinkInv(Disturbed(t, deeds), k, r)
<1>1. PICK n : n = Disturbed(t, deeds)
  OBVIOUS
<1>2. n.act = t.act /\ n.actions = t.actions /\ n.decl = t.decl /\ n.impls = t.impls
  BY <1>1, DisturbedRecord
<1>3. LinkInv(n, k, r)
  BY <1>2, LinkKept
<1>4. QED
  BY <1>1, <1>3

LEMMA CommitReferences ==
    ASSUME RegistryInv, ReferenceInv, NEW a \in Agents, Commit(a)
    PROVE  ReferenceInv'
<1>1. CASE Abort(a)
  BY <1>1, AbortReferences
<1> SUFFICES ASSUME ~Abort(a)
             PROVE  ReferenceInv'
  BY <1>1
<1>2. /\ tx[a].pc = "commit" /\ ForeignKeysHold(a)
      /\ \A k \in Keys : act'[k] = SeesAction(a, k)
      /\ \A p \in Pairs : impl'[p[1]][p[2]] = SeesRow(a, p)
      /\ ~Active(a)'
      /\ \A b \in Agents \ {a} :
            /\ Active(b)' <=> Active(b)
            /\ Active(b) => tx[b] \in TxRecords /\ tx'[b] = Disturbed(tx[b], Lost(a))
      /\ Lost(a) \in SUBSET Deeds
  BY CommitEffect
<1>3. Typed /\ Active(a) /\ tx[a] \in TxRecords /\ Exclusive
  BY <1>2, UnderWay DEF RegistryInv, Steps
<1>4. PICK t : t = tx[a]
  OBVIOUS
<1>5. ASSUME NEW p \in Pairs, SeesRow(a, p) # Null
      PROVE  /\ SeesAction(a, SeesRow(a, p).key) # Null
             /\ SeesAction(a, SeesRow(a, p).key).pk = SeesRow(a, p).action
  <2>1. PICK r, k : r = SeesRow(a, p) /\ k = SeesRow(a, p).key
    OBVIOUS
  <2>2. r \in Impls /\ k \in Keys
    BY <1>3, <1>5, <2>1, SeesRowType DEF Impls
  <2>3. p[1] \in Agents /\ p[2] \in Interfaces
    BY DEF Pairs
  <2>4. CASE p[1] = a /\ t.impl[p[2]] # Same
    <3>1. r = t.impl[p[2]]
      BY <1>4, <2>1, <2>4 DEF SeesRow, SeesImpl
    <3>2. SeesAction(a, r.key) # Null /\ SeesAction(a, r.key).pk = r.action
      BY <1>2, <1>4, <1>5, <2>1, <2>3, <2>4, <3>1 DEF ForeignKeysHold
    <3>3. QED
      BY <2>1, <3>2
  <2>5. CASE ~(p[1] = a /\ t.impl[p[2]] # Same)
    <3>1. r = impl[p[1]][p[2]]
      BY <1>4, <1>5, <2>1, <2>5 DEF SeesRow, SeesImpl
    <3>2. act[k] # Null /\ act[k].pk = r.action
      BY <1>5, <2>1, <3>1 DEF ReferenceInv, Referenced
    <3>3. t.act[k] # Null
      <4>1. t.act[k] = Null => ~Uses(r, k, act[k].pk)
        BY <1>2, <1>4, <2>1, <2>2, <3>2 DEF ForeignKeysHold
      <4>2. QED
        BY <1>5, <2>1, <3>2, <4>1 DEF Uses
    <3>4. t.act[k] # Same => t.act[k].pk = act[k].pk
      BY <1>3, <1>4, <2>2, <3>2, <3>3 DEF ReferenceInv, LinkInv
    <3>5. QED
      BY <1>4, <2>1, <3>2, <3>3, <3>4 DEF SeesAction
  <2>6. QED
    BY <2>4, <2>5
<1>6. Referenced'
  <2> SUFFICES ASSUME NEW p \in Pairs, impl'[p[1]][p[2]] # Null
               PROVE  /\ act'[impl'[p[1]][p[2]].key] # Null
                      /\ act'[impl'[p[1]][p[2]].key].pk = impl'[p[1]][p[2]].action
    BY DEF Referenced
  <2>1. impl'[p[1]][p[2]] = SeesRow(a, p) /\ SeesRow(a, p) # Null
    BY <1>2
  <2>2. SeesRow(a, p).key \in Keys
    BY <1>3, <2>1, SeesRowType DEF Impls
  <2>3. QED
    BY <1>2, <1>5, <2>1, <2>2
<1>7. ASSUME NEW b \in Agents, NEW k \in Keys, Active(b)'
      PROVE  LinkInv(tx'[b], k, act'[k])
  <2>1. b # a /\ Active(b) /\ tx[b] \in TxRecords /\ tx'[b] = Disturbed(tx[b], Lost(a))
    BY <1>2, <1>7
  <2>2. LinkInv(tx[b], k, act[k])
    BY <2>1 DEF ReferenceInv
  <2>3. LinkInv(tx[b], k, act'[k])
    <3>1. CASE t.act[k] = Same
      BY <1>2, <1>4, <2>2, <3>1 DEF SeesAction
    <3>2. CASE t.act[k] # Same
      <4>1. tx[b].act[k] = Same
        BY <1>3, <1>4, <2>1, <3>2 DEF Exclusive
      <4>2. QED
        BY <2>2, <4>1, RowFacts DEF LinkInv
    <3>3. QED
      BY <3>1, <3>2
  <2>4. QED
    BY <1>2, <2>1, <2>3, DisturbedLinks
<1>8. QED
  BY <1>6, <1>7 DEF ReferenceInv

\* A step of users, after which every implementation still refers to an action.
LEMMA UserReferences ==
    ASSUME RegistryInv, ReferenceInv, NEW deeds \in SUBSET Deeds, tx' = Disturb(tx, Null, deeds),
           act' = act,
           \A p \in Pairs : LET r == impl'[p[1]][p[2]]
                            IN  \/ r = impl[p[1]][p[2]] \/ r = Null
                                \/ act[r.key] # Null /\ act[r.key].pk = r.action
    PROVE  ReferenceInv'
<1>1. Typed
  BY DEF RegistryInv
<1>2. \A b \in Agents : tx'[b] = IF Active(b) THEN Disturbed(tx[b], deeds) ELSE tx[b]
  BY <1>1, DisturbIs, RowFacts
<1>3. \A b \in Agents : Active(b)' <=> Active(b)
  BY <1>1, DisturbedStaysActive
<1>4. ASSUME NEW b \in Agents, NEW k \in Keys, Active(b)'
      PROVE  LinkInv(tx'[b], k, act[k])
  <2>1. Active(b) /\ tx[b] \in TxRecords /\ tx'[b] = Disturbed(tx[b], deeds)
    BY <1>1, <1>2, <1>3, <1>4, ActiveIsRecord
  <2>2. LinkInv(tx[b], k, act[k])
    BY <2>1 DEF ReferenceInv
  <2>3. QED
    BY <2>1, <2>2, DisturbedLinks
<1>5. Referenced'
  BY DEF ReferenceInv, Referenced
<1>6. QED
  BY <1>4, <1>5 DEF ReferenceInv

LEMMA DeleteReferences ==
    ASSUME RegistryInv, ReferenceInv, NEW q \in Pairs, DeleteImplementation(q)
    PROVE  ReferenceInv'
<1>1. PICK deeds : deeds = {<<"deleted", q>>}
  OBVIOUS
<1>2. deeds \in SUBSET Deeds /\ tx' = Disturb(tx, Null, deeds) /\ act' = act
  BY <1>1 DEF DeleteImplementation, Deeds
<1>3. impl' = [impl EXCEPT ![q[1]][q[2]] = Null] /\ impl \in [Agents -> [Interfaces -> Impls \cup {Null}]]
  BY DEF DeleteImplementation, RegistryInv, Typed
<1>4. ASSUME NEW p \in Pairs
      PROVE  impl'[p[1]][p[2]] = impl[p[1]][p[2]] \/ impl'[p[1]][p[2]] = Null
  <2>1. PICK b \in Agents, j \in Interfaces : p = <<b, j>>
    BY DEF Pairs
  <2>2. PICK c \in Agents, i \in Interfaces : q = <<c, i>>
    BY DEF Pairs
  <2>3. impl' = [impl EXCEPT ![c][i] = Null] /\ p[1] = b /\ p[2] = j
    BY <1>3, <2>1, <2>2
  <2>4. QED
    BY <1>3, <2>3
<1>5. QED
  BY <1>2, <1>4, UserReferences

LEMMA PinReadReferences ==
    ASSUME RegistryInv, ReferenceInv, NEW q \in Pairs, PinRead(q)
    PROVE  ReferenceInv'
<1>1. tx' = Disturb(tx, Null, {}) /\ act' = act /\ impl' = impl /\ {} \in SUBSET Deeds
  BY DEF PinRead, db
<1>2. QED
  BY <1>1, UserReferences

LEMMA PinSaveReferences ==
    ASSUME RegistryInv, ReferenceInv, PinSave
    PROVE  ReferenceInv'
<1>1. Typed /\ pin # Null /\ act' = act
  BY DEF RegistryInv, PinSave
<1>2. PICK c \in Agents, i \in Interfaces : pin.of = <<c, i>>
  BY <1>1 DEF Typed, Pairs
<1>3. pin.of[1] = c /\ pin.of[2] = i
  BY <1>2
<1>4. CASE impl' = impl /\ tx' = Disturb(tx, Null, {})
  <2>1. {} \in SUBSET Deeds
    OBVIOUS
  <2>2. QED
    BY <1>1, <1>4, <2>1, UserReferences
<1>5. CASE /\ impl' = [impl EXCEPT ![c][i] = pin.row] /\ tx' = Disturb(tx, Null, {<<"revived", pin.of>>})
           /\ act[pin.row.key] # Null /\ act[pin.row.key].pk = pin.row.action
  <2>1. PICK deeds : deeds = {<<"revived", pin.of>>}
    OBVIOUS
  <2>2. deeds \in SUBSET Deeds /\ tx' = Disturb(tx, Null, deeds)
    BY <1>2, <1>5, <2>1 DEF Deeds, Pairs
  <2>3. impl \in [Agents -> [Interfaces -> Impls \cup {Null}]]
    BY <1>1 DEF Typed
  <2>4. ASSUME NEW p \in Pairs
        PROVE  impl'[p[1]][p[2]] = impl[p[1]][p[2]] \/ impl'[p[1]][p[2]] = pin.row
    <3>1. PICK b \in Agents, j \in Interfaces : p = <<b, j>>
      BY DEF Pairs
    <3>2. p[1] = b /\ p[2] = j
      BY <3>1
    <3>3. QED
      BY <1>5, <2>3, <3>2
  <2>5. QED
    BY <1>1, <1>5, <2>2, <2>4, UserReferences
<1>6. QED
  BY <1>3, <1>4, <1>5 DEF PinSave

\* The start of a registration, and what others are left with.
LEMMA BeginEffect ==
    ASSUME RegistryInv, NEW a \in Agents, NEW decl \in Declarations, Begin(a, decl)
    PROVE  /\ ~Active(a) /\ Active(a)'
           /\ act' = act /\ impl' = impl /\ pin' = pin /\ declared' = declared /\ protected' = protected
           /\ tx'[a].pc = "next" /\ tx'[a].decl = decl /\ tx'[a].impls = impl[a]
           /\ tx'[a].cur = Null /\ tx'[a].collected = {} /\ tx'[a].cascade = {} /\ tx'[a].since = {}
           /\ \A k \in Keys :
                 /\ tx'[a].act[k] = Same
                 /\ tx'[a].actions[k] = IF Declares(tx'[a], k) THEN act[k] ELSE Null
           /\ \A j \in Interfaces : tx'[a].impl[j] = Same
           /\ \A b \in Agents \ {a} :
                 /\ Active(b)' <=> Active(b)
                 /\ Active(b) => tx[b] \in TxRecords /\ tx'[b] = Disturbed(tx[b], {})
<1>1. PICK f, n :
         /\ f = Disturb(tx, a, {})
         /\ n = [pc |-> "next", decl |-> decl, left |-> {j \in Interfaces : decl[j] # Null},
                 cur |-> Null, alone |-> Undisturbed(a),
                 actions |-> [k \in Keys |-> IF \E j \in Interfaces : decl[j] # Null /\ decl[j][1] = k
                                             THEN act[k] ELSE Null],
                 impls |-> impl[a],
                 act |-> [k \in Keys |-> Same], impl |-> [j \in Interfaces |-> Same],
                 dropped |-> [k \in Keys |-> {}], built |-> [k \in Keys |-> {}],
                 collected |-> {}, cascade |-> {}, counted |-> {}, since |-> {}]
  OBVIOUS
<1>2. Typed
  BY DEF RegistryInv
<1>3. /\ ~Active(a) /\ act' = act /\ impl' = impl /\ pin' = pin /\ declared' = declared
      /\ protected' = protected /\ tx' = [f EXCEPT ![a] = n]
  BY <1>1 DEF Begin, db, history
<1>4. {} \in SUBSET Deeds
  OBVIOUS
<1>5. /\ f \in [Agents -> TxRecords \cup {Idle}]
      /\ \A b \in Agents : f[b] = IF b # a /\ Active(b) THEN Disturbed(tx[b], {}) ELSE tx[b]
  BY <1>1, <1>2, <1>4, DisturbIs
<1>6. tx'[a] = n /\ \A b \in Agents \ {a} : tx'[b] = f[b]
  BY <1>3, <1>5
<1>7. /\ n.pc = "next" /\ n.decl = decl /\ n.impls = impl[a] /\ n.cur = Null
      /\ n.collected = {} /\ n.cascade = {} /\ n.since = {}
      /\ n.actions = [k \in Keys |-> IF \E j \in Interfaces : decl[j] # Null /\ decl[j][1] = k
                                     THEN act[k] ELSE Null]
      /\ n.act = [k \in Keys |-> Same] /\ n.impl = [j \in Interfaces |-> Same]
  BY <1>1
<1>8. /\ \A k \in Keys : n.act[k] = Same
      /\ \A k \in Keys : n.actions[k] = IF Declares(n, k) THEN act[k] ELSE Null
      /\ \A j \in Interfaces : n.impl[j] = Same
  BY <1>7 DEF Declares
<1>9. Active(a)'
  BY <1>6, <1>7 DEF Active
<1>10. ASSUME NEW b \in Agents \ {a}, Active(b)
       PROVE  Active(b)' /\ tx[b] \in TxRecords /\ tx'[b] = Disturbed(tx[b], {})
  <2>1. tx[b] \in TxRecords /\ tx'[b] = Disturbed(tx[b], {})
    BY <1>2, <1>5, <1>6, <1>10, ActiveIsRecord
  <2>2. tx'[b].pc = tx[b].pc
    BY <1>4, <2>1, DisturbedRecord
  <2>3. QED
    BY <1>10, <2>1, <2>2 DEF Active
<1>11. ASSUME NEW b \in Agents \ {a}, ~Active(b)
       PROVE  ~Active(b)'
  BY <1>5, <1>6, <1>11 DEF Active
<1>12. QED
  BY <1>3, <1>6, <1>7, <1>8, <1>9, <1>10, <1>11

LEMMA BeginReferences ==
    ASSUME RegistryInv, ReferenceInv, NEW a \in Agents, NEW decl \in Declarations, Begin(a, decl)
    PROVE  ReferenceInv'
<1>1. PICK n : n = tx'[a]
  OBVIOUS
<1>2. /\ act' = act /\ impl' = impl /\ n.impls = impl[a]
      /\ \A k \in Keys : /\ n.act[k] = Same
                         /\ n.actions[k] = IF Declares(n, k) THEN act[k] ELSE Null
      /\ \A b \in Agents \ {a} :
            /\ Active(b)' <=> Active(b)
            /\ Active(b) => tx[b] \in TxRecords /\ tx'[b] = Disturbed(tx[b], {})
  BY <1>1, BeginEffect
<1>3. ASSUME NEW k \in Keys
      PROVE  LinkInv(n, k, act[k])
  <2>1. ASSUME NEW j \in Interfaces, impl[a][j] # Null, impl[a][j].key = k
        PROVE  act[k] # Null /\ act[k].pk = impl[a][j].action
    <3>1. <<a, j>> \in Pairs /\ <<a, j>>[1] = a /\ <<a, j>>[2] = j
      BY DEF Pairs
    <3>2. QED
      BY <2>1, <3>1 DEF ReferenceInv, Referenced
  <2>2. QED
    BY <1>2, <2>1, RowFacts DEF LinkInv
<1>4. ASSUME NEW b \in Agents, NEW k \in Keys, Active(b)'
      PROVE  LinkInv(tx'[b], k, act[k])
  <2>1. CASE b = a
    BY <1>1, <1>3, <2>1
  <2>2. CASE b # a
    <3>1. Active(b) /\ tx[b] \in TxRecords /\ tx'[b] = Disturbed(tx[b], {}) /\ {} \in SUBSET Deeds
      BY <1>2, <1>4, <2>2
    <3>2. LinkInv(tx[b], k, act[k])
      BY <3>1 DEF ReferenceInv
    <3>3. QED
      BY <3>1, <3>2, DisturbedLinks
  <2>3. QED
    BY <2>1, <2>2
<1>5. QED
  BY <1>2, <1>4 DEF ReferenceInv, Referenced

LEMMA InitReferences == Init => ReferenceInv
<1> SUFFICES ASSUME Init
             PROVE  ReferenceInv
  OBVIOUS
<1>1. \A a \in Agents : ~Active(a)
  BY DEF Init, Active, Idle
<1>2. ASSUME NEW p \in Pairs, impl[p[1]][p[2]] # Null
      PROVE  /\ act[impl[p[1]][p[2]].key] # Null
             /\ act[impl[p[1]][p[2]].key].pk = impl[p[1]][p[2]].action
  <2>1. PICK b \in Agents, j \in Interfaces : p = <<b, j>>
    BY DEF Pairs
  <2>2. PICK old \in [pk : {0}, key : {Before[1]}, action : {Null}] :
           old = [pk |-> 0, key |-> Before[1], action |-> Null]
    OBVIOUS
  <2>3. impl[b][j] = [pk |-> 0, key |-> Before[1], action |-> Null]
    BY <1>2, <2>1 DEF Init
  <2>4. impl[p[1]][p[2]].key = Before[1] /\ impl[p[1]][p[2]].action = Null
    BY <2>1, <2>3
  <2>5. Before[1] \in Keys /\ Before[2] \in Hashes
    <3>1. Before \in Keys \X Hashes \X BOOLEAN
      BY RegistryAssumption
    <3>2. QED
      BY <3>1
  <2>6. act[Before[1]] = [pk |-> Null, hash |-> Before[2], current |-> ~legacy]
    BY <2>5 DEF Init
  <2>7. act[Before[1]] \in Actions
    <3>1. Null \in Pks /\ legacy \in BOOLEAN
      BY DEF Pks, Init
    <3>2. QED
      BY <2>5, <2>6, <3>1 DEF Actions
  <2>8. act[Before[1]] # Null /\ act[Before[1]].pk = Null
    <3>1. PICK current : current = ~legacy
      OBVIOUS
    <3>2. act[Before[1]] = [pk |-> Null, hash |-> Before[2], current |-> current]
      BY <2>6, <3>1, Zenon
    <3>3. QED
      BY <2>7, <3>2, RowFacts
  <2>9. QED
    BY <2>4, <2>8
<1>3. QED
  BY <1>1, <1>2 DEF ReferenceInv, Referenced

LEMMA NextReferences ==
    ASSUME RegistryInv, ReferenceInv, [Next]_vars
    PROVE  ReferenceInv'
<1>1. CASE UNCHANGED vars
  BY <1>1 DEF vars, ReferenceInv, Referenced, Active
<1>2. ASSUME NEW a \in Agents, Step(a)
      PROVE  ReferenceInv'
  <2>1. CASE NextDeclared(a)
    BY <2>1, NextDeclaredEffect, ElsewhereReferences
  <2>2. CASE UpsertAction(a)
    BY <2>2, UpsertActionReferences
  <2>3. CASE UpsertFails(a)
    BY <2>3, AbortReferences DEF UpsertFails
  <2>4. CASE RebuildRelationalPorts(a)
    BY <2>4, RebuildRelationalPortsReferences, AbortReferences DEF RebuildRelationalPorts
  <2>5. CASE SaveCounts(a)
    BY <2>5, SaveCountsReferences
  <2>6. CASE CountUsers(a)
    BY <2>6, CountUsersEffect, ElsewhereReferences
  <2>7. CASE CollectUsers(a)
    BY <2>7, CollectUsersEffect, ElsewhereReferences, AbortReferences
  <2>8. CASE DropAction(a)
    BY <2>8, DropActionReferences
  <2>9. CASE SaveImplementation(a)
    BY <2>9, SaveImplementationEffect, ElsewhereReferences, AbortReferences
  <2>10. CASE Reap(a)
    BY <2>10, ReapEffect, ElsewhereReferences, AbortReferences
  <2>11. CASE Commit(a)
    BY <2>11, CommitReferences
  <2>12. CASE Deadlock(a)
    BY <2>12, AbortReferences DEF Deadlock
  <2>13. QED
    BY <1>2, <2>1, <2>2, <2>3, <2>4, <2>5, <2>6, <2>7, <2>8, <2>9, <2>10, <2>11, <2>12
       DEF Step
<1>3. ASSUME NEW a \in Agents, NEW decl \in Declarations, Begin(a, decl)
      PROVE  ReferenceInv'
  BY <1>3, BeginReferences
<1>4. ASSUME NEW p \in Pairs, DeleteImplementation(p) \/ PinRead(p)
      PROVE  ReferenceInv'
  BY <1>4, DeleteReferences, PinReadReferences
<1>5. CASE PinSave
  BY <1>5, PinSaveReferences
<1>6. QED
  BY <1>1, <1>2, <1>3, <1>4, <1>5 DEF Next

\* Registrations rewrite and delete the actions that are there and no others, whatever they
\* have read of them at their start, so the links between the rows stay.
THEOREM ReferencesInductive == Spec => []ReferenceInv
<1>1. Init => ReferenceInv
  BY InitReferences
<1>2. RegistryInv /\ RegistryInv' /\ ReferenceInv /\ [Next]_vars => ReferenceInv'
  BY NextReferences
<1>3. QED
  BY <1>1, <1>2, RegistryInductive, PTL DEF Spec

\* The committed rows keep their types, and every implementation refers to an action that
\* is there: no registration deletes one (_create_implementation) that another refers to.
THEOREM RowsRefer == Spec => []TypeOK
<1>1. RegistryInv /\ ReferenceInv => TypeOK
  BY DEF RegistryInv, Typed, ReferenceInv, Referenced, TypeOK
<1>2. QED
  BY <1>1, RegistryInductive, ReferencesInductive, PTL
-----------------------------------------------------------------------------
(* Registrations that nobody disturbs. *)

Alone(a) == Active(a) /\ tx[a].alone = TRUE

\* The registration t of agent a does not ask for what must fail: an action twice, an action
\* that another interface of the agent has, or the deletion of what is protected.
Clean(t, a) ==
    /\ \A i \in Interfaces : t.decl[i] # Null => Valid(t.decl[i])
    /\ \A i, j \in Interfaces : i # j /\ t.decl[i] # Null /\ t.decl[j] # Null =>
           t.decl[i][1] # t.decl[j][1]
    /\ \A i, j \in Interfaces : i # j /\ t.decl[i] # Null /\ t.impls[j] # Null =>
           t.impls[j].key # t.decl[i][1]
    /\ \A p \in protected : p[1] # a

\* It knows the actions it declares as they are,
KnowsActions(t) ==
    \A k \in Keys : Declares(t, k) => t.actions[k] = IF t.act[k] = Same THEN act[k] ELSE t.act[k]

\* what it has saved refers to them,
SavedRefers(t) ==
    \A j \in Interfaces : t.impl[j] \notin {Same, Null} =>
        /\ t.decl[j] # Null /\ t.impl[j].key = t.decl[j][1]
        /\ t.actions[t.decl[j][1]] # Null
        /\ t.impl[j].action = t.actions[t.decl[j][1]].pk

\* nobody refers to an action it has deleted, which it does not declare,
NobodyRefers(a) ==
    \A k \in Keys : tx[a].act[k] = Null /\ act[k] # Null =>
        /\ ~Declares(tx[a], k)
        /\ \A p \in Pairs : ~Uses(SeesRow(a, p), k, act[k].pk)

\* and of the users of the action it is about to delete it takes the only one away.
MovesItsOwn(a) ==
    /\ tx[a].pc \in {"collect", "drop"} =>
           OldKey(a) # Key(a) /\ Users(a, Known(a)) = {<<a, tx[a].cur>>}
    /\ tx[a].pc = "drop" => Doomed(a) = {<<a, tx[a].cur>>}

Smooth(a) == KnowsActions(tx[a]) /\ SavedRefers(tx[a]) /\ NobodyRefers(a) /\ MovesItsOwn(a)

LoneInv ==
    \A a \in Agents : Alone(a) =>
        /\ Undisturbed(a) /\ tx[a].since = {}
        /\ Clean(tx[a], a) => Smooth(a)

LEMMA AloneActive == \A a \in Agents : Alone(a) => Active(a)
BY DEF Alone

\* While another registration is under way, none is alone.
LEMMA OthersAreNotAlone ==
    ASSUME LoneInv, NEW a \in Agents, Active(a)
    PROVE  \A b \in Agents \ {a} : ~Alone(b)
BY DEF LoneInv, Undisturbed

\* A step of a registration on its own record.
LEMMA LoneStep ==
    ASSUME RegistryInv, LoneInv, NEW a \in Agents, Local(a),
           Alone(a) /\ Clean(tx[a], a) /\ Smooth(a) => Smooth(a)'
    PROVE  LoneInv'
<1>1. tx \in [Agents -> TxRecords \cup {Idle}] /\ tx' = [tx EXCEPT ![a] = tx'[a]]
  BY DEF RegistryInv, Typed, Local
<1>2. \A b \in Agents \ {a} : tx'[b] = tx[b]
  BY <1>1
<1>3. /\ Active(a) /\ pin' = pin /\ protected' = protected
      /\ tx'[a].decl = tx[a].decl /\ tx'[a].impls = tx[a].impls
      /\ tx'[a].alone = tx[a].alone /\ tx'[a].since = tx[a].since
  BY RecordTypes DEF Local, Active, Steps, Frame, Keeps
<1>4. \A b \in Agents \ {a} : ~Alone(b)'
  <2>1. \A b \in Agents \ {a} : ~Alone(b)
    BY <1>3, OthersAreNotAlone
  <2>2. QED
    BY <1>2, <2>1 DEF Alone, Active
<1>5. ASSUME Alone(a)'
      PROVE  Undisturbed(a)' /\ tx'[a].since = {} /\ (Clean(tx[a], a)' => Smooth(a)')
  <2>1. Alone(a)
    BY <1>3, <1>5 DEF Alone
  <2>2. Undisturbed(a) /\ tx[a].since = {} /\ (Clean(tx[a], a) => Smooth(a))
    BY <2>1 DEF LoneInv
  <2>3. Undisturbed(a)'
    BY <1>2, <1>3, <2>2 DEF Undisturbed, Active
  <2>4. Clean(tx[a], a)' => Clean(tx[a], a)
    BY <1>3 DEF Clean
  <2>5. QED
    BY <1>3, <2>1, <2>2, <2>3, <2>4
<1>6. QED
  BY <1>4, <1>5 DEF LoneInv

LEMMA AbortLone ==
    ASSUME RegistryInv, LoneInv, NEW a \in Agents, Active(a), Abort(a)
    PROVE  LoneInv'
<1>1. tx \in [Agents -> TxRecords \cup {Idle}] /\ tx' = [tx EXCEPT ![a] = Idle]
  BY DEF RegistryInv, Typed, Abort
<1>2. ~Active(a)' /\ \A b \in Agents \ {a} : tx'[b] = tx[b]
  BY <1>1 DEF Active, Idle
<1>3. \A b \in Agents \ {a} : ~Alone(b)
  BY OthersAreNotAlone
<1>4. \A b \in Agents : ~Alone(b)'
  BY <1>2, <1>3 DEF Alone, Active
<1>5. QED
  BY <1>4 DEF LoneInv

\* What others do ends the solitude of a registration.
LEMMA DisturbedIsNotAlone ==
    ASSUME NEW t \in TxRecords, NEW deeds \in SUBSET Deeds
    PROVE  Disturbed(t, deeds).alone = FALSE
BY DEF Disturbed, TxRecords

LEMMA UserLone ==
    ASSUME RegistryInv, NEW deeds \in SUBSET Deeds, tx' = Disturb(tx, Null, deeds)
    PROVE  LoneInv'
<1>1. Typed
  BY DEF RegistryInv
<1>2. \A b \in Agents : tx'[b] = IF Active(b) THEN Disturbed(tx[b], deeds) ELSE tx[b]
  BY <1>1, DisturbIs, RowFacts
<1>3. \A b \in Agents : Active(b)' <=> Active(b)
  BY <1>1, DisturbedStaysActive
<1>4. ASSUME NEW b \in Agents, Active(b)'
      PROVE  tx'[b].alone = FALSE
  <2>1. tx[b] \in TxRecords /\ tx'[b] = Disturbed(tx[b], deeds)
    BY <1>1, <1>2, <1>3, <1>4, ActiveIsRecord
  <2>2. QED
    BY <2>1, DisturbedIsNotAlone
<1>5. \A b \in Agents : ~Alone(b)'
  BY <1>4 DEF Alone
<1>6. QED
  BY <1>5 DEF LoneInv

LEMMA DeleteLone ==
    ASSUME RegistryInv, NEW q \in Pairs, DeleteImplementation(q)
    PROVE  LoneInv'
<1>1. PICK deeds : deeds = {<<"deleted", q>>}
  OBVIOUS
<1>2. deeds \in SUBSET Deeds /\ tx' = Disturb(tx, Null, deeds)
  BY <1>1 DEF DeleteImplementation, Deeds
<1>3. QED
  BY <1>2, UserLone

LEMMA PinReadLone ==
    ASSUME RegistryInv, NEW q \in Pairs, PinRead(q)
    PROVE  LoneInv'
<1>1. tx' = Disturb(tx, Null, {}) /\ {} \in SUBSET Deeds
  BY DEF PinRead
<1>2. QED
  BY <1>1, UserLone

LEMMA PinSaveLone ==
    ASSUME RegistryInv, PinSave
    PROVE  LoneInv'
<1>1. PICK deeds : deeds = {<<"revived", pin.of>>}
  OBVIOUS
<1>2. pin.of \in Pairs
  BY DEF RegistryInv, Typed, PinSave
<1>3. deeds \in SUBSET Deeds /\ {} \in SUBSET Deeds
  BY <1>1, <1>2 DEF Deeds
<1>4. tx' = Disturb(tx, Null, deeds) \/ tx' = Disturb(tx, Null, {})
  BY <1>1 DEF PinSave
<1>5. QED
  BY <1>3, <1>4, UserLone

\* A step that leaves the rows it has written and the actions it knows alone.
LEMMA SmoothKept ==
    ASSUME NEW a \in Agents, Local(a), Smooth(a), tx'[a].impl = tx[a].impl,
           tx'[a].cascade = tx[a].cascade, tx'[a].act = tx[a].act,
           tx'[a].actions = tx[a].actions, tx'[a].pc \notin {"collect", "drop"}
    PROVE  Smooth(a)'
<1>1. act' = act /\ impl' = impl /\ tx'[a].decl = tx[a].decl
  BY DEF Local, Frame, Keeps
<1>2. \A p : SeesRow(a, p)' = SeesRow(a, p)
  BY <1>1 DEF SeesRow, SeesImpl
<1>3. \A k : Declares(tx[a], k)' <=> Declares(tx[a], k)
  BY <1>1 DEF Declares
<1>4. KnowsActions(tx[a]) /\ SavedRefers(tx[a]) /\ NobodyRefers(a)
  BY DEF Smooth
<1>5. KnowsActions(tx[a])'
  BY <1>1, <1>3, <1>4 DEF KnowsActions
<1>6. SavedRefers(tx[a])'
  BY <1>1, <1>4 DEF SavedRefers
<1>7. NobodyRefers(a)'
  BY <1>1, <1>2, <1>3, <1>4 DEF NobodyRefers
<1>8. MovesItsOwn(a)'
  BY DEF MovesItsOwn
<1>9. QED
  BY <1>5, <1>6, <1>7, <1>8 DEF Smooth

LEMMA ElsewhereLone ==
    ASSUME RegistryInv, LoneInv, NEW a \in Agents, Local(a), tx'[a].impl = tx[a].impl,
           tx'[a].cascade = tx[a].cascade, tx'[a].act = tx[a].act,
           tx'[a].actions = tx[a].actions, tx'[a].pc \notin {"collect", "drop"}
    PROVE  LoneInv'
BY SmoothKept, LoneStep

LEMMA NextDeclaredLone ==
    ASSUME RegistryInv, LoneInv, NEW a \in Agents, NextDeclared(a)
    PROVE  LoneInv'
<1>1. /\ Local(a) /\ KeepsPorts(tx'[a], tx[a]) /\ KeepsImpls(tx'[a], tx[a])
      /\ tx'[a].pc \in {"reap", "action"}
  BY NextDeclaredEffect
<1>2. QED
  BY <1>1, ElsewhereLone DEF KeepsPorts, KeepsImpls

LEMMA RebuildRelationalPortsLone ==
    ASSUME RegistryInv, LoneInv, NEW a \in Agents, RebuildRelationalPorts(a),
           Hash(a) \notin Malformed
    PROVE  LoneInv'
<1>1. /\ Local(a) /\ KeepsImpls(tx'[a], tx[a]) /\ tx'[a].pc = "counts"
      /\ tx'[a].act = tx[a].act /\ tx'[a].actions = tx[a].actions
  BY RebuildRelationalPortsEffect
<1>2. QED
  BY <1>1, ElsewhereLone DEF KeepsImpls

\* The row it writes is that of the action it declares for this interface and, since it is
\* clean, for no other.
LEMMA WriteLone ==
    ASSUME RegistryInv, LoneInv, NEW a \in Agents, tx[a].pc \in Taking, Local(a),
           NEW r \in Actions, Writes(a, Key(a), r), KeepsImpls(tx'[a], tx[a]),
           tx'[a].pc \notin {"collect", "drop"}
    PROVE  LoneInv'
<1> SUFFICES ASSUME Clean(tx[a], a), Smooth(a)
             PROVE  Smooth(a)'
  BY LoneStep
<1>1. PICK t, n, k, i : t = tx[a] /\ n = tx'[a] /\ k = Key(a) /\ i = t.cur
  OBVIOUS
<1>2. t \in TxRecords /\ t.pc \in Steps /\ i \in Interfaces /\ t.decl[i] # Null /\ k = t.decl[i][1] /\ k \in Keys
  BY <1>1, WhileTaking
<1>3. ImplsInv(t, a, impl[a])
  BY <1>1, <1>2, UnderWay
<1>4. t.impl[i] \in {Same, Null}
  BY <1>1, <1>3 DEF ImplsInv
<1>5. /\ act' = act /\ impl' = impl /\ n.decl = t.decl
      /\ n.impl = t.impl /\ n.cascade = t.cascade
  BY <1>1 DEF Local, Frame, Keeps, KeepsImpls
<1>6. /\ n.act[k] = r /\ n.actions[k] = r
      /\ \A l \in Keys \ {k} : n.act[l] = t.act[l] /\ n.actions[l] = t.actions[l]
  <2>1. n.act = [t.act EXCEPT ![k] = r] /\ n.actions = [t.actions EXCEPT ![k] = r]
    BY <1>1 DEF Writes
  <2>2. t.act \in [Keys -> Actions \cup {Null, Same}] /\ t.actions \in [Keys -> Actions \cup {Null}]
    BY <1>2, RecordTypes
  <2>3. QED
    BY <1>2, <2>1, <2>2
<1>7. r # Null /\ r # Same
  BY RowFacts
<1>8. \A p : SeesRow(a, p)' = SeesRow(a, p)
  BY <1>1, <1>5 DEF SeesRow, SeesImpl
<1>9. \A l : Declares(n, l) <=> Declares(t, l)
  BY <1>5 DEF Declares
<1>10. KnowsActions(t) /\ SavedRefers(t) /\ NobodyRefers(a)
  BY <1>1 DEF Smooth
<1>11. KnowsActions(n)'
  <2> SUFFICES ASSUME NEW l \in Keys, Declares(t, l)
               PROVE  n.actions[l] = IF n.act[l] = Same THEN act[l] ELSE n.act[l]
    BY <1>1, <1>5, <1>9 DEF KnowsActions, Declares
  <2>1. CASE l = k
    BY <1>6, <1>7, <2>1
  <2>2. CASE l # k
    BY <1>6, <1>10, <2>2 DEF KnowsActions
  <2>3. QED
    BY <2>1, <2>2
<1>12. SavedRefers(n)
  <2> SUFFICES ASSUME NEW j \in Interfaces, t.impl[j] \notin {Same, Null}
               PROVE  /\ t.decl[j] # Null /\ t.impl[j].key = t.decl[j][1]
                      /\ n.actions[t.decl[j][1]] # Null
                      /\ t.impl[j].action = n.actions[t.decl[j][1]].pk
    BY <1>5 DEF SavedRefers
  <2>1. /\ t.decl[j] # Null /\ t.impl[j].key = t.decl[j][1]
        /\ t.actions[t.decl[j][1]] # Null /\ t.impl[j].action = t.actions[t.decl[j][1]].pk
    BY <1>10 DEF SavedRefers
  <2>2. j # i
    BY <1>4
  <2>3. t.decl[j][1] # k
    BY <1>1, <1>2, <2>1, <2>2 DEF Clean
  <2>4. t.decl[j][1] \in Keys
    <3>1. t.impl[j] \in Impls
      BY <1>2, RecordTypes
    <3>2. QED
      BY <2>1, <3>1 DEF Impls
  <2>5. QED
    BY <1>6, <2>1, <2>3, <2>4
<1>13. NobodyRefers(a)'
  <2> SUFFICES ASSUME NEW l \in Keys, n.act[l] = Null, act[l] # Null
               PROVE  ~Declares(t, l) /\ \A p \in Pairs : ~Uses(SeesRow(a, p), l, act[l].pk)
    BY <1>1, <1>5, <1>8, <1>9 DEF NobodyRefers, Declares
  <2>1. t.act[l] = Null
    BY <1>6, <1>7
  <2>2. QED
    BY <1>1, <1>10, <2>1 DEF NobodyRefers
<1>14. MovesItsOwn(a)'
  BY DEF MovesItsOwn
<1>15. QED
  BY <1>1, <1>11, <1>12, <1>13, <1>14 DEF Smooth, KnowsActions, SavedRefers, Declares

LEMMA UpsertActionLone ==
    ASSUME RegistryInv, LoneInv, NEW a \in Agents, UpsertAction(a)
    PROVE  LoneInv'
<1>1. /\ Local(a) /\ KeepsImpls(tx'[a], tx[a]) /\ tx[a].pc = "action"
      /\ tx'[a].pc \in {"ports", "impl"}
      /\ (\E r \in Actions : Writes(a, Key(a), r)) \/ KeepsPorts(tx'[a], tx[a])
  BY UpsertActionEffect
<1>2. tx[a].pc \in Taking /\ tx'[a].pc \notin {"collect", "drop"}
  BY <1>1 DEF Taking
<1>3. CASE KeepsPorts(tx'[a], tx[a])
  BY <1>1, <1>2, <1>3, ElsewhereLone DEF KeepsPorts, KeepsImpls
<1>4. CASE \E r \in Actions : Writes(a, Key(a), r)
  BY <1>1, <1>2, <1>4, WriteLone
<1>5. QED
  BY <1>1, <1>3, <1>4

LEMMA SaveCountsLone ==
    ASSUME RegistryInv, LoneInv, NEW a \in Agents, SaveCounts(a)
    PROVE  LoneInv'
<1>1. tx[a].pc = "counts" /\ tx[a].pc \in Taking /\ Active(a)
  BY DEF SaveCounts, At, Taking, Active
<1>2. Entry(a) # Null
  BY <1>1, EntryWhileUpdating, RowFacts
<1>3. \/ Abort(a)
      \/ /\ Local(a) /\ KeepsImpls(tx'[a], tx[a]) /\ tx'[a].pc = "impl"
         /\ \E r \in Actions : Writes(a, Key(a), r)
  BY <1>2, SaveCountsEffect
<1>4. QED
  BY <1>1, <1>3, AbortLone, WriteLone

\* Nothing has been done to the implementations of a registration that is alone.
LEMMA AloneIsUnmeddled ==
    ASSUME LoneInv, NEW a \in Agents, Alone(a)
    PROVE  OwnDeeds(tx[a], a) = {}
BY DEF LoneInv, OwnDeeds

\* The action it moves an interface away from is not that which it declares for it.
LEMMA MovesAway ==
    ASSUME RegistryInv, ReferenceInv, NEW a \in Agents, tx[a].pc \in Taking, Known(a) # Null,
           ~Uses(Known(a), Key(a), Entry(a).pk)
    PROVE  OldKey(a) # Key(a)
<1>1. PICK t, k : t = tx[a] /\ k = Key(a)
  OBVIOUS
<1>2. /\ t.pc \in Steps /\ t.cur \in Interfaces /\ k \in Keys
      /\ Known(a) = t.impls[t.cur] /\ Entry(a) = t.actions[k]
  BY <1>1, WhileTaking
<1>3. Active(a) /\ Declares(t, k)
  BY <1>1, <1>2, UnderWay, KeyIsDeclared
<1>4. LinkInv(t, k, act[k])
  BY <1>1, <1>2, <1>3 DEF ReferenceInv
<1>5. Known(a).key = k => Entry(a).pk = Known(a).action
  BY <1>2, <1>3, <1>4 DEF LinkInv
<1>6. QED
  BY <1>1, <1>5 DEF Uses, OldKey

LEMMA CountUsersLone ==
    ASSUME RegistryInv, ReferenceInv, LoneInv, NEW a \in Agents, CountUsers(a)
    PROVE  LoneInv'
<1>1. /\ Local(a) /\ KeepsPlace(tx'[a], tx[a]) /\ KeepsPorts(tx'[a], tx[a])
      /\ tx[a].pc = "impl" /\ tx'[a].impl = tx[a].impl /\ tx'[a].cascade = tx[a].cascade
      /\ \/ tx'[a].pc = "save"
         \/ /\ tx'[a].pc = "collect" /\ Known(a) # Null
            /\ ~Uses(Known(a), Key(a), Entry(a).pk) /\ Cardinality(Users(a, Known(a))) = 1
  BY CountUsersEffect
<1>2. /\ tx'[a].act = tx[a].act /\ tx'[a].actions = tx[a].actions
      /\ tx'[a].decl = tx[a].decl /\ tx'[a].impls = tx[a].impls /\ tx'[a].cur = tx[a].cur
      /\ act' = act /\ impl' = impl
  BY <1>1 DEF KeepsPorts, KeepsPlace, Local, Keeps, Frame
<1>3. CASE tx'[a].pc = "save"
  BY <1>1, <1>2, <1>3, ElsewhereLone
<1>4. CASE /\ tx'[a].pc = "collect" /\ Known(a) # Null
           /\ ~Uses(Known(a), Key(a), Entry(a).pk) /\ Cardinality(Users(a, Known(a))) = 1
  <2> SUFFICES ASSUME Alone(a), Smooth(a)
               PROVE  Smooth(a)'
    BY <1>1, LoneStep
  <2>1. OldKey(a) # Key(a)
    BY <1>1, <1>4, MovesAway DEF Taking
  <2>2. Users(a, Known(a)) = {<<a, tx[a].cur>>}
    BY <1>1, <1>4, AloneIsUnmeddled, CountsItsOwn
  <2>3. \A p : SeesRow(a, p)' = SeesRow(a, p)
    BY <1>1, <1>2 DEF SeesRow, SeesImpl
  <2>4. Known(a)' = Known(a) /\ Key(a)' = Key(a) /\ OldKey(a)' = OldKey(a)
    BY <1>2 DEF Known, Key, Declared, OldKey
  <2>5. Users(a, Known(a))' = Users(a, Known(a))
    BY <2>3, <2>4 DEF Users
  <2>6. MovesItsOwn(a)'
    BY <1>2, <1>4, <2>1, <2>2, <2>4, <2>5 DEF MovesItsOwn
  <2>7. \A k : Declares(tx[a], k)' <=> Declares(tx[a], k)
    BY <1>2 DEF Declares
  <2>8. KnowsActions(tx[a]) /\ SavedRefers(tx[a]) /\ NobodyRefers(a)
    BY DEF Smooth
  <2>9. KnowsActions(tx[a])'
    BY <1>2, <2>7, <2>8 DEF KnowsActions
  <2>10. SavedRefers(tx[a])'
    BY <1>1, <1>2, <2>8 DEF SavedRefers
  <2>11. NobodyRefers(a)'
    BY <1>2, <2>3, <2>7, <2>8 DEF NobodyRefers
  <2>12. QED
    BY <2>6, <2>9, <2>10, <2>11 DEF Smooth
<1>5. QED
  BY <1>1, <1>3, <1>4

LEMMA CollectUsersLone ==
    ASSUME RegistryInv, LoneInv, NEW a \in Agents, CollectUsers(a)
    PROVE  LoneInv'
<1>1. tx[a].pc = "collect" /\ Active(a)
  BY DEF CollectUsers, At, Active
<1>2. CASE Abort(a)
  BY <1>1, <1>2, AbortLone
<1>3. CASE /\ Local(a) /\ KeepsPlace(tx'[a], tx[a]) /\ KeepsPorts(tx'[a], tx[a])
           /\ tx'[a].impl = tx[a].impl /\ tx'[a].pc = "drop" /\ tx'[a].cascade = tx[a].cascade
           /\ tx'[a].collected = {<<p, SeesRow(a, p).pk>> : p \in Users(a, Known(a))}
  <2> SUFFICES ASSUME Smooth(a)
               PROVE  Smooth(a)'
    BY <1>3, LoneStep
  <2>1. /\ tx'[a].act = tx[a].act /\ tx'[a].actions = tx[a].actions
        /\ tx'[a].decl = tx[a].decl /\ tx'[a].impls = tx[a].impls /\ tx'[a].cur = tx[a].cur
        /\ act' = act /\ impl' = impl
    BY <1>3 DEF KeepsPorts, KeepsPlace, Local, Keeps, Frame
  <2>2. \A p : SeesRow(a, p)' = SeesRow(a, p)
    BY <1>3, <2>1 DEF SeesRow, SeesImpl
  <2>3. Known(a)' = Known(a) /\ Key(a)' = Key(a) /\ OldKey(a)' = OldKey(a)
    BY <2>1 DEF Known, Key, Declared, OldKey
  <2>4. Users(a, Known(a))' = Users(a, Known(a))
    BY <2>2, <2>3 DEF Users
  <2>5. OldKey(a) # Key(a) /\ Users(a, Known(a)) = {<<a, tx[a].cur>>}
    BY <1>1 DEF Smooth, MovesItsOwn
  <2>6. PICK q : q = <<a, tx[a].cur>>
    OBVIOUS
  <2>7. q \in Pairs /\ SeesRow(a, q) # Null
    BY <2>5, <2>6 DEF Users, Uses
  <2>8. tx'[a].collected = {<<q, SeesRow(a, q).pk>>}
    BY <1>3, <2>5, <2>6
  <2>9. Doomed(a)' = {q}
    <3>1. \A p \in Pairs : <<p, SeesRow(a, p).pk>> \in tx'[a].collected => p = q
      BY <2>8
    <3>2. <<q, SeesRow(a, q).pk>> \in tx'[a].collected
      BY <2>8
    <3>3. Doomed(a)' = {p \in Pairs : SeesRow(a, p) # Null /\ <<p, SeesRow(a, p).pk>> \in tx'[a].collected}
      BY <2>2 DEF Doomed
    <3>4. QED
      BY <2>7, <3>1, <3>2, <3>3
  <2>10. MovesItsOwn(a)'
    BY <2>1, <2>3, <2>4, <2>5, <2>6, <2>9 DEF MovesItsOwn
  <2>11. \A k : Declares(tx[a], k)' <=> Declares(tx[a], k)
    BY <2>1 DEF Declares
  <2>12. KnowsActions(tx[a]) /\ SavedRefers(tx[a]) /\ NobodyRefers(a)
    BY DEF Smooth
  <2>13. KnowsActions(tx[a])'
    BY <2>1, <2>11, <2>12 DEF KnowsActions
  <2>14. SavedRefers(tx[a])'
    BY <1>3, <2>1, <2>12 DEF SavedRefers
  <2>15. NobodyRefers(a)'
    BY <2>1, <2>2, <2>11, <2>12 DEF NobodyRefers
  <2>16. QED
    BY <2>10, <2>13, <2>14, <2>15 DEF Smooth
<1>4. QED
  BY <1>2, <1>3, CollectUsersEffect

\* Only its own row goes with the action, which is not one it declares.
LEMMA DropActionLone ==
    ASSUME RegistryInv, ReferenceInv, LoneInv, NEW a \in Agents, DropAction(a)
    PROVE  LoneInv'
<1>1. PICK t, n, k, there, o, i : /\ t = tx[a] /\ n = tx'[a] /\ k = OldKey(a)
                                  /\ there = OldActionIsThere(a) /\ o = Known(a) /\ i = t.cur
  OBVIOUS
<1>2. /\ Local(a) /\ t.pc = "drop" /\ n.pc = "save" /\ k \in Keys /\ o \in Impls
      /\ n.actions = t.actions /\ n.cascade = t.cascade \cup {p \in Doomed(a) : p[1] # a}
      /\ n.impl = [j \in Interfaces |-> IF <<a, j>> \in Doomed(a) THEN Null ELSE t.impl[j]]
      /\ ~there => n.act = t.act
      /\ there => n.act = [t.act EXCEPT ![k] = Null]
  <2>1. /\ Local(a) /\ tx[a].pc = "drop" /\ tx'[a].pc = "save" /\ OldKey(a) \in Keys
        /\ Known(a) \in Impls /\ tx'[a].actions = tx[a].actions
        /\ ~OldActionIsThere(a) => tx'[a].act = tx[a].act
        /\ OldActionIsThere(a) => tx'[a].act = [tx[a].act EXCEPT ![OldKey(a)] = Null]
    BY DropActionEffect
  <2>2. /\ tx'[a].cascade = tx[a].cascade \cup {p \in Doomed(a) : p[1] # a}
        /\ tx'[a].impl = [j \in Interfaces |-> IF <<a, j>> \in Doomed(a) THEN Null
                                               ELSE tx[a].impl[j]]
    BY DropActionEffect
  <2>3. QED
    BY <1>1, <2>1, <2>2
<1> SUFFICES ASSUME Clean(t, a), Smooth(a)
             PROVE  Smooth(a)'
  BY <1>1, <1>2, LoneStep
<1>3. /\ Active(a) /\ t \in TxRecords /\ n.decl = t.decl /\ n.impls = t.impls
      /\ act' = act /\ impl' = impl
  BY <1>1, <1>2, RecordTypes DEF Local, Active, Steps, Keeps, Frame
<1>4. /\ o = t.impls[i] /\ i \in Interfaces /\ o.key = k /\ o # Null
      /\ t.decl[i] # Null /\ Key(a) = t.decl[i][1]
  <2>1. t.pc \in Taking
    BY <1>2 DEF Taking
  <2>2. QED
    BY <1>1, <1>2, <2>1, WhileTaking, RowFacts DEF OldKey
<1>5. (there => n.act[k] = Null) /\ \A l \in Keys : l # k \/ ~there => n.act[l] = t.act[l]
  <2>1. t.act \in [Keys -> Actions \cup {Null, Same}]
    BY <1>3, RecordTypes
  <2>2. CASE there
    BY <1>2, <2>1, <2>2
  <2>3. CASE ~there
    BY <1>2, <2>3
  <2>4. QED
    BY <2>2, <2>3
<1>6. Doomed(a) = {<<a, i>>} /\ Users(a, o) = {<<a, i>>} /\ k # Key(a)
  BY <1>1, <1>2 DEF Smooth, MovesItsOwn
<1>7. /\ n.cascade = t.cascade /\ n.impl[i] = Null
      /\ \A j \in Interfaces \ {i} : n.impl[j] = t.impl[j]
  <2>1. {p \in Doomed(a) : p[1] # a} = {}
    BY <1>6
  <2>2. \A j \in Interfaces : <<a, j>> \in Doomed(a) <=> j = i
    BY <1>6
  <2>3. QED
    BY <1>2, <1>4, <2>1, <2>2
<1>8. ASSUME NEW p \in Pairs
      PROVE  SeesRow(a, p)' = IF p = <<a, i>> THEN Null ELSE SeesRow(a, p)
  <2>1. PICK b \in Agents, j \in Interfaces : p = <<b, j>>
    BY DEF Pairs
  <2>2. p[1] = b /\ p[2] = j
    BY <2>1
  <2>3. CASE b # a
    BY <1>1, <1>3, <1>7, <2>1, <2>2, <2>3 DEF SeesRow
  <2>4. CASE b = a /\ j # i
    BY <1>1, <1>3, <1>7, <2>1, <2>2, <2>4 DEF SeesRow, SeesImpl
  <2>5. CASE b = a /\ j = i
    BY <1>1, <1>3, <1>7, <2>1, <2>2, <2>5, RowFacts DEF SeesRow, SeesImpl
  <2>6. QED
    BY <2>3, <2>4, <2>5
<1>9. ~Declares(t, k)
  <2> SUFFICES ASSUME NEW j \in Interfaces, t.decl[j] # Null, t.decl[j][1] = k
               PROVE  FALSE
    BY DEF Declares
  <2>1. j # i
    BY <1>4, <1>6
  <2>2. t.impls[i].key # t.decl[j][1]
    BY <1>4, <2>1 DEF Clean
  <2>3. QED
    BY <1>4, <2>2
<1>10. \A l : Declares(n, l) <=> Declares(t, l)
  BY <1>3 DEF Declares
<1>11. KnowsActions(t) /\ SavedRefers(t) /\ NobodyRefers(a)
  BY <1>1 DEF Smooth
<1>12. KnowsActions(n)'
  <2> SUFFICES ASSUME NEW l \in Keys, Declares(t, l)
               PROVE  n.actions[l] = IF n.act[l] = Same THEN act[l] ELSE n.act[l]
    BY <1>3, <1>10 DEF KnowsActions, Declares
  <2>1. n.act[l] = t.act[l]
    BY <1>5, <1>9
  <2>2. QED
    BY <1>2, <1>11, <2>1 DEF KnowsActions
<1>13. SavedRefers(n)
  <2> SUFFICES ASSUME NEW j \in Interfaces, n.impl[j] \notin {Same, Null}
               PROVE  /\ t.decl[j] # Null /\ n.impl[j].key = t.decl[j][1]
                      /\ t.actions[t.decl[j][1]] # Null
                      /\ n.impl[j].action = t.actions[t.decl[j][1]].pk
    BY <1>2, <1>3 DEF SavedRefers
  <2>1. n.impl[j] = t.impl[j]
    BY <1>7
  <2>2. QED
    BY <1>11, <2>1 DEF SavedRefers
<1>14. NobodyRefers(a)'
  <2> SUFFICES ASSUME NEW l \in Keys, n.act[l] = Null, act[l] # Null
               PROVE  ~Declares(t, l) /\ \A p \in Pairs : ~Uses(SeesRow(a, p)', l, act[l].pk)
    BY <1>1, <1>3, <1>10 DEF NobodyRefers, Declares
  <2>1. \A p \in Pairs : Uses(SeesRow(a, p)', l, act[l].pk) => p # <<a, i>> /\ Uses(SeesRow(a, p), l, act[l].pk)
    BY <1>8 DEF Uses
  <2>2. CASE l # k \/ ~there
    <3>1. t.act[l] = Null
      BY <1>5, <2>2
    <3>2. QED
      BY <1>1, <1>11, <2>1, <3>1 DEF NobodyRefers
  <2>3. CASE l = k /\ there
    <3>1. SeesAction(a, k) # Null /\ SeesAction(a, k).pk = o.action
      BY <1>1, <2>3 DEF OldActionIsThere
    <3>2. LinkInv(t, k, act[k])
      BY <1>1, <1>2, <1>3 DEF ReferenceInv
    <3>3. act[k].pk = o.action
      <4>1. t.act[k] \notin {Same, Null} => t.act[k].pk = act[k].pk
        BY <2>3, <3>2 DEF LinkInv
      <4>2. QED
        BY <1>1, <3>1, <4>1 DEF SeesAction
    <3>4. \A p \in Pairs : Uses(SeesRow(a, p), k, o.action) => p \in Users(a, o)
      BY <1>4 DEF Users
    <3>5. \A p \in Pairs : Uses(SeesRow(a, p), k, o.action) => p = <<a, i>>
      BY <1>6, <3>4
    <3>6. QED
      BY <1>9, <2>1, <2>3, <3>3, <3>5
  <2>4. QED
    BY <2>2, <2>3
<1>15. MovesItsOwn(a)'
  BY <1>1, <1>2 DEF MovesItsOwn
<1>16. QED
  BY <1>1, <1>12, <1>13, <1>14, <1>15 DEF Smooth, KnowsActions, SavedRefers, Declares

\* What it saves is an implementation of an action it has not deleted.
LEMMA SaveImplementationLone ==
    ASSUME RegistryInv, LoneInv, NEW a \in Agents, SaveImplementation(a)
    PROVE  LoneInv'
<1>1. tx[a].pc = "save" /\ tx[a].pc \in Taking /\ Active(a)
  BY DEF SaveImplementation, At, Active, Taking
<1>2. CASE Abort(a)
  BY <1>1, <1>2, AbortLone
<1>3. CASE /\ Local(a) /\ KeepsPorts(tx'[a], tx[a]) /\ tx'[a].pc = "next"
           /\ Entry(a) \in Actions /\ tx'[a].cascade = tx[a].cascade
           /\ \E r \in Impls : /\ tx'[a].impl = [tx[a].impl EXCEPT ![tx[a].cur] = r]
                               /\ r.key = Key(a) /\ r.action = Entry(a).pk
  <2> SUFFICES ASSUME Smooth(a)
               PROVE  Smooth(a)'
    BY <1>3, LoneStep
  <2>1. PICK r \in Impls : /\ tx'[a].impl = [tx[a].impl EXCEPT ![tx[a].cur] = r]
                           /\ r.key = Key(a) /\ r.action = Entry(a).pk
    BY <1>3
  <2>2. PICK t, n, k, i : t = tx[a] /\ n = tx'[a] /\ k = Key(a) /\ i = t.cur
    OBVIOUS
  <2>3. /\ t \in TxRecords /\ i \in Interfaces /\ t.decl[i] # Null /\ k = t.decl[i][1]
        /\ k \in Keys /\ Entry(a) = t.actions[k] /\ Declares(t, k)
    BY <1>1, <2>2, WhileTaking, KeyIsDeclared
  <2>4. /\ act' = act /\ impl' = impl /\ n.decl = t.decl /\ n.cascade = t.cascade
        /\ n.act = t.act /\ n.actions = t.actions
    BY <1>3, <2>2 DEF KeepsPorts, Local, Keeps, Frame
  <2>5. n.impl[i] = r /\ \A j \in Interfaces \ {i} : n.impl[j] = t.impl[j]
    <3>1. t.impl \in [Interfaces -> Impls \cup {Null, Same}]
      BY <2>3, RecordTypes
    <3>2. QED
      BY <2>1, <2>2, <2>3, <3>1
  <2>6. ASSUME NEW p \in Pairs
        PROVE  SeesRow(a, p)' = IF p = <<a, i>> THEN r ELSE SeesRow(a, p)
    <3>1. PICK b \in Agents, j \in Interfaces : p = <<b, j>>
      BY DEF Pairs
    <3>2. p[1] = b /\ p[2] = j
      BY <3>1
    <3>3. CASE b # a
      BY <2>2, <2>4, <3>1, <3>2, <3>3 DEF SeesRow
    <3>4. CASE b = a /\ j # i
      BY <2>2, <2>4, <2>5, <3>1, <3>2, <3>4 DEF SeesRow, SeesImpl
    <3>5. CASE b = a /\ j = i
      BY <2>2, <2>4, <2>5, <3>1, <3>2, <3>5, RowFacts DEF SeesRow, SeesImpl
    <3>6. QED
      BY <3>3, <3>4, <3>5
  <2>7. \A l : Declares(n, l) <=> Declares(t, l)
    BY <2>4 DEF Declares
  <2>8. KnowsActions(t) /\ SavedRefers(t) /\ NobodyRefers(a)
    BY <2>2 DEF Smooth
  <2>9. KnowsActions(n)'
    BY <2>4, <2>7, <2>8 DEF KnowsActions, Declares
  <2>10. SavedRefers(n)
    <3> SUFFICES ASSUME NEW j \in Interfaces, n.impl[j] \notin {Same, Null}
                 PROVE  /\ t.decl[j] # Null /\ n.impl[j].key = t.decl[j][1]
                        /\ t.actions[t.decl[j][1]] # Null
                        /\ n.impl[j].action = t.actions[t.decl[j][1]].pk
      BY <2>4 DEF SavedRefers
    <3>1. CASE j = i
      <4>1. t.actions[k] # Null
        BY <1>3, <2>3, RowFacts
      <4>2. r.key = t.decl[i][1] /\ r.action = t.actions[t.decl[i][1]].pk
        BY <2>1, <2>2, <2>3
      <4>3. QED
        BY <2>3, <2>5, <3>1, <4>1, <4>2
    <3>2. CASE j # i
      BY <2>5, <2>8, <3>2 DEF SavedRefers
    <3>3. QED
      BY <3>1, <3>2
  <2>11. NobodyRefers(a)'
    <3> SUFFICES ASSUME NEW l \in Keys, t.act[l] = Null, act[l] # Null
                 PROVE  ~Declares(t, l) /\ \A p \in Pairs : ~Uses(SeesRow(a, p)', l, act[l].pk)
      BY <2>2, <2>4, <2>7 DEF NobodyRefers, Declares
    <3>1. ~Declares(t, l) /\ \A p \in Pairs : ~Uses(SeesRow(a, p), l, act[l].pk)
      BY <2>2, <2>8 DEF NobodyRefers
    <3>2. l # k
      BY <2>3, <3>1
    <3>3. ~Uses(r, l, act[l].pk)
      BY <2>1, <2>2, <3>2 DEF Uses
    <3>4. QED
      BY <2>6, <3>1, <3>3
  <2>12. MovesItsOwn(a)'
    BY <1>3 DEF MovesItsOwn
  <2>13. QED
    BY <2>2, <2>9, <2>10, <2>11, <2>12 DEF Smooth, KnowsActions, SavedRefers, Declares
<1>4. QED
  BY <1>2, <1>3, SaveImplementationEffect

LEMMA ReapLone ==
    ASSUME RegistryInv, LoneInv, NEW a \in Agents, Reap(a)
    PROVE  LoneInv'
<1>1. Active(a)
  BY DEF Reap, At, Active
<1>2. CASE Abort(a)
  BY <1>1, <1>2, AbortLone
<1>3. CASE /\ Local(a) /\ KeepsPorts(tx'[a], tx[a]) /\ tx'[a].pc = "commit"
           /\ tx'[a].impl = [j \in Interfaces |-> IF j \in Stale(a) THEN Null ELSE tx[a].impl[j]]
           /\ tx'[a].cascade = tx[a].cascade
  <2> SUFFICES ASSUME Smooth(a)
               PROVE  Smooth(a)'
    BY <1>3, LoneStep
  <2>1. PICK t, n : t = tx[a] /\ n = tx'[a]
    OBVIOUS
  <2>2. /\ act' = act /\ impl' = impl /\ n.decl = t.decl /\ n.cascade = t.cascade
        /\ n.act = t.act /\ n.actions = t.actions
    BY <1>3, <2>1 DEF KeepsPorts, Local, Keeps, Frame
  <2>3. \A j \in Interfaces : n.impl[j] = Null \/ n.impl[j] = t.impl[j]
    BY <1>3, <2>1
  <2>4. ASSUME NEW p \in Pairs
        PROVE  SeesRow(a, p)' = Null \/ SeesRow(a, p)' = SeesRow(a, p)
    <3>1. PICK b \in Agents, j \in Interfaces : p = <<b, j>>
      BY DEF Pairs
    <3>2. p[1] = b /\ p[2] = j
      BY <3>1
    <3>3. CASE b # a
      BY <2>1, <2>2, <3>2, <3>3 DEF SeesRow
    <3>4. CASE b = a
      BY <2>1, <2>2, <2>3, <3>2, <3>4, RowFacts DEF SeesRow, SeesImpl
    <3>5. QED
      BY <3>3, <3>4
  <2>5. \A l : Declares(n, l) <=> Declares(t, l)
    BY <2>2 DEF Declares
  <2>6. KnowsActions(t) /\ SavedRefers(t) /\ NobodyRefers(a)
    BY <2>1 DEF Smooth
  <2>7. KnowsActions(n)'
    BY <2>2, <2>5, <2>6 DEF KnowsActions, Declares
  <2>8. SavedRefers(n)
    BY <2>2, <2>3, <2>6 DEF SavedRefers
  <2>9. NobodyRefers(a)'
    <3> SUFFICES ASSUME NEW l \in Keys, t.act[l] = Null, act[l] # Null
                 PROVE  ~Declares(t, l) /\ \A p \in Pairs : ~Uses(SeesRow(a, p)', l, act[l].pk)
      BY <2>1, <2>2, <2>5 DEF NobodyRefers, Declares
    <3>1. ~Declares(t, l) /\ \A p \in Pairs : ~Uses(SeesRow(a, p), l, act[l].pk)
      BY <2>1, <2>6 DEF NobodyRefers
    <3>2. \A p \in Pairs : Uses(SeesRow(a, p)', l, act[l].pk) => Uses(SeesRow(a, p), l, act[l].pk)
      BY <2>4 DEF Uses
    <3>3. QED
      BY <3>1, <3>2
  <2>10. MovesItsOwn(a)'
    BY <1>3 DEF MovesItsOwn
  <2>11. QED
    BY <2>1, <2>7, <2>8, <2>9, <2>10 DEF Smooth, KnowsActions, SavedRefers, Declares
<1>4. QED
  BY <1>2, <1>3, ReapEffect

LEMMA CommitLone ==
    ASSUME RegistryInv, LoneInv, NEW a \in Agents, Commit(a)
    PROVE  LoneInv'
<1>1. Active(a)
  BY DEF Commit, At, Active
<1>2. CASE Abort(a)
  BY <1>1, <1>2, AbortLone
<1>3. CASE /\ ~Active(a)' /\ Lost(a) \in SUBSET Deeds
           /\ \A b \in Agents \ {a} :
                 /\ Active(b)' <=> Active(b)
                 /\ Active(b) => tx[b] \in TxRecords /\ tx'[b] = Disturbed(tx[b], Lost(a))
  <2>1. ASSUME NEW b \in Agents, Active(b)'
        PROVE  tx'[b].alone = FALSE
    <3>1. tx[b] \in TxRecords /\ tx'[b] = Disturbed(tx[b], Lost(a))
      BY <1>3, <2>1
    <3>2. QED
      BY <1>3, <3>1, DisturbedIsNotAlone
  <2>2. \A b \in Agents : ~Alone(b)'
    BY <2>1 DEF Alone
  <2>3. QED
    BY <2>2 DEF LoneInv
<1>4. QED
  BY <1>2, <1>3, CommitEffect

\* A registration that begins alone knows the actions as they are.
LEMMA BeginLone ==
    ASSUME RegistryInv, LoneInv, NEW a \in Agents, NEW decl \in Declarations, Begin(a, decl)
    PROVE  LoneInv'
<1>1. /\ act' = act /\ impl' = impl /\ pin' = pin
      /\ tx'[a].pc = "next" /\ tx'[a].since = {}
      /\ \A k \in Keys :
            /\ tx'[a].act[k] = Same
            /\ tx'[a].actions[k] = IF Declares(tx'[a], k) THEN act[k] ELSE Null
      /\ \A j \in Interfaces : tx'[a].impl[j] = Same
      /\ \A b \in Agents \ {a} :
            /\ Active(b)' <=> Active(b)
            /\ Active(b) => tx[b] \in TxRecords /\ tx'[b] = Disturbed(tx[b], {})
  BY BeginEffect
<1>2. ASSUME NEW b \in Agents \ {a}, Active(b)'
      PROVE  tx'[b].alone = FALSE
  <2>1. tx[b] \in TxRecords /\ tx'[b] = Disturbed(tx[b], {}) /\ {} \in SUBSET Deeds
    BY <1>1, <1>2
  <2>2. QED
    BY <2>1, DisturbedIsNotAlone
<1>3. ASSUME Alone(a)'
      PROVE  Undisturbed(a)'
  <2>1. PICK f, u, n :
           /\ f = Disturb(tx, a, {}) /\ u = Undisturbed(a)
           /\ n = [pc |-> "next", decl |-> decl, left |-> {j \in Interfaces : decl[j] # Null},
                   cur |-> Null, alone |-> u,
                   actions |-> [k \in Keys |-> IF \E j \in Interfaces : decl[j] # Null /\ decl[j][1] = k
                                               THEN act[k] ELSE Null],
                   impls |-> impl[a],
                   act |-> [k \in Keys |-> Same], impl |-> [j \in Interfaces |-> Same],
                   dropped |-> [k \in Keys |-> {}], built |-> [k \in Keys |-> {}],
                   collected |-> {}, cascade |-> {}, counted |-> {}, since |-> {}]
    OBVIOUS
  <2>2. tx' = [f EXCEPT ![a] = n]
    BY <2>1 DEF Begin
  <2>3. f \in [Agents -> TxRecords \cup {Idle}]
    BY <2>1, DisturbIs DEF RegistryInv
  <2>4. tx'[a] = n /\ n.alone = u
    BY <2>1, <2>2, <2>3
  <2>5. u = TRUE
    BY <1>3, <2>4 DEF Alone
  <2>6. Undisturbed(a)
    BY <2>1, <2>5, Zenon
  <2>7. QED
    BY <1>1, <2>6 DEF Undisturbed
<1>4. Smooth(a)'
  <2>1. KnowsActions(tx[a])'
    BY <1>1 DEF KnowsActions
  <2>2. SavedRefers(tx[a])'
    BY <1>1 DEF SavedRefers
  <2>3. NobodyRefers(a)'
    BY <1>1, RowFacts DEF NobodyRefers
  <2>4. MovesItsOwn(a)'
    BY <1>1 DEF MovesItsOwn
  <2>5. QED
    BY <2>1, <2>2, <2>3, <2>4 DEF Smooth
<1>5. \A b \in Agents \ {a} : ~Alone(b)'
  BY <1>2 DEF Alone
<1>6. QED
  BY <1>1, <1>3, <1>4, <1>5 DEF LoneInv

LEMMA NextLone ==
    ASSUME RegistryInv, ReferenceInv, LoneInv, [Next]_vars
    PROVE  LoneInv'
<1>1. CASE UNCHANGED vars
  <2>1. /\ act' = act /\ ports' = ports /\ impl' = impl /\ tx' = tx /\ pin' = pin
        /\ protected' = protected
    BY <1>1 DEF vars
  <2>2. QED
    BY <2>1 DEF LoneInv, Alone, Active, Undisturbed, Clean, Smooth, KnowsActions, SavedRefers,
                NobodyRefers, MovesItsOwn, Declares, SeesRow, SeesImpl, OldKey, Known, Key,
                Declared, Users, Doomed
<1>2. ASSUME NEW a \in Agents, Step(a)
      PROVE  LoneInv'
  <2>1. CASE NextDeclared(a)
    BY <2>1, NextDeclaredLone
  <2>2. CASE UpsertAction(a)
    BY <2>2, UpsertActionLone
  <2>3. CASE UpsertFails(a)
    BY <2>3, AbortLone DEF UpsertFails, At, Active
  <2>4. CASE RebuildRelationalPorts(a)
    BY <2>4, RebuildRelationalPortsLone, AbortLone DEF RebuildRelationalPorts, At, Active
  <2>5. CASE SaveCounts(a)
    BY <2>5, SaveCountsLone
  <2>6. CASE CountUsers(a)
    BY <2>6, CountUsersLone
  <2>7. CASE CollectUsers(a)
    BY <2>7, CollectUsersLone
  <2>8. CASE DropAction(a)
    BY <2>8, DropActionLone
  <2>9. CASE SaveImplementation(a)
    BY <2>9, SaveImplementationLone
  <2>10. CASE Reap(a)
    BY <2>10, ReapLone
  <2>11. CASE Commit(a)
    BY <2>11, CommitLone
  <2>12. CASE Deadlock(a)
    BY <2>12, AbortLone DEF Deadlock
  <2>13. QED
    BY <1>2, <2>1, <2>2, <2>3, <2>4, <2>5, <2>6, <2>7, <2>8, <2>9, <2>10, <2>11, <2>12
       DEF Step
<1>3. ASSUME NEW a \in Agents, NEW decl \in Declarations, Begin(a, decl)
      PROVE  LoneInv'
  BY <1>3, BeginLone
<1>4. ASSUME NEW p \in Pairs, DeleteImplementation(p) \/ PinRead(p)
      PROVE  LoneInv'
  BY <1>4, DeleteLone, PinReadLone
<1>5. CASE PinSave
  BY <1>5, PinSaveLone
<1>6. QED
  BY <1>1, <1>2, <1>3, <1>4, <1>5 DEF Next

\* A registration that begins when nothing else is going on and is not disturbed knows the
\* actions it declares, deletes only what nobody refers to any more, and takes along no
\* implementation but that it moves.
THEOREM LoneInductive == Spec => []LoneInv
<1>1. Init => LoneInv
  BY DEF Init, LoneInv, Alone, Active, Idle
<1>2. RegistryInv /\ ReferenceInv /\ LoneInv /\ [Next]_vars => LoneInv'
  BY NextLone
<1>3. QED
  BY <1>1, <1>2, RegistryInductive, ReferencesInductive, PTL DEF Spec

\* Alone, a clean registration does not fail: it finds the action it declares where it
\* knows it,
LEMMA LoneFindsEntry ==
    ASSUME RegistryInv, NEW a \in Agents, tx[a].pc \in Taking, Smooth(a)
    PROVE  SeesAction(a, Key(a)) = Entry(a)
<1>1. Declares(tx[a], Key(a)) /\ Key(a) \in Keys /\ Entry(a) = tx[a].actions[Key(a)]
  BY KeyIsDeclared, WhileTaking
<1>2. QED
  BY <1>1 DEF Smooth, KnowsActions, SeesAction

\* what it takes is valid, so that its ports can be built,
LEMMA LoneIsValid ==
    ASSUME RegistryInv, NEW a \in Agents, tx[a].pc \in Taking, Clean(tx[a], a)
    PROVE  Valid(Declared(a)) /\ Hash(a) \notin Malformed
<1>1. tx[a].pc \in Steps
  BY DEF Taking, Steps
<1>2. ImplsInv(tx[a], a, impl[a])
  BY <1>1, UnderWay
<1>3. tx[a].cur \in Interfaces /\ tx[a].decl[tx[a].cur] # Null
  BY <1>2 DEF ImplsInv
<1>4. Valid(Declared(a))
  BY <1>3 DEF Clean, Declared
<1>5. QED
  BY <1>4 DEF Valid, Hash

LEMMA LoneUpserts ==
    ASSUME RegistryInv, NEW a \in Agents, Clean(tx[a], a), Smooth(a)
    PROVE  ~UpsertFails(a)
<1> SUFFICES ASSUME UpsertFails(a)
             PROVE  FALSE
  OBVIOUS
<1>1. PICK s, e, h : s = SeesAction(a, Key(a)) /\ e = Entry(a) /\ h = Hash(a)
  OBVIOUS
<1>2. tx[a].pc \in Taking
  BY DEF UpsertFails, At, Taking
<1>3. s = e
  BY <1>1, <1>2, LoneFindsEntry
<1>4. e # Null => EntryIsThere(a)
  BY <1>1, <1>3 DEF EntryIsThere
<1>5. \/ e = Null /\ s # Null
      \/ e # Null /\ ~EntryIsThere(a)
      \/ ~Coherent(a)
  BY <1>1, Zenon DEF UpsertFails
<1>6. Coherent(a)
  BY <1>2, LoneIsValid DEF Coherent, Valid
<1>7. QED
  BY <1>3, <1>4, <1>5, <1>6, Zenon

\* saves its counts,
LEMMA LoneSavesCounts ==
    ASSUME RegistryInv, NEW a \in Agents, Active(a), Smooth(a), SaveCounts(a)
    PROVE  Active(a)'
<1>1. tx[a].pc = "counts" /\ tx[a].pc \in Taking
  BY DEF SaveCounts, At, Taking
<1>2. Entry(a) # Null
  BY <1>1, EntryWhileUpdating, RowFacts
<1>3. SeesAction(a, Key(a)) = Entry(a)
  BY <1>1, LoneFindsEntry
<1>4. EntryIsThere(a)
  BY <1>2, <1>3 DEF EntryIsThere
<1>5. Local(a)
  BY <1>2, <1>4, SaveCountsEffect
<1>6. QED
  BY <1>5, RecordTypes DEF Local, Active, Steps

\* deletes no protected row with an action,
LEMMA LoneCollects ==
    ASSUME RegistryInv, NEW a \in Agents, Clean(tx[a], a), Smooth(a), CollectUsers(a)
    PROVE  Active(a)'
<1>1. tx[a].pc = "collect"
  BY DEF CollectUsers, At
<1>2. Users(a, Known(a)) = {<<a, tx[a].cur>>}
  BY <1>1 DEF Smooth, MovesItsOwn
<1>3. Users(a, Known(a)) \cap protected = {}
  <2>1. \A p \in protected : p[1] # a
    BY DEF Clean
  <2>2. PICK q : q = <<a, tx[a].cur>>
    OBVIOUS
  <2>3. q[1] = a /\ Users(a, Known(a)) = {q}
    BY <1>2, <2>2
  <2>4. QED
    BY <2>1, <2>3
<1>4. Local(a)
  BY <1>3, CollectUsersEffect
<1>5. QED
  BY <1>4, RecordTypes DEF Local, Active, Steps

\* saves its implementations beside those it has,
LEMMA LoneSaves ==
    ASSUME RegistryInv, LoneInv, NEW a \in Agents, Alone(a), Clean(tx[a], a), Smooth(a),
           SaveImplementation(a)
    PROVE  Active(a)'
<1>1. PICK t, i, k : t = tx[a] /\ i = t.cur /\ k = Key(a)
  OBVIOUS
<1>2. t.pc = "save" /\ t.pc \in Taking
  BY <1>1 DEF SaveImplementation, At, Taking
<1>3. /\ t \in TxRecords /\ t.pc \in Steps /\ i \in Interfaces /\ t.decl[i] # Null
      /\ k = t.decl[i][1] /\ Known(a) = t.impls[i]
  BY <1>1, <1>2, WhileTaking
<1>4. ImplsInv(t, a, impl[a]) /\ OwnDeeds(t, a) = {}
  BY <1>1, <1>3, UnderWay, AloneIsUnmeddled
<1>5. impl[a] = t.impls /\ t.impl[i] \in {Same, Null}
  BY <1>1, <1>2, <1>4 DEF ImplsInv
<1>6. ASSUME NEW j \in Interfaces, j # i
      PROVE  ~Uses(SeesImpl(a, j), k, Entry(a).pk)
  <2>1. CASE t.impl[j] = Same
    <3>1. SeesImpl(a, j) = t.impls[j]
      BY <1>1, <1>5, <2>1 DEF SeesImpl
    <3>2. t.impls[j] # Null => t.impls[j].key # k
      BY <1>1, <1>3, <1>6 DEF Clean
    <3>3. QED
      BY <3>1, <3>2 DEF Uses
  <2>2. CASE t.impl[j] # Same
    <3>1. SeesImpl(a, j) = t.impl[j]
      BY <1>1, <2>2 DEF SeesImpl
    <3>2. t.impl[j] # Null => t.decl[j] # Null /\ t.impl[j].key = t.decl[j][1]
      BY <1>1, <2>2 DEF Smooth, SavedRefers
    <3>3. t.decl[j] # Null => t.decl[j][1] # k
      BY <1>1, <1>3, <1>6 DEF Clean
    <3>4. QED
      BY <3>1, <3>2, <3>3 DEF Uses
  <2>3. QED
    BY <2>1, <2>2
<1>7. SeesImpl(a, i) = Null \/ SeesImpl(a, i) = Known(a)
  BY <1>1, <1>3, <1>5 DEF SeesImpl
<1>8. ~Clashes(a, IF Known(a) = Null THEN regs[a] ELSE Known(a).pk)
  BY <1>1, <1>6, <1>7 DEF Clashes
<1>9. Local(a)
  BY <1>8, SaveImplementationEffect
<1>10. QED
  BY <1>9, RecordTypes DEF Local, Active, Steps

\* reaps,
LEMMA LoneReaps ==
    ASSUME RegistryInv, NEW a \in Agents, Clean(tx[a], a), Reap(a)
    PROVE  Active(a)'
<1>1. \A j : <<a, j>> \notin protected
  <2>1. \A p \in protected : p[1] # a
    BY DEF Clean
  <2>2. \A j : <<a, j>>[1] = a
    OBVIOUS
  <2>3. QED
    BY <2>1, <2>2
<1>2. Local(a)
  BY <1>1, ReapEffect
<1>3. QED
  BY <1>2, RecordTypes DEF Local, Active, Steps

\* and commits.
LEMMA LoneCommits ==
    ASSUME RegistryInv, NEW a \in Agents, Active(a), Smooth(a), Commit(a)
    PROVE  declared'[a] = tx[a].decl
<1>1. tx[a] \in TxRecords
  BY ActiveIsRecord DEF RegistryInv
<1>2. KnowsActions(tx[a]) /\ SavedRefers(tx[a]) /\ NobodyRefers(a)
  BY DEF Smooth
<1>3. ASSUME NEW j \in Interfaces, tx[a].impl[j] \notin {Same, Null}
      PROVE  /\ SeesAction(a, tx[a].impl[j].key) # Null
             /\ SeesAction(a, tx[a].impl[j].key).pk = tx[a].impl[j].action
  <2>1. PICK r, k : r = tx[a].impl[j] /\ k = r.key
    OBVIOUS
  <2>2. r \in Impls
    BY <1>1, <1>3, <2>1, RecordTypes
  <2>3. k \in Keys
    BY <2>1, <2>2 DEF Impls
  <2>4. /\ tx[a].decl[j] # Null /\ k = tx[a].decl[j][1]
        /\ tx[a].actions[k] # Null /\ r.action = tx[a].actions[k].pk
    BY <1>2, <1>3, <2>1 DEF SavedRefers
  <2>5. SeesAction(a, k) = tx[a].actions[k]
    BY <1>2, <2>3, <2>4 DEF KnowsActions, Declares, SeesAction
  <2>6. QED
    BY <2>1, <2>4, <2>5
<1>4. ForeignKeysHold(a)
  BY <1>2, <1>3 DEF ForeignKeysHold, NobodyRefers
<1>5. declared' = [declared EXCEPT ![a] = tx[a].decl]
  BY <1>4, CommitEffect
<1>6. QED
  BY <1>5 DEF RegistryInv, Typed

LEMMA LoneWaitsForNobody ==
    ASSUME LoneInv, NEW a \in Agents, Alone(a)
    PROVE  ~Deadlock(a)
<1>1. \A b \in Agents \ {a} : Holds(b) = {}
  BY DEF LoneInv, Undisturbed, Holds
<1>2. WaitsFor(a) = {}
  BY <1>1 DEF WaitsFor
<1>3. QED
  BY <1>2 DEF Deadlock

\* Its own steps end a clean registration that is alone only when it has landed, and the
\* steps of others do not end it at all.
LEMMA LocalIsActive ==
    ASSUME NEW a \in Agents, Local(a)
    PROVE  Active(a)'
BY RecordTypes DEF Local, Active, Steps

LEMMA OwnStepLands ==
    ASSUME RegistryInv, ReferenceInv, LoneInv, NEW a \in Agents, Alone(a), Clean(tx[a], a), Step(a)
    PROVE  Active(a)' \/ declared'[a] = tx[a].decl
<1>1. Active(a) /\ Smooth(a)
  BY AloneActive DEF LoneInv
<1>2. CASE NextDeclared(a)
  BY <1>2, NextDeclaredEffect, LocalIsActive
<1>3. CASE UpsertAction(a)
  BY <1>3, UpsertActionEffect, LocalIsActive
<1>4. CASE RebuildRelationalPorts(a)
  <2>1. tx[a].pc \in Taking
    BY <1>4 DEF RebuildRelationalPorts, At, Taking
  <2>2. Hash(a) \notin Malformed
    BY <2>1, LoneIsValid
  <2>3. QED
    BY <1>4, <2>2, RebuildRelationalPortsEffect, LocalIsActive
<1>5. CASE SaveCounts(a)
  BY <1>1, <1>5, LoneSavesCounts
<1>6. CASE CountUsers(a)
  BY <1>6, CountUsersEffect, LocalIsActive
<1>7. CASE CollectUsers(a)
  BY <1>1, <1>7, LoneCollects
<1>8. CASE DropAction(a)
  BY <1>8, DropActionEffect, LocalIsActive
<1>9. CASE SaveImplementation(a)
  BY <1>1, <1>9, LoneSaves
<1>10. CASE Reap(a)
  BY <1>10, LoneReaps
<1>11. CASE Commit(a)
  BY <1>1, <1>11, LoneCommits
<1>12. ~UpsertFails(a) /\ ~Deadlock(a)
  BY <1>1, LoneUpserts, LoneWaitsForNobody
<1>13. QED
  BY <1>2, <1>3, <1>4, <1>5, <1>6, <1>7, <1>8, <1>9, <1>10, <1>11, <1>12 DEF Step

\* No other registration is under way, and users end none.
LEMMA NextLands ==
    ASSUME RegistryInv, ReferenceInv, LoneInv, NEW a \in Agents, Alone(a), Clean(tx[a], a),
           [Next]_vars
    PROVE  Active(a)' \/ declared'[a] = tx[a].decl
<1>1. Active(a) /\ Typed
  BY AloneActive DEF RegistryInv
<1>2. CASE UNCHANGED vars
  BY <1>1, <1>2 DEF vars, Active
<1>3. ASSUME NEW b \in Agents, Step(b)
      PROVE  Active(a)' \/ declared'[a] = tx[a].decl
  <2>1. Step(b) => Active(b)
    <3>1. NextDeclared(b) \/ UpsertAction(b) \/ UpsertFails(b) \/ RebuildRelationalPorts(b)
          => Active(b)
      <4>1. UpsertAction(b) => Active(b)
        BY UpsertActionEffect DEF Active
      <4>2. UpsertFails(b) => At(b, "action")
        BY Zenon DEF UpsertFails
      <4>3. NextDeclared(b) => Active(b)
        BY NextDeclaredEffect DEF Active
      <4>4. RebuildRelationalPorts(b) => At(b, "ports")
        BY Zenon DEF RebuildRelationalPorts
      <4>5. QED
        BY <4>1, <4>2, <4>3, <4>4 DEF At, Active
    <3>2. SaveCounts(b) \/ CountUsers(b) \/ CollectUsers(b) \/ DropAction(b)
          => Active(b)
      BY DEF SaveCounts, CountUsers, CollectUsers, DropAction, At, Active
    <3>3. SaveImplementation(b) \/ Reap(b) \/ Commit(b) \/ Deadlock(b)
          => Active(b)
      BY DEF SaveImplementation, Reap, Commit, Deadlock, At, Active
    <3>4. QED
      BY <3>1, <3>2, <3>3 DEF Step
  <2>2. b = a
    BY <1>3, <2>1 DEF LoneInv, Undisturbed
  <2>3. QED
    BY <1>3, <2>2, OwnStepLands
<1>4. ASSUME NEW b \in Agents, NEW decl \in Declarations, Begin(b, decl)
      PROVE  Active(a)'
  <2>1. b # a
    BY <1>1, <1>4, BeginEffect
  <2>2. QED
    BY <1>1, <1>4, <2>1, BeginEffect
<1>5. ASSUME NEW p \in Pairs, DeleteImplementation(p) \/ PinRead(p)
      PROVE  Active(a)'
  <2>1. {} \in SUBSET Deeds /\ {<<"deleted", p>>} \in SUBSET Deeds
    BY DEF Deeds
  <2>2. tx' = Disturb(tx, Null, {}) \/ tx' = Disturb(tx, Null, {<<"deleted", p>>})
    BY <1>5 DEF DeleteImplementation, PinRead
  <2>3. QED
    BY <1>1, <2>1, <2>2, DisturbedStaysActive
<1>6. CASE PinSave
  <2>1. pin.of \in Pairs
    BY <1>1, <1>6 DEF Typed, PinSave
  <2>2. {} \in SUBSET Deeds /\ {<<"revived", pin.of>>} \in SUBSET Deeds
    BY <2>1 DEF Deeds
  <2>3. tx' = Disturb(tx, Null, {}) \/ tx' = Disturb(tx, Null, {<<"revived", pin.of>>})
    BY <1>6 DEF PinSave
  <2>4. QED
    BY <1>1, <2>2, <2>3, DisturbedStaysActive
<1>7. QED
  BY <1>2, <1>3, <1>4, <1>5, <1>6 DEF Next

\* Nothing else going on, implement_agent fails only for what it declares: a definition
\* whose qualifiers contradict each other or whose descriptors do not compile, an action
\* twice, an action that another interface of the agent still has, or a row to delete that
\* a Resolution protects.
THEOREM LoneRegistrationsLand == Spec => LoneRegistrationLands
<1> DEFINE Excused(a) ==
        \/ \E i \in Interfaces : tx[a].decl[i] # Null /\ ~Valid(tx[a].decl[i])
        \/ \E i, j \in Interfaces : /\ i # j /\ tx[a].decl[i] # Null
                                    /\ \/ tx[a].decl[j] # Null /\ tx[a].decl[i][1] = tx[a].decl[j][1]
                                       \/ tx[a].impls[j] # Null /\ tx[a].impls[j].key = tx[a].decl[i][1]
        \/ \E p \in protected : p[1] = a
           Lands(a) ==
        Active(a) /\ tx[a].alone /\ ~Active(a)' /\ declared'[a] # tx[a].decl => Excused(a)
<1>1. ASSUME RegistryInv, ReferenceInv, LoneInv, [Next]_vars, NEW a \in Agents
      PROVE  Lands(a)
  <2> SUFFICES ASSUME Active(a), tx[a].alone, ~Active(a)', declared'[a] # tx[a].decl
               PROVE  Excused(a)
    OBVIOUS
  <2>1. tx[a].alone \in BOOLEAN
    <3>1. tx[a] \in TxRecords
      BY <1>1, ActiveIsRecord DEF RegistryInv
    <3>2. QED
      BY <3>1, RecordTypes
  <2>2. Alone(a)
    BY <2>1, Zenon DEF Alone
  <2>3. ~Clean(tx[a], a)
    BY <1>1, <2>2, NextLands
  <2>4. QED
    BY <2>3 DEF Clean
<1>2. RegistryInv /\ ReferenceInv /\ LoneInv /\ [Next]_vars => [\A a \in Agents : Lands(a)]_vars
  BY <1>1
<1>3. QED
  BY <1>2, RegistryInductive, ReferencesInductive, LoneInductive, PTL DEF Spec, LoneRegistrationLands
=============================================================================
