-------------------------- MODULE HigherOrderProofs --------------------------
(***************************************************************************)
(* Proofs about HigherOrder, for any implementations and agents, any       *)
(* configs and any number of concurrent requests.                          *)
(***************************************************************************)
EXTENDS HigherOrder, TLAPS

\* A set_higher_order and a registration under way.
LinkRecords == [higher : Impls, lower : Impls, config : Configs, row : Rows,
                lowerWraps : Impls \cup {None}, valid : BOOLEAN, slots : SUBSET Deps]
RegRecords == [of : Impls, row : Rows, rev : 0 .. MaxRegs]

\* TypeOK, and the types of everything it leaves out.
AllTypes ==
    /\ TypeOK
    /\ link \in [Linkers -> LinkRecords \cup {None}]
    /\ reg \in [Agents -> RegRecords \cup {None}]
    /\ regs \in 0 .. MaxRegs
    /\ last \in [Impls -> Rows]

\* Until a row is written while somebody has still to save it, everybody who has read
\* it knows the field that the others write, and it is there.
UpdatesInv ==
    /\ NoLostUpdate
    /\ \A i \in Impls \ overlapped : Readers(i) # {} => row[i] # None
    /\ \A u \in Linkers : link[u] # None /\ link[u].higher \notin overlapped =>
           link[u].row.rev = last[link[u].higher].rev
    /\ \A a \in Agents : reg[a] # None /\ reg[a].of \notin overlapped =>
           reg[a].row.wraps = last[reg[a].of].wraps

\* A wrapper's config covers what it was validated against, with the dependencies the
\* wrapper has now.
Covers(r, ds) == r.wraps # None => ValidateDependencyCoverage(r.config, r.promised, ds)

\* Every row, every registration under way and every validated request is covered,
\* unless the row was deleted and is gone or was inserted again.
CoverageInv ==
    /\ \A i \in Impls \ revived : row[i] # None => Covers(row[i], deps[i])
    /\ \A a \in Agents :
           reg[a] # None /\ reg[a].of \notin revived /\ row[reg[a].of] # None =>
               Covers(reg[a].row, deps[reg[a].of])
    /\ \A u \in Linkers :
           /\ link[u] # None /\ link[u].valid
           /\ link[u].higher \notin revived /\ row[link[u].higher] # None
           => ValidateDependencyCoverage(link[u].config, link[u].slots, deps[link[u].higher])
    /\ ChildIsComplete

\* No ring but of raced or overlapped rows, and every request that may still save knows
\* two rows, of which the lower was plain when it was validated.
RingInv ==
    /\ WrappersEnd
    /\ \A u \in Linkers : link[u] # None =>
           /\ link[u].higher # link[u].lower
           /\ link[u].valid => link[u].lowerWraps = None

HigherOrderInv == AllTypes /\ UpdatesInv /\ CoverageInv /\ RingInv

-----------------------------------------------------------------------------
(* Types. *)

\* Every row is plain, of no registration, and nobody is at work.
LEMMA AllTypesInit == Init => AllTypes
<1> SUFFICES ASSUME Init
             PROVE  AllTypes
  OBVIOUS
<1> DEFINE plain == [wraps |-> None, config |-> None, promised |-> {}, rev |-> 0]
<1>1. plain \in Rows
  BY HigherOrderAssumption DEF Rows
<1>2. row \in [Impls -> Rows] /\ last \in [Impls -> Rows]
  BY <1>1 DEF Init
<1>3. regs \in 0 .. MaxRegs
  BY HigherOrderAssumption DEF Init
<1>4. QED
  BY <1>2, <1>3 DEF Init, AllTypes, TypeOK, Kinds

\* A snapshot keeps its type through the steps of its holder.
LEMMA LinkTypes ==
    ASSUME AllTypes,
           \/ \E u \in Linkers, h, l \in Impls, c \in Configs : LinkRead(u, h, l, c)
           \/ \E u \in Linkers : LinkValidate(u)
    PROVE  AllTypes'
<1>1. link' \in [Linkers -> LinkRecords \cup {None}]
  <2>1. ASSUME NEW u \in Linkers, NEW h \in Impls, NEW l \in Impls, NEW c \in Configs,
               LinkRead(u, h, l, c)
        PROVE  link' \in [Linkers -> LinkRecords \cup {None}]
    <3> DEFINE new == [higher |-> h, lower |-> l, config |-> c, row |-> row[h],
                       lowerWraps |-> row[l].wraps, valid |-> FALSE, slots |-> {}]
    <3>1. row[h] \in Rows /\ row[l] \in Rows
      BY <2>1 DEF LinkRead, AllTypes, TypeOK
    <3>2. new \in LinkRecords
      BY <3>1 DEF LinkRecords, Rows
    <3>3. link' = [link EXCEPT ![u] = new]
      BY <2>1 DEF LinkRead
    <3> HIDE DEF new
    <3>4. QED
      BY <3>2, <3>3 DEF AllTypes
  <2>2. ASSUME NEW u \in Linkers, LinkValidate(u)
        PROVE  link' \in [Linkers -> LinkRecords \cup {None}]
    <3> DEFINE new == [link[u] EXCEPT !.valid = TRUE, !.slots = deps[link[u].lower]]
    <3>1. link[u] \in LinkRecords
      BY <2>2 DEF LinkValidate, AllTypes
    <3>2. new \in LinkRecords
      BY <3>1 DEF LinkRecords, AllTypes, TypeOK
    <3>3. link' = [link EXCEPT ![u] = new] \/ link' = [link EXCEPT ![u] = None]
      BY <2>2 DEF LinkValidate
    <3> HIDE DEF new
    <3>4. QED
      BY <3>2, <3>3 DEF AllTypes
  <2>3. QED
    BY <2>1, <2>2
<1>2. UNCHANGED <<row, kind, deps, reg, regs, last>>
  BY DEF LinkRead, LinkValidate, history
<1>3. \A u \in Linkers : link'[u] # None => link'[u].row \in Rows
  BY <1>1 DEF LinkRecords
<1>4. QED
  BY <1>1, <1>2, <1>3 DEF AllTypes, TypeOK

\* A row that is saved is a row, with a link to an implementation.
LEMMA LinkSaveTypes ==
    ASSUME AllTypes, NEW u \in Linkers, LinkSave(u)
    PROVE  AllTypes'
<1> DEFINE k == link[u]
           saved == [k.row EXCEPT !.wraps = k.lower, !.config = k.config, !.promised = k.slots]
<1>1. k \in LinkRecords
  BY DEF LinkSave, AllTypes
<1>2. saved \in Rows /\ k.higher \in Impls /\ k.lower \in Impls /\ k.config \in Configs
  BY <1>1 DEF LinkRecords, Rows
<1>3. /\ link' = [link EXCEPT ![u] = None]
      /\ UNCHANGED <<kind, deps, reg, regs>>
      /\ row' = row \/ row' = [row EXCEPT ![k.higher] = saved]
      /\ \/ last' = last
         \/ last' = [last EXCEPT ![k.higher].wraps = k.lower, ![k.higher].config = k.config]
  BY DEF LinkSave
<1> HIDE DEF k, saved
<1>4. row' \in [Impls -> Rows \cup {None}]
  BY <1>2, <1>3 DEF AllTypes, TypeOK
<1>5. last' \in [Impls -> Rows]
  BY <1>2, <1>3 DEF AllTypes, Rows
<1>6. link' \in [Linkers -> LinkRecords \cup {None}] /\ \A v \in Linkers : link'[v] # None => link'[v].row \in Rows
  BY <1>3 DEF AllTypes, LinkRecords
<1>7. QED
  BY <1>3, <1>4, <1>5, <1>6 DEF AllTypes, TypeOK

\* So is one that a registration saves or a deletion leaves plain.
LEMMA RegistrationTypes ==
    ASSUME AllTypes,
           \/ \E i \in Impls : RegisterRead(i) \/ Delete(i)
           \/ \E a \in Agents, k \in Kinds, ds \in SUBSET Deps : RegisterSave(a, k, ds)
    PROVE  AllTypes'
<1>1. ASSUME NEW i \in Impls, RegisterRead(i)
      PROVE  AllTypes'
  <2> DEFINE new == [of |-> i, row |-> row[i], rev |-> regs']
  <2>1. regs' = regs + 1 /\ regs < MaxRegs /\ reg' = [reg EXCEPT ![AgentOf[i]] = new]
    BY <1>1 DEF RegisterRead
  <2>2. regs' \in 0 .. MaxRegs
    BY <2>1, HigherOrderAssumption DEF AllTypes
  <2>3. row[i] \in Rows
    BY <1>1 DEF RegisterRead, AllTypes, TypeOK
  <2>4. new \in RegRecords
    BY <2>2, <2>3 DEF RegRecords
  <2> HIDE DEF new
  <2>5. reg' \in [Agents -> RegRecords \cup {None}]
    BY <2>1, <2>4 DEF AllTypes
  <2>6. \A a \in Agents : reg'[a] # None => reg'[a].row \in Rows
    BY <2>5 DEF RegRecords
  <2>7. QED
    BY <1>1, <2>2, <2>5, <2>6 DEF RegisterRead, AllTypes, TypeOK, history
<1>2. ASSUME NEW i \in Impls, Delete(i)
      PROVE  AllTypes'
  <2>1. regs' \in 0 .. MaxRegs
    BY <1>2, HigherOrderAssumption DEF Delete, AllTypes
  <2>2. \A j \in Impls : row[j] \in Rows => [row[j] EXCEPT !.wraps = None] \in Rows
    BY DEF Rows
  <2>3. row' \in [Impls -> Rows \cup {None}]
    BY <1>2, <2>2 DEF Delete, AllTypes, TypeOK, Wraps
  <2>4. \A j \in Impls : [last[j] EXCEPT !.wraps = None] \in Rows
    BY DEF Rows, AllTypes
  <2>5. last' \in [Impls -> Rows]
    BY <1>2, <2>4 DEF Delete, AllTypes
  <2>6. deps' \in [Impls -> SUBSET Deps]
    BY <1>2 DEF Delete, AllTypes, TypeOK
  <2>7. QED
    BY <1>2, <2>1, <2>3, <2>5, <2>6 DEF Delete, AllTypes, TypeOK
<1>3. ASSUME NEW a \in Agents, NEW k \in Kinds, NEW ds \in SUBSET Deps, RegisterSave(a, k, ds)
      PROVE  AllTypes'
  <2> DEFINE i == reg[a].of
             saved == [reg[a].row EXCEPT !.rev = reg[a].rev]
  <2>1. reg[a] \in RegRecords
    BY <1>3 DEF RegisterSave, AllTypes
  <2>2. saved \in Rows /\ i \in Impls /\ reg[a].rev \in 0 .. MaxRegs
    BY <2>1 DEF RegRecords, Rows
  <2>3. /\ reg' = [reg EXCEPT ![a] = None]
        /\ UNCHANGED <<link, regs>>
        /\ row' = row \/ row' = [row EXCEPT ![i] = saved]
        /\ kind' = kind \/ kind' = [kind EXCEPT ![i] = k]
        /\ deps' = deps \/ deps' = [deps EXCEPT ![i] = deps[i] \cup ds]
        /\ last' = last \/ last' = [last EXCEPT ![i].rev = reg[a].rev]
    BY <1>3 DEF RegisterSave
  <2> HIDE DEF i, saved
  <2>4. row' \in [Impls -> Rows \cup {None}] /\ kind' \in [Impls -> Kinds]
    BY <2>2, <2>3 DEF AllTypes, TypeOK
  <2>5. deps' \in [Impls -> SUBSET Deps]
    BY <2>2, <2>3 DEF AllTypes, TypeOK
  <2>6. last' \in [Impls -> Rows]
    BY <2>2, <2>3 DEF AllTypes, Rows
  <2>7. reg' \in [Agents -> RegRecords \cup {None}] /\ \A b \in Agents : reg'[b] # None => reg'[b].row \in Rows
    BY <2>3 DEF AllTypes, RegRecords
  <2>8. QED
    BY <2>3, <2>4, <2>5, <2>6, <2>7 DEF AllTypes, TypeOK
<1>4. QED
  BY <1>1, <1>2, <1>3

\* Every step keeps the types.
LEMMA AllTypesNext == AllTypes /\ [Next]_vars => AllTypes'
<1> SUFFICES ASSUME AllTypes, [Next]_vars
             PROVE  AllTypes'
  OBVIOUS
<1>1. CASE \E i \in Impls, args \in SUBSET ArgKeys : AssignHigherOrder(i, args)
  BY <1>1 DEF AssignHigherOrder, AllTypes, TypeOK
<1>2. CASE UNCHANGED vars
  BY <1>2 DEF vars, AllTypes, TypeOK
<1>3. QED
  BY <1>1, <1>2, LinkTypes, LinkSaveTypes, RegistrationTypes DEF Next
-----------------------------------------------------------------------------
(* Updates of the rows. *)

\* Nobody is at work and every row is as its last writer meant it.
LEMMA UpdatesInit == Init => UpdatesInv
BY DEF Init, UpdatesInv, NoLostUpdate, Readers

\* A request that reads a row reads what its last writers meant, and drops none of it
\* when it is validated.
LEMMA LinkUpdates ==
    ASSUME AllTypes, UpdatesInv,
           \/ \E u \in Linkers, h, l \in Impls, c \in Configs : LinkRead(u, h, l, c)
           \/ \E u \in Linkers : LinkValidate(u)
    PROVE  UpdatesInv'
<1>1. UNCHANGED <<row, reg, last, overlapped>>
  BY DEF LinkRead, LinkValidate, history
<1>2. ASSUME NEW u \in Linkers, NEW h \in Impls, NEW l \in Impls, NEW c \in Configs,
             LinkRead(u, h, l, c)
      PROVE  UpdatesInv'
  <2> DEFINE new == [higher |-> h, lower |-> l, config |-> c, row |-> row[h],
                     lowerWraps |-> row[l].wraps, valid |-> FALSE, slots |-> {}]
  <2>1. link' = [link EXCEPT ![u] = new] /\ row[h] # None
    BY <1>2 DEF LinkRead
  <2>2. new.higher = h /\ new.row = row[h]
    OBVIOUS
  <2> HIDE DEF new
  <2>3. \A v \in Linkers : link'[v] = IF v = u THEN new ELSE link[v]
    BY <2>1 DEF AllTypes
  <2>4. \A i \in Impls : i # h => Readers(i)' \subseteq Readers(i)
    BY <1>1, <2>2, <2>3 DEF Readers
  <2>5. \A i \in Impls \ overlapped' : Readers(i)' # {} => row'[i] # None
    BY <1>1, <2>1, <2>4 DEF UpdatesInv
  <2>6. h \notin overlapped => row[h].rev = last[h].rev
    BY <2>1 DEF UpdatesInv, NoLostUpdate
  <2>7. \A v \in Linkers : link'[v] # None /\ link'[v].higher \notin overlapped' =>
            link'[v].row.rev = last'[link'[v].higher].rev
    BY <1>1, <2>2, <2>3, <2>6 DEF UpdatesInv
  <2>8. QED
    BY <1>1, <2>5, <2>7 DEF UpdatesInv, NoLostUpdate
<1>3. ASSUME NEW u \in Linkers, LinkValidate(u)
      PROVE  UpdatesInv'
  <2> DEFINE new == [link[u] EXCEPT !.valid = TRUE, !.slots = deps[link[u].lower]]
  <2>1. link[u] \in LinkRecords /\ link[u] # None
    BY <1>3 DEF LinkValidate, AllTypes
  <2>2. new.higher = link[u].higher /\ new.row = link[u].row
    BY <2>1 DEF LinkRecords
  <2>3. link' = [link EXCEPT ![u] = new] \/ link' = [link EXCEPT ![u] = None]
    BY <1>3 DEF LinkValidate
  <2> HIDE DEF new
  <2>4. \A v \in Linkers : link'[v] # None =>
            /\ link[v] # None
            /\ link'[v].higher = link[v].higher /\ link'[v].row = link[v].row
    BY <2>1, <2>2, <2>3 DEF AllTypes
  <2>5. \A i \in Impls : Readers(i)' \subseteq Readers(i)
    BY <1>1, <2>4 DEF Readers
  <2>6. \A i \in Impls \ overlapped' : Readers(i)' # {} => row'[i] # None
    BY <1>1, <2>5 DEF UpdatesInv
  <2>7. QED
    BY <1>1, <2>4, <2>6 DEF UpdatesInv, NoLostUpdate
<1>4. QED
  BY <1>2, <1>3

\* A request that saves the row writes back the registration it has read; if somebody
\* else is still to save the row, it is overlapped.
LEMMA LinkSaveUpdates ==
    ASSUME AllTypes, UpdatesInv, NEW u \in Linkers, LinkSave(u)
    PROVE  UpdatesInv'
<1> DEFINE k == link[u]
           saved == [k.row EXCEPT !.wraps = k.lower, !.config = k.config, !.promised = k.slots]
<1>1. k \in LinkRecords /\ k # None
  BY DEF LinkSave, AllTypes
<1>2. PICK h \in Impls : h = k.higher
  BY <1>1 DEF LinkRecords
<1>3. /\ saved \in Rows /\ k.lower \in Impls
      /\ saved.wraps = k.lower /\ saved.rev = k.row.rev
  BY <1>1 DEF LinkRecords, Rows
<1>4. /\ \A v \in Linkers : link'[v] = IF v = u THEN None ELSE link[v]
      /\ reg' = reg
  BY DEF LinkSave, AllTypes
<1>5. \A i \in Impls : Readers(i)' \subseteq Readers(i) \ {u}
  <2>1. Linkers \cap Agents = {}
    BY HigherOrderAssumption DEF Agents
  <2>2. QED
    BY <1>4, <2>1 DEF Readers
<1>6. u \in Readers(h)
  BY <1>1, <1>2 DEF Readers
<1>7. CASE row[k.lower] = None
  <2>1. UNCHANGED <<row, last, overlapped>>
    BY <1>7 DEF LinkSave
  <2>2. \A i \in Impls \ overlapped' : Readers(i)' # {} => row'[i] # None
    BY <2>1, <1>5 DEF UpdatesInv
  <2>3. QED
    BY <2>1, <2>2, <1>4 DEF UpdatesInv, NoLostUpdate
<1>8. CASE row[k.lower] # None
  <2>1. /\ row' = [row EXCEPT ![h] = saved]
        /\ last' = [last EXCEPT ![h].wraps = k.lower, ![h].config = k.config]
        /\ overlapped' = IF Readers(h) = {u} THEN overlapped ELSE overlapped \cup {h}
    BY <1>8, <1>2 DEF LinkSave
  <2> HIDE DEF saved
  <2>2. \A i \in Impls : row'[i] = IF i = h THEN saved ELSE row[i]
    BY <2>1 DEF AllTypes, TypeOK
  <2>3. \A i \in Impls : /\ i # h => last'[i] = last[i]
                         /\ last'[i].rev = last[i].rev
    BY <2>1, <1>3 DEF AllTypes, Rows
  <2>4. last'[h].wraps = k.lower
    BY <2>1, <1>3 DEF AllTypes, Rows
  <2>5. h \notin overlapped' => Readers(h)' = {}
    BY <2>1, <1>5, <1>3
  <2>6. h \notin overlapped' => k.row.rev = last[h].rev
    BY <2>1, <1>1, <1>2 DEF UpdatesInv
  <2>7. \A i \in Impls \ overlapped' : i \notin overlapped
    BY <2>1
  <2> HIDE DEF k
  <2>8. NoLostUpdate'
    BY <2>2, <2>3, <2>4, <2>6, <2>7, <1>3 DEF UpdatesInv, NoLostUpdate
  <2>9. \A i \in Impls \ overlapped' : Readers(i)' # {} => row'[i] # None
    BY <2>2, <2>5, <2>7, <1>5 DEF UpdatesInv
  <2>10. \A v \in Linkers : link'[v] # None /\ link'[v].higher \notin overlapped' =>
            link'[v].row.rev = last'[link'[v].higher].rev
    <3>1. \A v \in Linkers : link[v] # None => link[v].higher \in Impls
      BY DEF AllTypes, LinkRecords
    <3>2. QED
      BY <3>1, <2>3, <2>7, <1>4 DEF UpdatesInv
  <2>11. \A a \in Agents : reg'[a] # None /\ reg'[a].of \notin overlapped' =>
            reg'[a].row.wraps = last'[reg'[a].of].wraps
    <3>1. \A a \in Agents : reg[a] # None => reg[a].of \in Impls /\ a \in Readers(reg[a].of)
      BY DEF AllTypes, RegRecords, Readers
    <3>2. \A a \in Agents : reg[a] # None => reg'[a] = reg[a] /\ a \in Readers(reg[a].of)'
      BY <1>4, <3>1 DEF Readers
    <3>3. QED
      BY <3>1, <3>2, <2>3, <2>5, <2>7, <1>4 DEF UpdatesInv
  <2>12. QED
    BY <2>8, <2>9, <2>10, <2>11 DEF UpdatesInv
<1>9. QED
  BY <1>7, <1>8

\* A registration reads the link that its last writer meant, and if it is alone it saves
\* that one again with its own declared fields.
LEMMA RegistrationUpdates ==
    ASSUME AllTypes, UpdatesInv,
           \/ \E i \in Impls : RegisterRead(i)
           \/ \E a \in Agents, k \in Kinds, ds \in SUBSET Deps : RegisterSave(a, k, ds)
    PROVE  UpdatesInv'
<1>1. ASSUME NEW i \in Impls, RegisterRead(i)
      PROVE  UpdatesInv'
  <2> DEFINE new == [of |-> i, row |-> row[i], rev |-> regs']
  <2>1. /\ UNCHANGED <<row, link, last, overlapped>>
        /\ reg' = [reg EXCEPT ![AgentOf[i]] = new] /\ row[i] # None
    BY <1>1 DEF RegisterRead, history
  <2>2. new.of = i /\ new.row = row[i]
    OBVIOUS
  <2> HIDE DEF new
  <2>3. \A a \in Agents : reg'[a] = new \/ reg'[a] = reg[a]
    BY <2>1 DEF AllTypes
  <2>4. \A j \in Impls : j # i => Readers(j)' \subseteq Readers(j)
    BY <2>1, <2>2, <2>3 DEF Readers
  <2>5. \A j \in Impls \ overlapped' : Readers(j)' # {} => row'[j] # None
    BY <2>1, <2>4 DEF UpdatesInv
  <2>6. i \notin overlapped => row[i].wraps = last[i].wraps
    BY <2>1 DEF UpdatesInv, NoLostUpdate
  <2>7. \A a \in Agents : reg'[a] # None /\ reg'[a].of \notin overlapped' =>
            reg'[a].row.wraps = last'[reg'[a].of].wraps
    BY <2>1, <2>2, <2>3, <2>6 DEF UpdatesInv
  <2>8. QED
    BY <2>1, <2>5, <2>7 DEF UpdatesInv, NoLostUpdate
<1>2. ASSUME NEW a \in Agents, NEW k \in Kinds, NEW ds \in SUBSET Deps, RegisterSave(a, k, ds)
      PROVE  UpdatesInv'
  <2> DEFINE r == reg[a]
             saved == [r.row EXCEPT !.rev = r.rev]
  <2>1. r \in RegRecords /\ r # None
    BY <1>2 DEF RegisterSave, AllTypes
  <2>2. PICK i \in Impls : i = r.of
    BY <2>1 DEF RegRecords
  <2>3. saved \in Rows /\ saved.wraps = r.row.wraps /\ saved.rev = r.rev
    BY <2>1 DEF RegRecords, Rows
  <2>4. /\ \A b \in Agents : reg'[b] = IF b = a THEN None ELSE reg[b]
        /\ link' = link
    BY <1>2 DEF RegisterSave, AllTypes
  <2>5. \A j \in Impls : Readers(j)' \subseteq Readers(j) \ {a}
    <3>1. Linkers \cap Agents = {}
      BY HigherOrderAssumption DEF Agents
    <3>2. QED
      BY <2>4, <3>1 DEF Readers
  <2>6. CASE saved.wraps # None /\ row[saved.wraps] = None
    <3>1. UNCHANGED <<row, last, overlapped>>
      BY <1>2, <2>6 DEF RegisterSave
    <3>2. \A j \in Impls \ overlapped' : Readers(j)' # {} => row'[j] # None
      BY <3>1, <2>5 DEF UpdatesInv
    <3>3. QED
      BY <3>1, <3>2, <2>4 DEF UpdatesInv, NoLostUpdate
  <2>7. CASE ~(saved.wraps # None /\ row[saved.wraps] = None)
    <3>1. /\ row' = [row EXCEPT ![i] = saved]
          /\ last' = [last EXCEPT ![i].rev = r.rev]
          /\ overlapped' = IF Readers(i) = {a} THEN overlapped ELSE overlapped \cup {i}
      BY <1>2, <2>2, <2>7 DEF RegisterSave
    <3> HIDE DEF saved
    <3>2. \A j \in Impls : row'[j] = IF j = i THEN saved ELSE row[j]
      BY <3>1 DEF AllTypes, TypeOK
    <3>3. \A j \in Impls : /\ j # i => last'[j] = last[j]
                           /\ last'[j].wraps = last[j].wraps
      BY <3>1 DEF AllTypes, Rows
    <3>4. last'[i].rev = r.rev
      BY <3>1 DEF AllTypes, Rows
    <3>5. i \notin overlapped' => Readers(i)' = {}
      BY <3>1, <2>5
    <3>6. i \notin overlapped' => r.row.wraps = last[i].wraps
      BY <3>1, <2>1, <2>2 DEF UpdatesInv
    <3>7. \A j \in Impls \ overlapped' : j \notin overlapped
      BY <3>1
    <3> HIDE DEF r
    <3>8. NoLostUpdate'
      BY <3>2, <3>3, <3>4, <3>6, <3>7, <2>3 DEF UpdatesInv, NoLostUpdate
    <3>9. \A j \in Impls \ overlapped' : Readers(j)' # {} => row'[j] # None
      BY <3>2, <3>5, <3>7, <2>5 DEF UpdatesInv
    <3>10. \A v \in Linkers : link'[v] # None /\ link'[v].higher \notin overlapped' =>
               link'[v].row.rev = last'[link'[v].higher].rev
      <4>1. \A v \in Linkers : link[v] # None => link[v].higher \in Impls /\ v \in Readers(link[v].higher)
        BY DEF AllTypes, LinkRecords, Readers
      <4>2. \A v \in Linkers : link[v] # None => link'[v] = link[v] /\ v \in Readers(link[v].higher)'
        BY <2>4, <4>1 DEF Readers
      <4>3. QED
        BY <4>1, <4>2, <3>3, <3>5, <3>7, <2>4 DEF UpdatesInv
    <3>11. \A b \in Agents : reg'[b] # None /\ reg'[b].of \notin overlapped' =>
              reg'[b].row.wraps = last'[reg'[b].of].wraps
      <4>1. \A b \in Agents : reg[b] # None => reg[b].of \in Impls
        BY DEF AllTypes, RegRecords
      <4>2. QED
        BY <4>1, <3>3, <3>7, <2>4 DEF UpdatesInv
    <3>12. QED
      BY <3>8, <3>9, <3>10, <3>11 DEF UpdatesInv
  <2>8. QED
    BY <2>6, <2>7
<1>3. QED
  BY <1>1, <1>2

\* A deletion overlaps the row and its wrappers if they have readers; without any, what
\* was meant for the wrappers is that they are plain now.
LEMMA DeleteUpdates ==
    ASSUME AllTypes, UpdatesInv, NEW i \in Impls, Delete(i)
    PROVE  UpdatesInv'
<1>1. /\ UNCHANGED <<link, reg>>
      /\ \A j \in Impls : row'[j] = IF j = i THEN None
                                    ELSE IF Wraps(j, i) THEN [row[j] EXCEPT !.wraps = None]
                                    ELSE row[j]
      /\ \A j \in Impls : last'[j] = IF last[j].wraps = i THEN [last[j] EXCEPT !.wraps = None] ELSE last[j]
      /\ \A j \in Impls \ overlapped' : j \notin overlapped /\ (Readers(j) # {} => j # i /\ ~Wraps(j, i))
  BY DEF Delete
<1>2. \A j \in Impls : Readers(j)' = Readers(j)
  BY <1>1 DEF Readers
<1>3. \A j \in Impls : last'[j].rev = last[j].rev /\ (last[j].wraps = i => last'[j].wraps = None)
  BY <1>1 DEF AllTypes, Rows
<1>4. \A j \in Impls : Wraps(j, i) => /\ [row[j] EXCEPT !.wraps = None].wraps = None
                                      /\ [row[j] EXCEPT !.wraps = None].rev = row[j].rev
  BY DEF AllTypes, TypeOK, Rows, Wraps
<1>5. NoLostUpdate'
  <2> SUFFICES ASSUME NEW j \in Impls, j \notin overlapped', row'[j] # None
               PROVE  row'[j].wraps = last'[j].wraps /\ row'[j].rev = last'[j].rev
    BY DEF NoLostUpdate
  <2>1. j # i /\ row[j] # None /\ j \notin overlapped
    BY <1>1 DEF Wraps
  <2>2. row[j].wraps = last[j].wraps /\ row[j].rev = last[j].rev
    BY <2>1 DEF UpdatesInv, NoLostUpdate
  <2>3. CASE Wraps(j, i)
    BY <2>1, <2>2, <2>3, <1>1, <1>3, <1>4 DEF Wraps
  <2>4. CASE ~Wraps(j, i)
    BY <2>1, <2>2, <2>4, <1>1, <1>3 DEF Wraps
  <2>5. QED
    BY <2>3, <2>4
<1>6. \A j \in Impls \ overlapped' : Readers(j)' # {} => row'[j] # None
  BY <1>1, <1>2 DEF UpdatesInv
<1>7. \A u \in Linkers : link'[u] # None /\ link'[u].higher \notin overlapped' =>
          link'[u].row.rev = last'[link'[u].higher].rev
  <2>1. \A u \in Linkers : link[u] # None => link[u].higher \in Impls
    BY DEF AllTypes, LinkRecords
  <2>2. QED
    BY <2>1, <1>1, <1>3 DEF UpdatesInv
<1>8. \A a \in Agents : reg'[a] # None /\ reg'[a].of \notin overlapped' =>
          reg'[a].row.wraps = last'[reg'[a].of].wraps
  <2> SUFFICES ASSUME NEW a \in Agents, NEW j \in Impls, reg[a] # None, reg[a].of = j, j \notin overlapped'
               PROVE  last'[j] = last[j] /\ reg[a].row.wraps = last[j].wraps
    BY <1>1 DEF AllTypes, RegRecords
  <2>1. a \in Readers(j)
    BY DEF Readers
  <2>2. j # i /\ ~Wraps(j, i) /\ j \notin overlapped
    BY <2>1, <1>1
  <2>3. row[j] # None /\ row[j].wraps = last[j].wraps
    BY <2>1, <2>2 DEF UpdatesInv, NoLostUpdate
  <2>4. QED
    BY <2>2, <2>3, <1>1 DEF UpdatesInv, Wraps
<1>9. QED
  BY <1>5, <1>6, <1>7, <1>8 DEF UpdatesInv

\* Every step keeps the updates.
LEMMA UpdatesNext == AllTypes /\ UpdatesInv /\ [Next]_vars => UpdatesInv'
<1> SUFFICES ASSUME AllTypes, UpdatesInv, [Next]_vars
             PROVE  UpdatesInv'
  OBVIOUS
<1>1. CASE \E i \in Impls, args \in SUBSET ArgKeys : AssignHigherOrder(i, args)
  BY <1>1 DEF AssignHigherOrder, UpdatesInv, NoLostUpdate, Readers
<1>2. CASE UNCHANGED vars
  BY <1>2 DEF vars, UpdatesInv, NoLostUpdate, Readers
<1>3. QED
  BY <1>1, <1>2, LinkUpdates, LinkSaveUpdates, RegistrationUpdates, DeleteUpdates DEF Next
-----------------------------------------------------------------------------
(* Coverage. *)

\* validate_dependency_coverage holds on when the wrapper gets more dependencies.
LEMMA CoverageGrows ==
    ASSUME NEW c, NEW lower, NEW ds, NEW es, ds \subseteq es,
           ValidateDependencyCoverage(c, lower, ds)
    PROVE  ValidateDependencyCoverage(c, lower, es)
BY DEF ValidateDependencyCoverage

\* What was validated is what the projection of an assignment needs and gives.
LEMMA CoveredSlotsAreFilled ==
    ASSUME NEW c, NEW lower, NEW ds, ValidateDependencyCoverage(c, lower, ds)
    PROVE  ~DependenciesRaise(c, ds) /\ lower \subseteq BuildLowerDependencies(c, ds)
BY DEF ValidateDependencyCoverage, DependenciesRaise, BuildLowerDependencies

\* build_lower_args drops an argument of the caller only when another one of the
\* caller's, or the pack of the rest, takes the lower argument it is mapped to.
LEMMA ArgumentsArePassed ==
    ASSUME NEW c, NEW args, NEW k \in args,
           \A j \in DOMAIN BuildLowerArgs(c, args) : k \notin BuildLowerArgs(c, args)[j]
    PROVE  \E j \in DOMAIN c.arg_map : c.arg_map[j] = k /\ j \in args \cup {c.args_key}
<1> DEFINE mapped == DOMAIN c.arg_map
           rest == args \ {c.arg_map[j] : j \in mapped}
           spread == IF c.args_key = None THEN rest ELSE {c.args_key}
           built == BuildLowerArgs(c, args)
<1>1. built = [j \in c.bound \cup mapped \cup spread |->
                  IF j \in spread THEN IF c.args_key = None THEN {j} ELSE rest
                  ELSE IF j \in mapped THEN {c.arg_map[j]} ELSE {}]
  BY DEF BuildLowerArgs
<1>2. k \notin rest
  <2>1. CASE c.args_key = None
    <3>1. ASSUME k \in rest
          PROVE  k \in DOMAIN built /\ built[k] = {k}
      BY <1>1, <2>1, <3>1
    <3>2. QED
      BY <3>1
  <2>2. CASE c.args_key # None
    <3>1. c.args_key \in DOMAIN built /\ built[c.args_key] = rest
      BY <1>1, <2>2
    <3>2. QED
      BY <3>1
  <2>3. QED
    BY <2>1, <2>2
<1>3. PICK j \in mapped : c.arg_map[j] = k
  BY <1>2
<1>4. j \in spread
  <2>1. ASSUME j \notin spread
        PROVE  j \in DOMAIN built /\ built[j] = {k}
    BY <1>1, <1>3, <2>1
  <2>2. QED
    BY <2>1
<1>5. QED
  BY <1>3, <1>4

\* Nothing wraps and nothing was assigned.
LEMMA CoverageInit == Init => CoverageInv
<1> SUFFICES ASSUME Init
             PROVE  CoverageInv
  OBVIOUS
<1>1. \A i \in Impls : row[i].wraps = None
  BY DEF Init
<1>2. QED
  BY <1>1 DEF Init, CoverageInv, Covers, ChildIsComplete

\* A request is covered when it is validated, and so is the row it saves.
LEMMA LinkCoverage ==
    ASSUME AllTypes, CoverageInv,
           \/ \E u \in Linkers, h, l \in Impls, c \in Configs : LinkRead(u, h, l, c)
           \/ \E u \in Linkers : LinkValidate(u)
    PROVE  CoverageInv'
<1>1. UNCHANGED <<row, reg, deps, tasks, refused, revived>>
  BY DEF LinkRead, LinkValidate, history
<1>2. ASSUME NEW u \in Linkers, NEW h \in Impls, NEW l \in Impls, NEW c \in Configs,
             LinkRead(u, h, l, c)
      PROVE  CoverageInv'
  <2>1. \A v \in Linkers : link'[v] = link[v] \/ ~link'[v].valid
    BY <1>2 DEF LinkRead, AllTypes
  <2>2. QED
    BY <1>1, <2>1 DEF CoverageInv, Covers, ChildIsComplete
<1>3. ASSUME NEW u \in Linkers, LinkValidate(u)
      PROVE  CoverageInv'
  <2> DEFINE k == link[u]
             new == [k EXCEPT !.valid = TRUE, !.slots = deps[k.lower]]
  <2>1. k \in LinkRecords
    BY <1>3 DEF LinkValidate, AllTypes
  <2>2. new.higher = k.higher /\ new.config = k.config /\ new.slots = deps[k.lower]
    BY <2>1 DEF LinkRecords
  <2>3. \/ link' = [link EXCEPT ![u] = None]
        \/ /\ link' = [link EXCEPT ![u] = new]
           /\ ValidateDependencyCoverage(k.config, deps[k.lower], deps[k.higher])
    BY <1>3 DEF LinkValidate
  <2> HIDE DEF new, k
  <2>4. \A v \in Linkers :
            /\ link'[v] # None /\ link'[v].valid
            /\ link'[v].higher \notin revived' /\ row'[link'[v].higher] # None
            => ValidateDependencyCoverage(link'[v].config, link'[v].slots, deps'[link'[v].higher])
    BY <1>1, <2>2, <2>3 DEF CoverageInv, AllTypes
  <2>5. QED
    BY <1>1, <2>4 DEF CoverageInv, Covers, ChildIsComplete
<1>4. QED
  BY <1>2, <1>3

\* The row that a request saves is covered by what it was validated against.
LEMMA LinkSaveCoverage ==
    ASSUME AllTypes, CoverageInv, NEW u \in Linkers, LinkSave(u)
    PROVE  CoverageInv'
<1> DEFINE k == link[u]
           saved == [k.row EXCEPT !.wraps = k.lower, !.config = k.config, !.promised = k.slots]
<1>1. k \in LinkRecords /\ k # None /\ k.valid
  BY DEF LinkSave, AllTypes
<1>2. PICK h \in Impls : h = k.higher
  BY <1>1 DEF LinkRecords
<1>3. saved.config = k.config /\ saved.promised = k.slots
  BY <1>1 DEF LinkRecords, Rows
<1>4. /\ \A v \in Linkers : link'[v] = None \/ link'[v] = link[v]
      /\ UNCHANGED <<deps, reg, tasks, refused>>
  BY DEF LinkSave, AllTypes
<1>5. /\ revived \subseteq revived'
      /\ row' = row \/ (row' = [row EXCEPT ![h] = saved] /\ (row[h] = None => h \in revived'))
  BY <1>2 DEF LinkSave
<1>6. h \notin revived' /\ row[h] # None =>
          ValidateDependencyCoverage(k.config, k.slots, deps[h])
  BY <1>1, <1>2, <1>5 DEF CoverageInv
<1> HIDE DEF saved, k
<1>7. \A i \in Impls \ revived' : row'[i] # None => Covers(row'[i], deps'[i])
  <2> SUFFICES ASSUME NEW i \in Impls, i \notin revived', row'[i] # None
               PROVE  Covers(row'[i], deps'[i])
    OBVIOUS
  <2>1. CASE row'[i] = row[i]
    BY <2>1, <1>4, <1>5 DEF CoverageInv
  <2>2. CASE row'[i] # row[i]
    <3>1. i = h /\ row'[i] = saved
      BY <2>2, <1>5 DEF AllTypes, TypeOK
    <3>2. QED
      BY <3>1, <2>2, <1>3, <1>4, <1>5, <1>6 DEF Covers
  <2>3. QED
    BY <2>1, <2>2
<1>8. \A i \in Impls : i \notin revived' /\ row'[i] # None => i \notin revived /\ row[i] # None
  BY <1>5 DEF AllTypes, TypeOK
<1>9. \A a \in Agents :
          reg'[a] # None /\ reg'[a].of \notin revived' /\ row'[reg'[a].of] # None =>
              Covers(reg'[a].row, deps'[reg'[a].of])
  <2>1. \A a \in Agents : reg[a] # None => reg[a].of \in Impls
    BY DEF AllTypes, RegRecords
  <2>2. QED
    BY <2>1, <1>4, <1>8 DEF CoverageInv
<1>10. \A v \in Linkers :
          /\ link'[v] # None /\ link'[v].valid
          /\ link'[v].higher \notin revived' /\ row'[link'[v].higher] # None
          => ValidateDependencyCoverage(link'[v].config, link'[v].slots, deps'[link'[v].higher])
  <2>1. \A v \in Linkers : link[v] # None => link[v].higher \in Impls
    BY DEF AllTypes, LinkRecords
  <2>2. QED
    BY <2>1, <1>4, <1>8 DEF CoverageInv
<1>11. ChildIsComplete'
  BY <1>4, <1>5 DEF CoverageInv, ChildIsComplete
<1>12. QED
  BY <1>7, <1>9, <1>10, <1>11 DEF CoverageInv

\* A registration reads a covered row, and saves its link with more dependencies.
LEMMA RegistrationCoverage ==
    ASSUME AllTypes, CoverageInv,
           \/ \E i \in Impls : RegisterRead(i)
           \/ \E a \in Agents, k \in Kinds, ds \in SUBSET Deps : RegisterSave(a, k, ds)
    PROVE  CoverageInv'
<1>1. ASSUME NEW i \in Impls, RegisterRead(i)
      PROVE  CoverageInv'
  <2>1. UNCHANGED <<row, link, deps, tasks, refused, revived>>
    BY <1>1 DEF RegisterRead, history
  <2>2. \A a \in Agents : reg'[a] = reg[a] \/ (reg'[a].of = i /\ reg'[a].row = row[i])
    BY <1>1 DEF RegisterRead, AllTypes
  <2>3. \A a \in Agents :
            reg'[a] # None /\ reg'[a].of \notin revived' /\ row'[reg'[a].of] # None =>
                Covers(reg'[a].row, deps'[reg'[a].of])
    BY <2>1, <2>2 DEF CoverageInv
  <2>4. QED
    BY <2>1, <2>3 DEF CoverageInv, Covers, ChildIsComplete
<1>2. ASSUME NEW a \in Agents, NEW k \in Kinds, NEW ds \in SUBSET Deps, RegisterSave(a, k, ds)
      PROVE  CoverageInv'
  <2> DEFINE r == reg[a]
             saved == [r.row EXCEPT !.rev = r.rev]
  <2>1. r \in RegRecords /\ r # None
    BY <1>2 DEF RegisterSave, AllTypes
  <2>2. PICK i \in Impls : i = r.of
    BY <2>1 DEF RegRecords
  <2>3. saved.wraps = r.row.wraps /\ saved.config = r.row.config /\ saved.promised = r.row.promised
    BY <2>1 DEF RegRecords, Rows
  <2>4. /\ \A b \in Agents : reg'[b] = None \/ reg'[b] = reg[b]
        /\ UNCHANGED <<link, tasks, refused>>
    BY <1>2 DEF RegisterSave, AllTypes
  <2>5. /\ revived \subseteq revived'
        /\ \/ row' = row
           \/ row' = [row EXCEPT ![i] = saved] /\ (row[i] = None => i \in revived')
        /\ \A j \in Impls : deps[j] \subseteq deps'[j]
    BY <1>2, <2>2 DEF RegisterSave, AllTypes, TypeOK
  <2>6. i \notin revived' /\ row[i] # None => Covers(r.row, deps[i])
    BY <2>1, <2>2, <2>5 DEF CoverageInv
  <2> HIDE DEF saved, r
  <2>7. \A j \in Impls : \A x : Covers(x, deps[j]) => Covers(x, deps'[j])
    BY <2>5, CoverageGrows DEF Covers
  <2>8. \A j \in Impls : j \notin revived' /\ row'[j] # None => j \notin revived /\ row[j] # None
    BY <2>5 DEF AllTypes, TypeOK
  <2>9. \A j \in Impls \ revived' : row'[j] # None => Covers(row'[j], deps'[j])
    <3> SUFFICES ASSUME NEW j \in Impls, j \notin revived', row'[j] # None
                 PROVE  Covers(row'[j], deps'[j])
      OBVIOUS
    <3>1. CASE row'[j] = row[j]
      BY <3>1, <2>7, <2>8 DEF CoverageInv
    <3>2. CASE row'[j] # row[j]
      <4>1. j = i /\ row'[j] = saved
        BY <3>2, <2>5 DEF AllTypes, TypeOK
      <4>2. Covers(r.row, deps'[j])
        BY <4>1, <2>6, <2>7, <2>8
      <4>3. QED
        BY <4>1, <4>2, <2>3 DEF Covers
    <3>3. QED
      BY <3>1, <3>2
  <2>10. \A b \in Agents :
            reg'[b] # None /\ reg'[b].of \notin revived' /\ row'[reg'[b].of] # None =>
                Covers(reg'[b].row, deps'[reg'[b].of])
    <3>1. \A b \in Agents : reg[b] # None => reg[b].of \in Impls
      BY DEF AllTypes, RegRecords
    <3>2. QED
      BY <3>1, <2>4, <2>7, <2>8 DEF CoverageInv
  <2>11. \A v \in Linkers :
            /\ link'[v] # None /\ link'[v].valid
            /\ link'[v].higher \notin revived' /\ row'[link'[v].higher] # None
            => ValidateDependencyCoverage(link'[v].config, link'[v].slots, deps'[link'[v].higher])
    <3> SUFFICES ASSUME NEW v \in Linkers, link[v] # None, link[v].valid,
                        link[v].higher \notin revived', row'[link[v].higher] # None
                 PROVE  ValidateDependencyCoverage(link[v].config, link[v].slots, deps'[link[v].higher])
      BY <2>4
    <3>1. link[v].higher \in Impls
      BY DEF AllTypes, LinkRecords
    <3>2. ValidateDependencyCoverage(link[v].config, link[v].slots, deps[link[v].higher])
      BY <3>1, <2>8 DEF CoverageInv
    <3>3. QED
      BY <3>1, <3>2, <2>5, CoverageGrows
  <2>12. ChildIsComplete'
    BY <2>4, <2>5 DEF CoverageInv, ChildIsComplete
  <2>13. QED
    BY <2>9, <2>10, <2>11, <2>12 DEF CoverageInv
<1>3. QED
  BY <1>1, <1>2

\* With a row its dependencies go, so it is covered again only when it is plain; what
\* wraps it is plain.
LEMMA DeleteCoverage ==
    ASSUME AllTypes, CoverageInv, NEW i \in Impls, Delete(i)
    PROVE  CoverageInv'
<1>1. /\ UNCHANGED <<link, reg, tasks, refused, revived>>
      /\ \A j \in Impls : row'[j] = IF j = i THEN None
                                    ELSE IF Wraps(j, i) THEN [row[j] EXCEPT !.wraps = None]
                                    ELSE row[j]
      /\ \A j \in Impls : j # i => deps'[j] = deps[j]
  BY DEF Delete, AllTypes, TypeOK
<1>2. \A j \in Impls : Wraps(j, i) => [row[j] EXCEPT !.wraps = None].wraps = None
  BY DEF AllTypes, TypeOK, Rows, Wraps
<1>3. \A j \in Impls : row'[j] # None => row[j] # None /\ deps'[j] = deps[j]
  BY <1>1 DEF Wraps
<1>4. \A j \in Impls \ revived' : row'[j] # None => Covers(row'[j], deps'[j])
  <2> SUFFICES ASSUME NEW j \in Impls, j \notin revived', row'[j] # None
               PROVE  Covers(row'[j], deps'[j])
    OBVIOUS
  <2>1. CASE Wraps(j, i)
    <3>1. row'[j].wraps = None
      BY <2>1, <1>1, <1>2
    <3>2. QED
      BY <3>1 DEF Covers
  <2>2. CASE ~Wraps(j, i)
    <3>1. row'[j] = row[j]
      BY <2>2, <1>1
    <3>2. QED
      BY <3>1, <1>1, <1>3 DEF CoverageInv
  <2>3. QED
    BY <2>1, <2>2
<1>5. \A a \in Agents : reg[a] # None => reg[a].of \in Impls
  BY DEF AllTypes, RegRecords
<1>6. \A u \in Linkers : link[u] # None => link[u].higher \in Impls
  BY DEF AllTypes, LinkRecords
<1>7. QED
  BY <1>1, <1>3, <1>4, <1>5, <1>6 DEF CoverageInv, ChildIsComplete

\* A wrapper that is covered raises nothing over dependencies and gives its child every
\* slot.
LEMMA AssignmentCoverage ==
    ASSUME CoverageInv, NEW i \in Impls, NEW args \in SUBSET ArgKeys, AssignHigherOrder(i, args)
    PROVE  CoverageInv'
<1> DEFINE c == row[i].config
           new == [higher |-> i, lower |-> row[i].wraps, promised |-> row[i].promised,
                   slots |-> BuildLowerDependencies(c, deps[i]),
                   config |-> c, caller |-> args, args |-> BuildLowerArgs(c, args)]
<1>1. /\ UNCHANGED <<row, deps, link, reg, revived>>
      /\ tasks' = tasks \/ tasks' = tasks \cup {new}
      /\ refused' = refused \/ (refused' = refused \cup {i} /\ DependenciesRaise(c, deps[i]))
  BY DEF AssignHigherOrder
<1>2. i \notin revived => ValidateDependencyCoverage(c, row[i].promised, deps[i])
  BY DEF AssignHigherOrder, CoverageInv, Covers
<1>3. i \notin revived => ~DependenciesRaise(c, deps[i]) /\ new.promised \subseteq new.slots
  BY <1>2, CoveredSlotsAreFilled
<1>4. /\ new.higher = i /\ new.caller = args /\ new.config = c
      /\ new.args = BuildLowerArgs(c, args)
  OBVIOUS
<1> HIDE DEF new, c
<1>5. refused' \subseteq revived'
  BY <1>1, <1>3 DEF CoverageInv, ChildIsComplete
<1>6. \A t \in tasks' : t.higher \notin revived' => t.promised \subseteq t.slots
  BY <1>1, <1>3, <1>4 DEF CoverageInv, ChildIsComplete
<1>7. \A k \in new.caller : (\A j \in DOMAIN new.args : k \notin new.args[j]) =>
          \E j \in DOMAIN new.config.arg_map :
              new.config.arg_map[j] = k /\ j \in new.caller \cup {new.config.args_key}
  BY <1>4, ArgumentsArePassed
<1>8. ChildIsComplete'
  BY <1>1, <1>5, <1>6, <1>7 DEF CoverageInv, ChildIsComplete
<1>9. QED
  BY <1>1, <1>8 DEF CoverageInv

\* Every step keeps the coverage.
LEMMA CoverageNext == AllTypes /\ CoverageInv /\ [Next]_vars => CoverageInv'
<1> SUFFICES ASSUME AllTypes, CoverageInv, [Next]_vars
             PROVE  CoverageInv'
  OBVIOUS
<1>1. CASE UNCHANGED vars
  BY <1>1 DEF vars, CoverageInv, Covers, ChildIsComplete
<1>2. QED
  BY <1>1, LinkCoverage, LinkSaveCoverage, RegistrationCoverage, DeleteCoverage,
     AssignmentCoverage DEF Next
-----------------------------------------------------------------------------
(* Rings. *)

\* A step that gives no wrapper a new link, except for what it overlaps, closes no ring.
LEMMA NoLinkNoRing ==
    ASSUME WrappersEnd,
           raced \subseteq raced', overlapped \subseteq overlapped',
           \A i \in Impls \ overlapped' : \A j \in Impls : Wraps(i, j)' => Wraps(i, j)
    PROVE  WrappersEnd'
<1> SUFFICES ASSUME NEW ring \in SUBSET Impls, ring # {},
                    \A i \in ring : \E j \in ring : Wraps(i, j)'
             PROVE  ring \cap (raced' \cup overlapped') # {}
  BY DEF WrappersEnd
<1>1. CASE ring \cap overlapped' # {}
  BY <1>1
<1>2. CASE ring \cap overlapped' = {}
  <2>1. \A i \in ring : \E j \in ring : Wraps(i, j)
    BY <1>2
  <2>2. ring \cap (raced \cup overlapped) # {}
    BY <2>1 DEF WrappersEnd
  <2>3. QED
    BY <2>2
<1>3. QED
  BY <1>1, <1>2

\* Nobody wraps anything.
LEMMA RingInit == Init => RingInv
<1> SUFFICES ASSUME Init
             PROVE  RingInv
  OBVIOUS
<1>1. \A i, j \in Impls : ~Wraps(i, j)
  BY HigherOrderAssumption DEF Init, Wraps
<1>2. WrappersEnd
  <2> SUFFICES ASSUME NEW ring \in SUBSET Impls, ring # {},
                      \A i \in ring : \E j \in ring : Wraps(i, j)
               PROVE  FALSE
    BY DEF WrappersEnd
  <2>1. QED
    BY <1>1
<1>3. \A u \in Linkers : link[u] = None
  BY DEF Init
<1>4. QED
  BY <1>2, <1>3 DEF RingInv

\* A request remembers that it links two rows, and is valid for a plain one only.
LEMMA LinkRing ==
    ASSUME AllTypes, RingInv,
           \/ \E u \in Linkers, h, l \in Impls, c \in Configs : LinkRead(u, h, l, c)
           \/ \E u \in Linkers : LinkValidate(u)
    PROVE  RingInv'
<1>1. UNCHANGED <<row, raced, overlapped>>
  BY DEF LinkRead, LinkValidate, history
<1>2. WrappersEnd'
  BY <1>1 DEF RingInv, WrappersEnd, Wraps
<1>3. ASSUME NEW u \in Linkers, NEW h \in Impls, NEW l \in Impls, NEW c \in Configs,
             LinkRead(u, h, l, c)
      PROVE  RingInv'
  <2> DEFINE new == [higher |-> h, lower |-> l, config |-> c, row |-> row[h],
                     lowerWraps |-> row[l].wraps, valid |-> FALSE, slots |-> {}]
  <2>1. link' = [link EXCEPT ![u] = new] /\ h # l
    BY <1>3 DEF LinkRead
  <2>2. new.higher = h /\ new.lower = l /\ ~new.valid
    OBVIOUS
  <2> HIDE DEF new
  <2>3. \A v \in Linkers : link'[v] = IF v = u THEN new ELSE link[v]
    BY <2>1 DEF AllTypes
  <2>4. QED
    BY <1>2, <2>1, <2>2, <2>3 DEF RingInv
<1>4. ASSUME NEW u \in Linkers, LinkValidate(u)
      PROVE  RingInv'
  <2> DEFINE new == [link[u] EXCEPT !.valid = TRUE, !.slots = deps[link[u].lower]]
  <2>1. link[u] \in LinkRecords /\ link[u] # None
    BY <1>4 DEF LinkValidate, AllTypes
  <2>2. /\ new.higher = link[u].higher /\ new.lower = link[u].lower
        /\ new.lowerWraps = link[u].lowerWraps
    BY <2>1 DEF LinkRecords
  <2>3. \/ link' = [link EXCEPT ![u] = new] /\ link[u].lowerWraps = None
        \/ link' = [link EXCEPT ![u] = None]
    BY <1>4 DEF LinkValidate, ValidatePairing
  <2> HIDE DEF new
  <2>4. \A v \in Linkers : link'[v] # None =>
            \/ link'[v] = link[v]
            \/ v = u /\ link'[v] = new /\ link[u].lowerWraps = None
    BY <2>3 DEF AllTypes
  <2>5. QED
    BY <1>2, <2>1, <2>2, <2>4 DEF RingInv
<1>5. QED
  BY <1>3, <1>4

\* The row linked to wraps nothing when the link is saved, or the wrapper is raced: no
\* ring goes through the new link.
LEMMA LinkSaveRing ==
    ASSUME AllTypes, RingInv, NEW u \in Linkers, LinkSave(u)
    PROVE  RingInv'
<1> DEFINE k == link[u]
           saved == [k.row EXCEPT !.wraps = k.lower, !.config = k.config, !.promised = k.slots]
<1>1. k \in LinkRecords /\ k # None /\ k.valid
  BY DEF LinkSave, AllTypes
<1>2. PICK h \in Impls, l \in Impls : h = k.higher /\ l = k.lower
  BY <1>1 DEF LinkRecords
<1>3. h # l /\ k.lowerWraps = None
  BY <1>1, <1>2 DEF RingInv
<1>4. \A v \in Linkers : link'[v] = IF v = u THEN None ELSE link[v]
  BY DEF LinkSave, AllTypes
<1>5. CASE row[l] = None
  <2>1. UNCHANGED <<row, raced, overlapped>>
    BY <1>2, <1>5 DEF LinkSave
  <2>2. QED
    BY <1>4, <2>1 DEF RingInv, WrappersEnd, Wraps
<1>6. CASE row[l] # None
  <2>1. saved.wraps = l
    BY <1>1, <1>2 DEF LinkRecords, Rows
  <2>2. /\ row' = [row EXCEPT ![h] = saved]
        /\ raced' = IF row[l].wraps # k.lowerWraps THEN raced \cup {h} ELSE raced \ {h}
        /\ overlapped \subseteq overlapped'
    BY <1>2, <1>6 DEF LinkSave
  <2> HIDE DEF saved, k
  <2>3. \A i \in Impls : row'[i] = IF i = h THEN saved ELSE row[i]
    BY <2>2 DEF AllTypes, TypeOK
  <2>4. ASSUME NEW ring \in SUBSET Impls, ring # {},
               \A i \in ring : \E j \in ring : Wraps(i, j)'
        PROVE  ring \cap (raced' \cup overlapped') # {}
    <3>1. CASE h \notin ring
      <4>1. \A i \in ring : \E j \in ring : Wraps(i, j)
        BY <2>3, <2>4, <3>1 DEF Wraps
      <4>2. PICK d \in ring : d \in raced \cup overlapped
        BY <2>4, <4>1 DEF RingInv, WrappersEnd
      <4>3. d \in raced' \cup overlapped'
        BY <2>2, <3>1, <4>2
      <4>4. QED
        BY <4>3
    <3>2. CASE h \in ring /\ row[l].wraps # k.lowerWraps
      BY <2>2, <3>2
    <3>3. CASE h \in ring /\ row[l].wraps = k.lowerWraps
      <4>1. l \in ring
        BY <2>1, <2>3, <2>4, <3>3 DEF Wraps
      <4>2. row'[l].wraps = None
        BY <1>3, <2>3, <3>3
      <4>3. QED
        BY <2>4, <4>1, <4>2, HigherOrderAssumption DEF Wraps
    <3>4. QED
      BY <3>1, <3>2, <3>3
  <2>5. WrappersEnd'
    BY <2>4 DEF WrappersEnd
  <2>6. QED
    BY <1>4, <2>5 DEF RingInv
<1>7. QED
  BY <1>5, <1>6

\* A registration writes back the link it has read, which is the row's own unless
\* somebody wrote the row meanwhile.
LEMMA RegistrationRing ==
    ASSUME AllTypes, UpdatesInv, RingInv,
           \/ \E i \in Impls : RegisterRead(i)
           \/ \E a \in Agents, k \in Kinds, ds \in SUBSET Deps : RegisterSave(a, k, ds)
    PROVE  RingInv'
<1>1. CASE \E i \in Impls : RegisterRead(i)
  BY <1>1 DEF RegisterRead, history, RingInv, WrappersEnd, Wraps
<1>2. ASSUME NEW a \in Agents, NEW k \in Kinds, NEW ds \in SUBSET Deps, RegisterSave(a, k, ds)
      PROVE  RingInv'
  <2> DEFINE i == reg[a].of
             saved == [reg[a].row EXCEPT !.rev = reg[a].rev]
  <2>1. reg[a] # None /\ reg[a] \in RegRecords /\ i \in Impls
    BY <1>2 DEF RegisterSave, AllTypes, RegRecords
  <2>2. saved.wraps = reg[a].row.wraps
    BY <2>1 DEF RegRecords, Rows
  <2>3. a \in Readers(i)
    BY <2>1 DEF Readers
  <2>4. /\ UNCHANGED <<link, raced>>
        /\ overlapped \subseteq overlapped'
        /\ row' = row \/ row' = [row EXCEPT ![i] = saved]
    BY <1>2 DEF RegisterSave
  <2> HIDE DEF saved
  <2>5. \A j \in Impls : row'[j] = row[j] \/ (j = i /\ row'[j] = saved)
    BY <2>4 DEF AllTypes, TypeOK
  <2>6. i \notin overlapped' => row[i] # None /\ row[i].wraps = reg[a].row.wraps
    BY <2>1, <2>3, <2>4 DEF UpdatesInv, NoLostUpdate
  <2>7. \A j \in Impls \ overlapped' : \A n \in Impls : Wraps(j, n)' => Wraps(j, n)
    BY <2>2, <2>5, <2>6 DEF Wraps
  <2>8. WrappersEnd'
    BY <2>4, <2>7, NoLinkNoRing DEF RingInv
  <2>9. QED
    BY <2>4, <2>8 DEF RingInv
<1>3. QED
  BY <1>1, <1>2

\* A deletion removes links.
LEMMA DeleteRing ==
    ASSUME AllTypes, RingInv, NEW i \in Impls, Delete(i)
    PROVE  RingInv'
<1>1. /\ UNCHANGED <<link, raced>>
      /\ overlapped \subseteq overlapped'
      /\ \A j \in Impls : row'[j] = IF j = i THEN None
                                    ELSE IF Wraps(j, i) THEN [row[j] EXCEPT !.wraps = None]
                                    ELSE row[j]
  BY DEF Delete
<1>2. \A j \in Impls : Wraps(j, i) => [row[j] EXCEPT !.wraps = None].wraps = None
  BY DEF AllTypes, TypeOK, Rows, Wraps
<1>3. \A j, n \in Impls : Wraps(j, n)' => Wraps(j, n)
  BY <1>1, <1>2, HigherOrderAssumption DEF Wraps
<1>4. WrappersEnd'
  BY <1>1, <1>3, NoLinkNoRing DEF RingInv
<1>5. QED
  BY <1>1, <1>4 DEF RingInv

\* Every step keeps rings where they are told of.
LEMMA RingNext == AllTypes /\ UpdatesInv /\ RingInv /\ [Next]_vars => RingInv'
<1> SUFFICES ASSUME AllTypes, UpdatesInv, RingInv, [Next]_vars
             PROVE  RingInv'
  OBVIOUS
<1>1. CASE \E i \in Impls, args \in SUBSET ArgKeys : AssignHigherOrder(i, args)
  BY <1>1 DEF AssignHigherOrder, RingInv, WrappersEnd, Wraps
<1>2. CASE UNCHANGED vars
  BY <1>2 DEF vars, RingInv, WrappersEnd, Wraps
<1>3. QED
  BY <1>1, <1>2, LinkRing, LinkSaveRing, RegistrationRing, DeleteRing DEF Next
-----------------------------------------------------------------------------
\* Every reachable state satisfies the inductive invariant.
THEOREM HigherOrderInductive == Spec => []HigherOrderInv
<1>1. Init => HigherOrderInv
  BY AllTypesInit, UpdatesInit, CoverageInit, RingInit DEF HigherOrderInv
<1>2. HigherOrderInv /\ [Next]_vars => HigherOrderInv'
  BY AllTypesNext, UpdatesNext, CoverageNext, RingNext DEF HigherOrderInv
<1>3. QED
  BY <1>1, <1>2, PTL DEF Spec

\* The rows, and the snapshots of rows under way, are typed.
THEOREM HigherOrderTypes == Spec => []TypeOK
<1>1. HigherOrderInv => TypeOK
  BY DEF HigherOrderInv, AllTypes
<1>2. QED
  BY <1>1, HigherOrderInductive, PTL

\* A row holds the link of the last set_higher_order and the declared fields of the last
\* registration, unless one wrote it between the other's read and save.
THEOREM UpdatesAreLostOnlyByOverlap == Spec => []NoLostUpdate
<1>1. HigherOrderInv => NoLostUpdate
  BY DEF HigherOrderInv, UpdatesInv
<1>2. QED
  BY <1>1, HigherOrderInductive, PTL

\* A child task has every slot its wrapper was validated for and every argument the
\* projection does not replace, and only a wrapper that was deleted and inserted again
\* by an old reader raises over its dependencies.
THEOREM ChildrenAreComplete == Spec => []ChildIsComplete
<1>1. HigherOrderInv => ChildIsComplete
  BY DEF HigherOrderInv, CoverageInv
<1>2. QED
  BY <1>1, HigherOrderInductive, PTL

\* Following wrappers ends: a set of implementations that all wrap one of the set has one
\* whose lower row became a wrapper while it was being linked, or whose row was written
\* while somebody was still to save it.
THEOREM WrappersEndUnlessRaced == Spec => []WrappersEnd
<1>1. HigherOrderInv => WrappersEnd
  BY DEF HigherOrderInv, RingInv
<1>2. QED
  BY <1>1, HigherOrderInductive, PTL
=============================================================================
