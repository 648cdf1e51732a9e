----------------------------- MODULE CallerProofs -----------------------------
(***************************************************************************)
(* Proofs about what callers ask for: CallerAssign, for any number of      *)
(* sockets, HookAgents, requests and references, and any story of an       *)
(* executing agent; and AutoInterrupt, for any number of requests,         *)
(* reports and sweeps, over any number of timers.                          *)
(***************************************************************************)
EXTENDS CallerAssign, AutoInterrupt, SequenceTheorems, WellFoundedInduction, TLAPS

ResponseKinds == {"created", "found", "refused"}
RowRecords == [ref : References \cup {"uuid4"}, parent : Nat, maker : Requests, events : Nat,
               witnesses : SUBSET Requests]
Messages == [kind : ExecutionEvents \cup ResponseKinds, request : Requests, task : Nat]

\* TypeOK, and the types of everything it leaves out.
CallerTypes ==
    /\ TypeOK
    /\ rows \in Seq(RowRecords)
    /\ mirrors \in [Sockets -> Seq(TaskEvents)]
    /\ log \in [Lines -> Seq(Messages)]
    /\ posting # {} => Hooks # {}

\* Whoever looked for a reference in vain was past its lookup when any row of it was written.
LookupsOverlap ==
    \A q \in Requests, i \in DOMAIN rows :
        pc[q] = "resolve" /\ rows[i].ref = Reference[q] => q \in rows[i].witnesses

\* A request has one task of its own reference, and at most one child of it.
RowsInv ==
    /\ \A i \in DOMAIN rows : rows[i].parent = 0 =>
          /\ created[rows[i].maker] /\ row[rows[i].maker] = i
          /\ rows[i].ref = Reference[rows[i].maker]
    /\ \A i \in DOMAIN rows : rows[i].parent # 0 =>
          /\ rows[i].ref = "uuid4" /\ rows[rows[i].parent].parent = 0
          /\ rows[rows[i].parent].maker = rows[i].maker
          /\ pc[rows[i].maker] # "lower"
    /\ \A i, j \in DOMAIN rows : rows[i].parent = rows[j].parent /\ rows[i].parent # 0 => i = j
    /\ \A q \in Requests : created[q] =>
          /\ row[q] \in DOMAIN rows /\ rows[row[q]].maker = q /\ rows[row[q]].parent = 0
          /\ pc[q] \notin {"unsent", "lookup", "resolve"}
    /\ \A q \in Requests : pc[q] \in {"lower", "mint", "push"} => created[q]
    /\ \A q \in Requests : pc[q] = "answer" /\ ~created[q] =>
          row[q] \in DOMAIN rows /\ rows[row[q]].parent = 0

\* Row j runs for row i: its child, or i itself without one.
Executes(j, i) ==
    \/ rows[j].parent = i
    \/ j = i /\ \A c \in DOMAIN rows : rows[c].parent # i

Dispatched(q) == \E j \in pushed : Executes(j, row[q])

\* A created task that is about to be answered, or was and not with a refusal, is dispatched.
DispatchInv ==
    /\ \A i \in lost : Reference[rows[i].maker] \in Hooked
    /\ \A q \in Requests : created[q] /\ pc[q] = "answer" => Dispatched(q)
    /\ \A q \in Requests : created[q] /\ pc[q] = "over" => Dispatched(q) \/ TellsOf(q, "refused")
    /\ \A q \in Requests : TellsOf(q, "created") => created[q] /\ pc[q] = "over" /\ Dispatched(q)
    /\ \A q \in Requests : TellsOf(q, "found") =>
          /\ pc[q] = "over" /\ ~created[q]
          /\ row[q] \in DOMAIN rows /\ rows[row[q]].parent = 0

\* Who is through was answered, and events come after the answer.
AnswersInv ==
    /\ \A q \in Requests : pc[q] = "over" => \E kind \in ResponseKinds : TellsOf(q, kind)
    /\ EventsFollowResponse

CallerInv ==
    CallerTypes /\ DuplicatesOverlap /\ LookupsOverlap /\ RowsInv /\ DispatchInv /\ AnswersInv
-----------------------------------------------------------------------------
\* A set of natural numbers with an element has a least one.
LEMMA LeastIsElement ==
    ASSUME NEW T \in SUBSET Nat, T # {}
    PROVE  Min(T) \in T
<1> DEFINE less == OpToRel(<, Nat)
<1>1. IsWellFoundedOn(less, Nat)
  BY NatLessThanWellFounded
<1>2. PICK x \in T : \A y \in T : <<y, x>> \notin less
  <2> HIDE DEF less
  <2>1. QED
    BY <1>1, WFMin, Zenon
<1>3. \A y \in T : ~(y < x)
  BY <1>2 DEF OpToRel
<1>4. \A y \in T : x =< y
  BY <1>3
<1>5. QED
  BY <1>4 DEF Min

\* Nobody has sent anything.
LEMMA CallerInit == Init => CallerInv
<1> SUFFICES ASSUME Init
             PROVE  CallerInv
  OBVIOUS
<1>1. CallerTypes
  <2>1. rows \in Seq(RowRecords) /\ DOMAIN rows = {} /\ Len(rows) = 0
    BY DEF Init
  <2>2. mirrors \in [Sockets -> Seq(TaskEvents)] /\ \A k \in Sockets : Range(mirrors[k]) = {}
    BY DEF Init, Range
  <2>3. log \in [Lines -> Seq(Messages)] /\ DOMAIN log = Lines
    BY DEF Init
  <2>4. QED
    BY <2>1, <2>2, <2>3 DEF Init, CallerTypes, TypeOK, Steps
<1>2. DOMAIN rows = {} /\ \A k \in Lines : DOMAIN log[k] = {}
  BY DEF Init
<1>3. \A q \in Requests : Line[q] \in Lines
  BY RequestsAssumption
<1>4. \A q \in Requests : \A kind : ~TellsOf(q, kind)
  BY <1>2, <1>3 DEF TellsOf, Responses
<1>5. EventsFollowResponse
  BY <1>2 DEF EventsFollowResponse, Lines
<1>6. QED
  BY <1>1, <1>2, <1>4, <1>5
     DEF Init, CallerInv, DuplicatesOverlap, LookupsOverlap, RowsInv, DispatchInv, AnswersInv

\* A request that goes to another step and writes nothing: it is dispatched, refused,
\* given its token, or dies.
LEMMA StepAlone ==
    ASSUME CallerInv, NEW q \in Requests, NEW step \in {"lookup", "refuse", "push", "dead"},
           pc' = [pc EXCEPT ![q] = step], pc[q] # "over",
           step = "lookup" => pc[q] = "unsent",
           step = "push" => pc[q] = "mint",
           UNCHANGED <<rows, pushed, lost, row, created, mirrors, posting, log>>
    PROVE  CallerInv'
<1>1. \A p \in Requests : pc'[p] = IF p = q THEN step ELSE pc[p]
  BY DEF CallerInv, CallerTypes, TypeOK
<1>2. CallerTypes'
  <2>1. pc' \in [Requests -> Steps]
    BY DEF CallerInv, CallerTypes, TypeOK, Steps
  <2>2. QED
    BY <2>1 DEF CallerInv, CallerTypes, TypeOK, TaskEvents
<1>3. DuplicatesOverlap' /\ LookupsOverlap'
  BY <1>1 DEF CallerInv, DuplicatesOverlap, LookupsOverlap
<1>4. RowsInv'
  BY <1>1 DEF CallerInv, RowsInv, CallerTypes, TypeOK
<1>5. \A p \in Requests : \A kind : (TellsOf(p, kind)' <=> TellsOf(p, kind))
  BY DEF TellsOf, Responses
<1>6. \A p \in Requests : Dispatched(p)' <=> Dispatched(p)
  BY DEF Dispatched, Executes
<1>7. DispatchInv'
  BY <1>1, <1>5, <1>6 DEF CallerInv, DispatchInv
<1>8. AnswersInv'
  <2>1. EventsFollowResponse'
    BY DEF CallerInv, AnswersInv, EventsFollowResponse, Responses
  <2>2. QED
    BY <1>1, <1>5, <2>1 DEF CallerInv, AnswersInv
<1>9. QED
  BY <1>2, <1>3, <1>4, <1>7, <1>8 DEF CallerInv

\* A lookup in vain means that there is no row to have witnessed it; what is found is
\* a task and not the child of one.
LEMMA LookupStep ==
    ASSUME CallerInv, NEW q \in Requests, Lookup(q)
    PROVE  CallerInv'
<1> DEFINE known == Matching(Reference[q])
<1>1. Len(rows) \in Nat /\ DOMAIN rows = 1 .. Len(rows)
  BY DEF CallerInv, CallerTypes
<1>2. known \subseteq DOMAIN rows /\ known \in SUBSET Nat
  BY <1>1 DEF Matching
<1>3. \A i \in known : rows[i].parent = 0
  <2>1. Reference[q] # "uuid4"
    BY RequestsAssumption DEF References
  <2>2. QED
    BY <2>1 DEF Matching, CallerInv, RowsInv
<1>4. known # {} => Min(known) \in known
  BY <1>2, LeastIsElement
<1> DEFINE found == IF known = {} THEN 0 ELSE Min(known)
<1>5. /\ found \in 0 .. Len(rows)
      /\ known # {} => found \in DOMAIN rows /\ rows[found].parent = 0
  BY <1>1, <1>2, <1>3, <1>4
<1>6. known = {} => \A i \in DOMAIN rows : rows[i].ref # Reference[q]
  BY DEF Matching
<1>7. /\ pc[q] = "lookup"
      /\ row' = [row EXCEPT ![q] = found]
      /\ pc' = [pc EXCEPT ![q] = IF known = {} THEN "resolve" ELSE "answer"]
      /\ UNCHANGED <<rows, pushed, lost, created, mirrors, posting, log>>
  BY DEF Lookup, Goto
<1> HIDE DEF known, found
<1>8. /\ \A p \in Requests : pc'[p] = IF p = q THEN IF known = {} THEN "resolve" ELSE "answer" ELSE pc[p]
      /\ \A p \in Requests : row'[p] = IF p = q THEN found ELSE row[p]
  BY <1>7 DEF CallerInv, CallerTypes, TypeOK
<1>9. CallerTypes'
  <2>1. pc' \in [Requests -> Steps]
    BY <1>7 DEF CallerInv, CallerTypes, TypeOK, Steps
  <2>2. row' \in [Requests -> 0 .. Len(rows')]
    BY <1>5, <1>7 DEF CallerInv, CallerTypes, TypeOK
  <2>3. QED
    BY <2>1, <2>2, <1>7 DEF CallerInv, CallerTypes, TypeOK, TaskEvents
<1>10. ~created[q]
  BY <1>7 DEF CallerInv, RowsInv
<1>11. DuplicatesOverlap' /\ LookupsOverlap'
  BY <1>6, <1>7, <1>8 DEF CallerInv, DuplicatesOverlap, LookupsOverlap
<1>12. RowsInv'
  <2>1. \A i \in DOMAIN rows : rows[i].parent = 0 => rows[i].maker # q
    BY <1>10 DEF CallerInv, RowsInv
  <2>2. \A i \in DOMAIN rows : rows[i].maker \in Requests
    BY DEF CallerInv, CallerTypes, TypeOK
  <2>3. QED
    BY <1>5, <1>7, <1>8, <1>10, <2>1, <2>2 DEF CallerInv, RowsInv
<1>13. \A p \in Requests : \A kind : (TellsOf(p, kind)' <=> TellsOf(p, kind))
  BY <1>7 DEF TellsOf, Responses
<1>14. \A p \in Requests : p # q => (Dispatched(p)' <=> Dispatched(p))
  BY <1>7, <1>8 DEF Dispatched, Executes
<1>15. DispatchInv'
  BY <1>7, <1>8, <1>10, <1>13, <1>14 DEF CallerInv, DispatchInv
<1>16. AnswersInv'
  <2>1. EventsFollowResponse'
    BY <1>7 DEF CallerInv, AnswersInv, EventsFollowResponse, Responses
  <2>2. QED
    BY <1>8, <1>13, <2>1 DEF CallerInv, AnswersInv
<1>17. QED
  BY <1>9, <1>11, <1>12, <1>15, <1>16 DEF CallerInv

\* What a new row leaves as it is.
LEMMA RowAppended ==
    ASSUME CallerTypes, NEW new \in RowRecords, new.parent \in 0 .. Len(rows),
           rows' = Append(rows, new)
    PROVE  /\ rows' \in Seq(RowRecords)
           /\ Len(rows') = Len(rows) + 1 /\ DOMAIN rows' = 1 .. Len(rows) + 1
           /\ DOMAIN rows = 1 .. Len(rows) /\ Len(rows) \in Nat
           /\ \A i \in DOMAIN rows : rows'[i] = rows[i]
           /\ rows'[Len(rows) + 1] = new
           /\ \A i \in DOMAIN rows' : rows'[i].maker \in Requests /\ rows'[i].parent \in 0 .. i - 1
           /\ TaskEvents \subseteq TaskEvents'
<1>1. rows \in Seq(RowRecords)
  BY DEF CallerTypes
<1>2. /\ rows' \in Seq(RowRecords)
      /\ Len(rows') = Len(rows) + 1 /\ DOMAIN rows' = 1 .. Len(rows) + 1
      /\ DOMAIN rows = 1 .. Len(rows) /\ Len(rows) \in Nat
  BY <1>1
<1>3. \A i \in 1 .. Len(rows) : rows'[i] = rows[i]
  BY <1>1
<1>4. rows'[Len(rows) + 1] = new
  BY <1>1
<1>5. \A i \in DOMAIN rows' : rows'[i].maker \in Requests /\ rows'[i].parent \in 0 .. i - 1
  BY <1>2, <1>3, <1>4 DEF CallerTypes, TypeOK, RowRecords
<1>6. TaskEvents \subseteq TaskEvents'
  BY <1>2 DEF TaskEvents
<1>7. QED
  BY <1>2, <1>3, <1>4, <1>5, <1>6

\* A new row is the child of nothing that was dispatched, and so changes nothing for it.
LEMMA DispatchedStays ==
    ASSUME CallerTypes, NEW new \in RowRecords, new.parent \in 0 .. Len(rows),
           rows' = Append(rows, new), pushed' = pushed,
           NEW p \in Requests, row'[p] = row[p], new.parent # row[p],
           Dispatched(p)
    PROVE  Dispatched(p)'
<1>1. PICK j \in pushed : Executes(j, row[p])
  BY DEF Dispatched
<1>2. j \in DOMAIN rows
  BY DEF CallerTypes, TypeOK
<1>3. \A c \in DOMAIN rows' : rows'[c].parent = row[p] => c \in DOMAIN rows /\ rows[c].parent = row[p]
  BY RowAppended
<1>4. rows'[j] = rows[j]
  BY <1>2, RowAppended
<1>5. \/ rows'[j].parent = row'[p]
      \/ j = row'[p] /\ \A c \in DOMAIN rows' : rows'[c].parent # row'[p]
  BY <1>1, <1>3, <1>4 DEF Executes
<1>6. QED
  BY <1>5 DEF Dispatched, Executes

\* The task of a reference is written while everybody else who looked for it in vain is
\* still at work.
LEMMA CreateStep ==
    ASSUME CallerInv, NEW q \in Requests, Create(q)
    PROVE  CallerInv'
<1> DEFINE new == [ref |-> Reference[q], parent |-> 0, maker |-> q, events |-> 0,
                   witnesses |-> {p \in Requests : Running(p) /\ pc[p] # "lookup"}]
           n == Len(rows) + 1
           step == IF Reference[q] \in Wrapped THEN "lower" ELSE "mint"
<1>1. /\ pc[q] = "resolve" /\ ~created[q]
      /\ rows' = Append(rows, new)
      /\ row' = [row EXCEPT ![q] = Len(rows')]
      /\ created' = [created EXCEPT ![q] = TRUE]
      /\ pc' = [pc EXCEPT ![q] = step]
      /\ UNCHANGED <<pushed, lost, mirrors, posting, log>>
  BY DEF Create, NewRow, Goto, CallerInv, RowsInv
<1>2. new \in RowRecords /\ new.parent = 0 /\ new.maker = q /\ new.ref = Reference[q]
  BY DEF RowRecords, References
<1>3. \A p \in Requests : pc[p] = "resolve" => p \in new.witnesses
  BY DEF Running
<1> HIDE DEF new
<1>4. 0 \in 0 .. Len(rows)
  BY DEF CallerInv, CallerTypes
<1>5. /\ rows' \in Seq(RowRecords)
      /\ Len(rows') = n /\ DOMAIN rows' = 1 .. n
      /\ DOMAIN rows = 1 .. Len(rows) /\ Len(rows) \in Nat
      /\ \A i \in DOMAIN rows : rows'[i] = rows[i]
      /\ rows'[n] = new
      /\ \A i \in DOMAIN rows' : rows'[i].maker \in Requests /\ rows'[i].parent \in 0 .. i - 1
      /\ TaskEvents \subseteq TaskEvents'
  BY <1>1, <1>2, <1>4, RowAppended DEF CallerInv
<1> HIDE DEF n
<1>6. /\ n \in DOMAIN rows' /\ n \notin DOMAIN rows /\ DOMAIN rows' = DOMAIN rows \cup {n}
      /\ DOMAIN rows \subseteq DOMAIN rows'
  BY <1>5 DEF n
<1>7. /\ \A p \in Requests \ {q} : pc'[p] = pc[p] /\ row'[p] = row[p] /\ (created'[p] <=> created[p])
      /\ pc'[q] = step /\ row'[q] = n /\ created'[q]
  BY <1>1, <1>5 DEF CallerInv, CallerTypes, TypeOK
<1>8. step \in {"lower", "mint"}
  OBVIOUS
<1> HIDE DEF step
<1>9. CallerTypes'
  <2>1. pc' \in [Requests -> Steps] /\ created' \in [Requests -> BOOLEAN]
    BY <1>1, <1>8 DEF CallerInv, CallerTypes, TypeOK, Steps
  <2>2. row' \in [Requests -> 0 .. Len(rows')]
    BY <1>1, <1>5 DEF n, CallerInv, CallerTypes, TypeOK
  <2>3. pushed' \subseteq DOMAIN rows' /\ lost' \subseteq pushed'
    BY <1>1, <1>6 DEF CallerInv, CallerTypes, TypeOK
  <2>4. \A k \in Sockets : Range(mirrors'[k]) \subseteq TaskEvents'
    BY <1>1, <1>5 DEF CallerInv, CallerTypes, TypeOK
  <2>5. \A k \in Sockets : mirrors'[k] \in Seq(TaskEvents')
    BY <1>1, <1>5, SeqMonotonic DEF CallerInv, CallerTypes
  <2>6. mirrors' \in [Sockets -> Seq(TaskEvents')]
    BY <1>1, <2>5 DEF CallerInv, CallerTypes
  <2>7. posting' \subseteq TaskEvents'
    BY <1>1, <1>5 DEF CallerInv, CallerTypes, TypeOK
  <2>8. QED
    BY <1>1, <1>5, <2>1, <2>2, <2>3, <2>4, <2>6, <2>7 DEF CallerInv, CallerTypes, TypeOK
<1>10. DuplicatesOverlap'
  <2> SUFFICES ASSUME NEW i \in DOMAIN rows', NEW j \in DOMAIN rows',
                      i < j, rows'[i].ref = rows'[j].ref, rows'[i].ref \in References
               PROVE  rows'[j].maker \in rows'[i].witnesses
    BY DEF DuplicatesOverlap
  <2>1. i \in DOMAIN rows
    BY <1>5 DEF n
  <2>2. CASE j \in DOMAIN rows
    BY <2>1, <2>2, <1>5 DEF CallerInv, DuplicatesOverlap
  <2>3. CASE j = n
    BY <2>1, <2>3, <1>1, <1>2, <1>5 DEF CallerInv, LookupsOverlap
  <2>4. QED
    BY <2>2, <2>3, <1>6
<1>11. LookupsOverlap'
  <2> SUFFICES ASSUME NEW p \in Requests, NEW i \in DOMAIN rows',
                      pc'[p] = "resolve", rows'[i].ref = Reference[p]
               PROVE  p \in rows'[i].witnesses
    BY DEF LookupsOverlap
  <2>1. p # q /\ pc[p] = "resolve"
    BY <1>7, <1>8
  <2>2. CASE i \in DOMAIN rows
    BY <2>1, <2>2, <1>5 DEF CallerInv, LookupsOverlap
  <2>3. CASE i = n
    BY <2>1, <2>3, <1>3, <1>5
  <2>4. QED
    BY <2>2, <2>3, <1>6
<1>12. RowsInv'
  <2>1. \A i \in DOMAIN rows : /\ rows[i].parent \in 0 .. i - 1 /\ rows[i].maker \in Requests
                               /\ rows[i].parent # 0 => rows[i].parent \in DOMAIN rows
    BY <1>5 DEF CallerInv, CallerTypes, TypeOK
  <2>2. \A i \in DOMAIN rows : rows[i].maker # q
    BY <2>1, <1>1 DEF CallerInv, RowsInv
  <2>3. ASSUME NEW i \in DOMAIN rows', rows'[i].parent = 0
        PROVE  /\ created'[rows'[i].maker] /\ row'[rows'[i].maker] = i
               /\ rows'[i].ref = Reference[rows'[i].maker]
    <3>1. CASE i \in DOMAIN rows
      BY <3>1, <2>1, <2>2, <2>3, <1>5, <1>7 DEF CallerInv, RowsInv
    <3>2. CASE i = n
      BY <3>2, <1>2, <1>5, <1>7
    <3>3. QED
      BY <3>1, <3>2, <1>6
  <2>4. ASSUME NEW i \in DOMAIN rows', rows'[i].parent # 0
        PROVE  /\ i \in DOMAIN rows
               /\ rows'[i].ref = "uuid4" /\ rows'[rows'[i].parent].parent = 0
               /\ rows'[rows'[i].parent].maker = rows'[i].maker
               /\ pc'[rows'[i].maker] # "lower"
    <3>1. i \in DOMAIN rows /\ rows'[i] = rows[i]
      BY <2>4, <1>2, <1>5, <1>6
    <3>2. rows[i].parent \in DOMAIN rows
      BY <3>1, <2>1, <2>4
    <3>3. rows'[rows[i].parent] = rows[rows[i].parent]
      BY <3>2, <1>5
    <3>4. /\ rows[i].ref = "uuid4" /\ rows[rows[i].parent].parent = 0
          /\ rows[rows[i].parent].maker = rows[i].maker
          /\ pc[rows[i].maker] # "lower"
      BY <3>1, <2>4 DEF CallerInv, RowsInv
    <3>5. pc'[rows[i].maker] = pc[rows[i].maker]
      BY <3>1, <2>1, <2>2, <1>7
    <3>6. QED
      BY <3>1, <3>3, <3>4, <3>5
  <2>5. \A i, j \in DOMAIN rows' : rows'[i].parent = rows'[j].parent /\ rows'[i].parent # 0 => i = j
    BY <2>4, <1>5 DEF CallerInv, RowsInv
  <2>6. ASSUME NEW p \in Requests, created'[p]
        PROVE  /\ row'[p] \in DOMAIN rows' /\ rows'[row'[p]].maker = p /\ rows'[row'[p]].parent = 0
               /\ pc'[p] \notin {"unsent", "lookup", "resolve"}
    <3>1. CASE p = q
      BY <3>1, <1>2, <1>5, <1>6, <1>7, <1>8
    <3>2. CASE p # q
      BY <3>2, <2>6, <1>5, <1>6, <1>7 DEF CallerInv, RowsInv
    <3>3. QED
      BY <3>1, <3>2
  <2>7. ASSUME NEW p \in Requests
        PROVE  /\ pc'[p] \in {"lower", "mint", "push"} => created'[p]
               /\ pc'[p] = "answer" /\ ~created'[p] =>
                     row'[p] \in DOMAIN rows' /\ rows'[row'[p]].parent = 0
    <3>1. CASE p = q
      BY <3>1, <1>7
    <3>2. CASE p # q
      BY <3>2, <1>5, <1>6, <1>7 DEF CallerInv, RowsInv
    <3>3. QED
      BY <3>1, <3>2
  <2>8. QED
    BY <2>3, <2>4, <2>5, <2>6, <2>7 DEF RowsInv
<1>13. \A p \in Requests : \A kind : (TellsOf(p, kind)' <=> TellsOf(p, kind))
  BY <1>1 DEF TellsOf, Responses
<1>14. \A p \in Requests : p # q /\ created[p] /\ Dispatched(p) => Dispatched(p)'
  <2>1. \A p \in Requests : created[p] => row[p] # 0
    BY <1>5 DEF CallerInv, RowsInv
  <2>2. QED
    BY <2>1, <1>1, <1>2, <1>4, <1>7, DispatchedStays DEF CallerInv
<1>15. DispatchInv'
  <2>1. \A i \in lost : i \in DOMAIN rows
    BY DEF CallerInv, CallerTypes, TypeOK
  <2>2. \A i \in lost' : Reference[rows'[i].maker] \in Hooked
    BY <2>1, <1>1, <1>5 DEF CallerInv, DispatchInv
  <2>3. \A p \in Requests : TellsOf(p, "found")' =>
            /\ pc'[p] = "over" /\ ~created'[p]
            /\ row'[p] \in DOMAIN rows' /\ rows'[row'[p]].parent = 0
    BY <1>1, <1>5, <1>6, <1>7, <1>13 DEF CallerInv, DispatchInv
  <2>4. ASSUME NEW p \in Requests
        PROVE  /\ created'[p] /\ pc'[p] = "answer" => Dispatched(p)'
               /\ created'[p] /\ pc'[p] = "over" => Dispatched(p)' \/ TellsOf(p, "refused")'
               /\ TellsOf(p, "created")' => created'[p] /\ pc'[p] = "over" /\ Dispatched(p)'
    <3>1. CASE p = q
      <4>1. ~TellsOf(q, "created")
        BY <1>1 DEF CallerInv, DispatchInv
      <4>2. QED
        BY <3>1, <4>1, <1>7, <1>8, <1>13
    <3>2. CASE p # q
      <4>1. /\ created[p] /\ pc[p] = "answer" => Dispatched(p)
            /\ created[p] /\ pc[p] = "over" => Dispatched(p) \/ TellsOf(p, "refused")
            /\ TellsOf(p, "created") => created[p] /\ pc[p] = "over" /\ Dispatched(p)
        BY DEF CallerInv, DispatchInv
      <4>2. /\ pc'[p] = pc[p] /\ (created'[p] <=> created[p])
            /\ \A kind : TellsOf(p, kind)' <=> TellsOf(p, kind)
            /\ created[p] /\ Dispatched(p) => Dispatched(p)'
        BY <3>2, <1>7, <1>13, <1>14
      <4>3. QED
        BY <4>1, <4>2, Zenon
    <3>3. QED
      BY <3>1, <3>2
  <2>5. QED
    BY <2>2, <2>3, <2>4 DEF DispatchInv
<1>16. AnswersInv'
  <2>1. \A i \in DOMAIN rows : rows'[i] = rows[i]
    BY <1>5
  <2>2. EventsFollowResponse'
    BY <1>1 DEF CallerInv, AnswersInv, EventsFollowResponse, Responses
  <2>3. QED
    BY <1>7, <1>8, <1>13, <2>2 DEF CallerInv, AnswersInv
<1>17. QED
  BY <1>9, <1>10, <1>11, <1>12, <1>15, <1>16 DEF CallerInv

\* The child of a wrapper's task is its only one and has a reference nobody looks for.
LEMMA CreateLowerStep ==
    ASSUME CallerInv, NEW q \in Requests, CreateLower(q)
    PROVE  CallerInv'
<1> DEFINE new == [ref |-> "uuid4", parent |-> row[q], maker |-> q, events |-> 0,
                   witnesses |-> {p \in Requests : Running(p) /\ pc[p] # "lookup"}]
           n == Len(rows) + 1
<1>1. /\ pc[q] = "lower" /\ created[q]
      /\ rows' = Append(rows, new)
      /\ pc' = [pc EXCEPT ![q] = "mint"]
      /\ UNCHANGED <<row, created, pushed, lost, mirrors, posting, log>>
  BY DEF CreateLower, NewRow, Goto, CallerInv, RowsInv
<1>2. /\ row[q] \in DOMAIN rows /\ rows[row[q]].maker = q /\ rows[row[q]].parent = 0
      /\ row[q] \in Nat \ {0} /\ row[q] \in 0 .. Len(rows)
  BY <1>1 DEF CallerInv, RowsInv, CallerTypes
<1>3. new \in RowRecords /\ new.parent = row[q] /\ new.maker = q /\ new.ref = "uuid4"
  BY <1>2 DEF RowRecords, References
<1> HIDE DEF new
<1>4. /\ rows' \in Seq(RowRecords)
      /\ Len(rows') = n /\ DOMAIN rows' = 1 .. n
      /\ DOMAIN rows = 1 .. Len(rows) /\ Len(rows) \in Nat
      /\ \A i \in DOMAIN rows : rows'[i] = rows[i]
      /\ rows'[n] = new
      /\ \A i \in DOMAIN rows' : rows'[i].maker \in Requests /\ rows'[i].parent \in 0 .. i - 1
      /\ TaskEvents \subseteq TaskEvents'
  BY <1>1, <1>2, <1>3, RowAppended DEF CallerInv
<1> HIDE DEF n
<1>5. /\ n \in DOMAIN rows' /\ n \notin DOMAIN rows /\ DOMAIN rows' = DOMAIN rows \cup {n}
      /\ DOMAIN rows \subseteq DOMAIN rows'
  BY <1>4 DEF n
<1>6. /\ \A p \in Requests \ {q} : pc'[p] = pc[p]
      /\ pc'[q] = "mint"
  BY <1>1 DEF CallerInv, CallerTypes, TypeOK
<1>7. CallerTypes'
  <2>1. pc' \in [Requests -> Steps]
    BY <1>1 DEF CallerInv, CallerTypes, TypeOK, Steps
  <2>2. row' \in [Requests -> 0 .. Len(rows')]
    BY <1>1, <1>4 DEF n, CallerInv, CallerTypes, TypeOK
  <2>3. pushed' \subseteq DOMAIN rows' /\ lost' \subseteq pushed'
    BY <1>1, <1>5 DEF CallerInv, CallerTypes, TypeOK
  <2>4. \A k \in Sockets : Range(mirrors'[k]) \subseteq TaskEvents'
    BY <1>1, <1>4 DEF CallerInv, CallerTypes, TypeOK
  <2>5. \A k \in Sockets : mirrors'[k] \in Seq(TaskEvents')
    BY <1>1, <1>4, SeqMonotonic DEF CallerInv, CallerTypes
  <2>6. mirrors' \in [Sockets -> Seq(TaskEvents')]
    BY <1>1, <2>5 DEF CallerInv, CallerTypes
  <2>7. posting' \subseteq TaskEvents'
    BY <1>1, <1>4 DEF CallerInv, CallerTypes, TypeOK
  <2>8. QED
    BY <1>1, <1>4, <2>1, <2>2, <2>3, <2>4, <2>6, <2>7 DEF CallerInv, CallerTypes, TypeOK
<1>8. "uuid4" \notin References
  BY RequestsAssumption
<1>9. DuplicatesOverlap'
  <2> SUFFICES ASSUME NEW i \in DOMAIN rows', NEW j \in DOMAIN rows',
                      i < j, rows'[i].ref = rows'[j].ref, rows'[i].ref \in References
               PROVE  rows'[j].maker \in rows'[i].witnesses
    BY DEF DuplicatesOverlap
  <2>1. i \in DOMAIN rows /\ j \in DOMAIN rows
    BY <1>3, <1>4, <1>5, <1>8
  <2>2. QED
    BY <2>1, <1>4 DEF CallerInv, DuplicatesOverlap
<1>10. LookupsOverlap'
  <2> SUFFICES ASSUME NEW p \in Requests, NEW i \in DOMAIN rows',
                      pc'[p] = "resolve", rows'[i].ref = Reference[p]
               PROVE  p \in rows'[i].witnesses
    BY DEF LookupsOverlap
  <2>1. pc[p] = "resolve"
    BY <1>6
  <2>2. i \in DOMAIN rows
    BY <1>3, <1>4, <1>5, <1>8 DEF References
  <2>3. QED
    BY <2>1, <2>2, <1>4 DEF CallerInv, LookupsOverlap
<1>11. \A c \in DOMAIN rows : rows[c].parent # row[q]
  BY <1>1, <1>2 DEF CallerInv, RowsInv
<1>12. RowsInv'
  <2>1. \A i \in DOMAIN rows : /\ rows[i].parent \in 0 .. i - 1 /\ rows[i].maker \in Requests
                               /\ rows[i].parent # 0 => rows[i].parent \in DOMAIN rows
    BY <1>4 DEF CallerInv, CallerTypes, TypeOK
  <2>2. ASSUME NEW i \in DOMAIN rows', rows'[i].parent = 0
        PROVE  /\ created'[rows'[i].maker] /\ row'[rows'[i].maker] = i
               /\ rows'[i].ref = Reference[rows'[i].maker]
    <3>1. i \in DOMAIN rows /\ rows'[i] = rows[i]
      BY <2>2, <1>2, <1>3, <1>4, <1>5
    <3>2. QED
      BY <3>1, <2>2, <1>1 DEF CallerInv, RowsInv
  <2>3. ASSUME NEW i \in DOMAIN rows', rows'[i].parent # 0
        PROVE  /\ rows'[i].ref = "uuid4" /\ rows'[rows'[i].parent].parent = 0
               /\ rows'[rows'[i].parent].maker = rows'[i].maker
               /\ pc'[rows'[i].maker] # "lower"
    <3>1. CASE i \in DOMAIN rows
      <4>1. rows'[i] = rows[i] /\ rows[i].parent \in DOMAIN rows
        BY <3>1, <2>1, <2>3, <1>4
      <4>2. rows'[rows[i].parent] = rows[rows[i].parent]
        BY <4>1, <1>4
      <4>3. /\ rows[i].ref = "uuid4" /\ rows[rows[i].parent].parent = 0
            /\ rows[rows[i].parent].maker = rows[i].maker
            /\ pc[rows[i].maker] # "lower"
        BY <3>1, <4>1, <2>3 DEF CallerInv, RowsInv
      <4>4. pc'[rows[i].maker] # "lower"
        BY <3>1, <4>3, <2>1, <1>6
      <4>5. QED
        BY <4>1, <4>2, <4>3, <4>4
    <3>2. CASE i = n
      <4>1. rows'[i] = new /\ rows'[row[q]] = rows[row[q]]
        BY <3>2, <1>2, <1>4
      <4>2. QED
        BY <4>1, <1>2, <1>3, <1>6
    <3>3. QED
      BY <3>1, <3>2, <1>5
  <2>4. \A i, j \in DOMAIN rows' : rows'[i].parent = rows'[j].parent /\ rows'[i].parent # 0 => i = j
    <3> SUFFICES ASSUME NEW i \in DOMAIN rows', NEW j \in DOMAIN rows',
                        rows'[i].parent = rows'[j].parent, rows'[i].parent # 0
                 PROVE  i = j
      OBVIOUS
    <3>1. CASE i \in DOMAIN rows /\ j \in DOMAIN rows
      BY <3>1, <1>4 DEF CallerInv, RowsInv
    <3>2. CASE i = n \/ j = n
      <4>1. rows'[i].parent = row[q] /\ rows'[j].parent = row[q]
        BY <3>2, <1>3, <1>4
      <4>2. i \notin DOMAIN rows /\ j \notin DOMAIN rows
        BY <4>1, <1>4, <1>11
      <4>3. QED
        BY <4>2, <1>5
    <3>3. QED
      BY <3>1, <3>2, <1>5
  <2>5. ASSUME NEW p \in Requests, created'[p]
        PROVE  /\ row'[p] \in DOMAIN rows' /\ rows'[row'[p]].maker = p /\ rows'[row'[p]].parent = 0
               /\ pc'[p] \notin {"unsent", "lookup", "resolve"}
    BY <2>5, <1>1, <1>4, <1>5, <1>6 DEF CallerInv, RowsInv
  <2>6. ASSUME NEW p \in Requests
        PROVE  /\ pc'[p] \in {"lower", "mint", "push"} => created'[p]
               /\ pc'[p] = "answer" /\ ~created'[p] =>
                     row'[p] \in DOMAIN rows' /\ rows'[row'[p]].parent = 0
    BY <1>1, <1>4, <1>5, <1>6 DEF CallerInv, RowsInv
  <2>7. QED
    BY <2>2, <2>3, <2>4, <2>5, <2>6 DEF RowsInv
<1>13. \A p \in Requests : \A kind : (TellsOf(p, kind)' <=> TellsOf(p, kind))
  BY <1>1 DEF TellsOf, Responses
<1>14. \A p \in Requests : p # q /\ created[p] /\ Dispatched(p) => Dispatched(p)'
  <2>1. \A p \in Requests : p # q /\ created[p] => new.parent # row[p]
    BY <1>2, <1>3 DEF CallerInv, RowsInv
  <2>2. new.parent \in 0 .. Len(rows)
    BY <1>2, <1>3
  <2>3. QED
    BY <2>1, <2>2, <1>1, <1>3, DispatchedStays DEF CallerInv
<1>15. DispatchInv'
  <2>1. \A i \in lost : i \in DOMAIN rows
    BY DEF CallerInv, CallerTypes, TypeOK
  <2>2. \A i \in lost' : Reference[rows'[i].maker] \in Hooked
    BY <2>1, <1>1, <1>4 DEF CallerInv, DispatchInv
  <2>3. \A p \in Requests : TellsOf(p, "found")' =>
            /\ pc'[p] = "over" /\ ~created'[p]
            /\ row'[p] \in DOMAIN rows' /\ rows'[row'[p]].parent = 0
    BY <1>1, <1>4, <1>5, <1>6, <1>13 DEF CallerInv, DispatchInv
  <2>4. ASSUME NEW p \in Requests
        PROVE  /\ created'[p] /\ pc'[p] = "answer" => Dispatched(p)'
               /\ created'[p] /\ pc'[p] = "over" => Dispatched(p)' \/ TellsOf(p, "refused")'
               /\ TellsOf(p, "created")' => created'[p] /\ pc'[p] = "over" /\ Dispatched(p)'
    <3>1. /\ created[p] /\ pc[p] = "answer" => Dispatched(p)
          /\ created[p] /\ pc[p] = "over" => Dispatched(p) \/ TellsOf(p, "refused")
          /\ TellsOf(p, "created") => created[p] /\ pc[p] = "over" /\ Dispatched(p)
      BY DEF CallerInv, DispatchInv
    <3>2. /\ \A kind : TellsOf(p, kind)' <=> TellsOf(p, kind)
          /\ created'[p] <=> created[p]
      BY <1>1, <1>13
    <3>3. CASE p = q
      BY <3>1, <3>2, <3>3, <1>1, <1>6
    <3>4. CASE p # q
      <4>1. /\ pc'[p] = pc[p]
            /\ created[p] /\ Dispatched(p) => Dispatched(p)'
        BY <3>4, <1>6, <1>14
      <4>2. QED
        BY <3>1, <3>2, <4>1, Zenon
    <3>5. QED
      BY <3>3, <3>4
  <2>5. QED
    BY <2>2, <2>3, <2>4 DEF DispatchInv
<1>16. AnswersInv'
  <2>1. EventsFollowResponse'
    BY <1>1 DEF CallerInv, AnswersInv, EventsFollowResponse, Responses
  <2>2. QED
    BY <1>6, <1>13, <2>1 DEF CallerInv, AnswersInv
<1>17. QED
  BY <1>7, <1>9, <1>10, <1>12, <1>15, <1>16 DEF CallerInv

\* Executing finds the row that runs for a row, and there is no other.
LEMMA ExecutingExecutes ==
    ASSUME CallerTypes, RowsInv, NEW i \in DOMAIN rows
    PROVE  /\ Executing(i) \in DOMAIN rows /\ Executes(Executing(i), i)
           /\ \A j \in DOMAIN rows : Executes(j, i) => j = Executing(i)
<1>1. i # 0
  BY DEF CallerTypes
<1>2. CASE \E j \in DOMAIN rows : rows[j].parent = i
  <2>1. Executing(i) = CHOOSE j \in DOMAIN rows : rows[j].parent = i
    BY <1>2 DEF Executing
  <2>2. Executing(i) \in DOMAIN rows /\ rows[Executing(i)].parent = i
    BY <1>2, <2>1
  <2>3. \A j \in DOMAIN rows : Executes(j, i) => rows[j].parent = i
    BY <1>2 DEF Executes
  <2>4. QED
    BY <1>1, <2>2, <2>3 DEF Executes, RowsInv
<1>3. CASE ~\E j \in DOMAIN rows : rows[j].parent = i
  <2>1. Executing(i) = i
    BY <1>3 DEF Executing
  <2>2. QED
    BY <1>3, <2>1 DEF Executes
<1>4. QED
  BY <1>2, <1>3

\* What is pushed is what runs for the task.
LEMMA PushStep ==
    ASSUME CallerInv, NEW q \in Requests, Push(q)
    PROVE  CallerInv'
<1> DEFINE out == Executing(row[q])
<1>1. /\ pc[q] = "push"
      /\ pushed' = pushed \cup {out}
      /\ lost' = lost \/ (lost' = lost \cup {out} /\ Reference[rows[out].maker] \in Hooked)
      /\ pc' = [pc EXCEPT ![q] = "answer"]
      /\ UNCHANGED <<rows, row, created, mirrors, posting, log>>
  BY DEF Push, DeliverToAgent, Goto
<1>2. created[q] /\ row[q] \in DOMAIN rows
  BY <1>1 DEF CallerInv, RowsInv
<1>3. out \in DOMAIN rows /\ Executes(out, row[q])
  BY <1>2, ExecutingExecutes DEF CallerInv
<1> HIDE DEF out
<1>4. \A p \in Requests : pc'[p] = IF p = q THEN "answer" ELSE pc[p]
  BY <1>1 DEF CallerInv, CallerTypes, TypeOK
<1>5. CallerTypes'
  <2>1. pc' \in [Requests -> Steps]
    BY <1>1 DEF CallerInv, CallerTypes, TypeOK, Steps
  <2>2. lost' \subseteq pushed' /\ pushed' \subseteq DOMAIN rows'
    BY <1>1, <1>3 DEF CallerInv, CallerTypes, TypeOK
  <2>3. QED
    BY <2>1, <2>2, <1>1 DEF CallerInv, CallerTypes, TypeOK, TaskEvents
<1>6. DuplicatesOverlap' /\ LookupsOverlap'
  BY <1>1, <1>4 DEF CallerInv, DuplicatesOverlap, LookupsOverlap
<1>7. RowsInv'
  BY <1>1, <1>2, <1>4 DEF CallerInv, RowsInv, CallerTypes, TypeOK
<1>8. \A p \in Requests : \A kind : (TellsOf(p, kind)' <=> TellsOf(p, kind))
  BY <1>1 DEF TellsOf, Responses
<1>9. \A p \in Requests : Dispatched(p) \/ p = q => Dispatched(p)'
  BY <1>1, <1>3 DEF Dispatched, Executes
<1>10. DispatchInv'
  BY <1>1, <1>4, <1>8, <1>9 DEF CallerInv, DispatchInv
<1>11. AnswersInv'
  <2>1. EventsFollowResponse'
    BY <1>1 DEF CallerInv, AnswersInv, EventsFollowResponse, Responses
  <2>2. QED
    BY <1>4, <1>8, <2>1 DEF CallerInv, AnswersInv
<1>12. QED
  BY <1>5, <1>6, <1>7, <1>10, <1>11 DEF CallerInv

\* One more message on a line changes nothing that was received there.
LEMMA LogGrows ==
    ASSUME CallerTypes, NEW k \in Lines, NEW m \in Messages,
           log' = [log EXCEPT ![k] = Append(log[k], m)]
    PROVE  /\ log' \in [Lines -> Seq(Messages)]
           /\ \A l \in Lines : /\ DOMAIN log[l] \subseteq DOMAIN log'[l]
                               /\ \A n \in DOMAIN log[l] : log'[l][n] = log[l][n]
           /\ \A l \in Lines : l # k => log'[l] = log[l]
           /\ DOMAIN log'[k] = DOMAIN log[k] \cup {Len(log[k]) + 1}
           /\ log'[k][Len(log[k]) + 1] = m
           /\ \A n \in DOMAIN log[k] : n < Len(log[k]) + 1
<1>1. log[k] \in Seq(Messages)
  BY DEF CallerTypes
<1>2. /\ Append(log[k], m) \in Seq(Messages)
      /\ DOMAIN Append(log[k], m) = 1 .. Len(log[k]) + 1
      /\ DOMAIN log[k] = 1 .. Len(log[k]) /\ Len(log[k]) \in Nat
      /\ Append(log[k], m)[Len(log[k]) + 1] = m
      /\ \A n \in 1 .. Len(log[k]) : Append(log[k], m)[n] = log[k][n]
  BY <1>1
<1> DEFINE s == Append(log[k], m)
<1>3. /\ log' = [log EXCEPT ![k] = s] /\ s \in Seq(Messages)
      /\ DOMAIN s = DOMAIN log[k] \cup {Len(log[k]) + 1}
      /\ DOMAIN log[k] \subseteq DOMAIN s
      /\ s[Len(log[k]) + 1] = m
      /\ \A n \in DOMAIN log[k] : s[n] = log[k][n] /\ n < Len(log[k]) + 1
  BY <1>2
<1> HIDE DEF s
<1>4. QED
  BY <1>3 DEF CallerTypes

\* What is told afterwards was told before, or is the new message.
LEMMA TellsGrow ==
    ASSUME CallerTypes, NEW k \in Lines, NEW m \in Messages,
           log' = [log EXCEPT ![k] = Append(log[k], m)],
           NEW p \in Requests, NEW kind \in ResponseKinds
    PROVE  TellsOf(p, kind)' <=> (TellsOf(p, kind) \/ (Line[p] = k /\ m.kind = kind /\ m.request = p))
<1>1. Line[p] \in Lines
  BY RequestsAssumption
<1>2. TellsOf(p, kind) <=> \E n \in DOMAIN log[Line[p]] : log[Line[p]][n].kind = kind /\ log[Line[p]][n].request = p
  BY DEF TellsOf, Responses, ResponseKinds
<1>3. TellsOf(p, kind)' <=> \E n \in DOMAIN log'[Line[p]] : log'[Line[p]][n].kind = kind /\ log'[Line[p]][n].request = p
  BY DEF TellsOf, Responses, ResponseKinds
<1>4. CASE Line[p] = k
  <2>1. /\ DOMAIN log'[k] = DOMAIN log[k] \cup {Len(log[k]) + 1}
        /\ log'[k][Len(log[k]) + 1] = m
        /\ \A n \in DOMAIN log[k] : log'[k][n] = log[k][n]
    BY LogGrows
  <2>2. ASSUME TellsOf(p, kind)'
        PROVE  TellsOf(p, kind) \/ (m.kind = kind /\ m.request = p)
    <3>1. PICK n \in DOMAIN log'[k] : log'[k][n].kind = kind /\ log'[k][n].request = p
      BY <2>2, <1>3, <1>4
    <3>2. QED
      BY <2>1, <3>1, <1>2, <1>4
  <2>3. ASSUME TellsOf(p, kind)
        PROVE  TellsOf(p, kind)'
    <3>1. PICK n \in DOMAIN log[k] : log[k][n].kind = kind /\ log[k][n].request = p
      BY <2>3, <1>2, <1>4
    <3>2. QED
      BY <2>1, <3>1, <1>3, <1>4
  <2>4. ASSUME m.kind = kind, m.request = p
        PROVE  TellsOf(p, kind)'
    BY <2>1, <2>4, <1>3, <1>4
  <2>5. QED
    BY <2>2, <2>3, <2>4, <1>4
<1>5. CASE Line[p] # k
  BY <1>1, <1>2, <1>3, <1>5, LogGrows
<1>6. QED
  BY <1>4, <1>5

\* The order of events and responses holds on if the new message is a response, or is not
\* of a request of this socket, or that request has its response.
LEMMA OrderGrows ==
    ASSUME CallerTypes, EventsFollowResponse, NEW k \in Lines, NEW m \in Messages,
           log' = [log EXCEPT ![k] = Append(log[k], m)],
           \/ m.kind \in ResponseKinds
           \/ k \notin Sockets \/ Line[m.request] # k
           \/ \E n \in Responses(k) : log[k][n].request = m.request
    PROVE  EventsFollowResponse'
<1> SUFFICES ASSUME NEW l \in Sockets, NEW n \in DOMAIN log'[l], n \notin Responses(l)',
                    Line[log'[l][n].request] = l
             PROVE  \E r \in Responses(l)' : r < n /\ log'[l][r].request = log'[l][n].request
  BY DEF EventsFollowResponse
<1>1. l \in Lines
  BY DEF Lines
<1>2. \A r \in Responses(l) : r \in Responses(l)' /\ log'[l][r] = log[l][r] /\ r \in DOMAIN log[l]
  BY <1>1, LogGrows DEF Responses
<1>3. CASE n \in DOMAIN log[l]
  <2>1. n \notin Responses(l) /\ log'[l][n] = log[l][n]
    BY <1>1, <1>3, LogGrows DEF Responses
  <2>2. \E r \in Responses(l) : r < n /\ log[l][r].request = log[l][n].request
    BY <1>3, <2>1 DEF EventsFollowResponse
  <2>3. QED
    BY <2>1, <2>2, <1>2
<1>4. CASE n \notin DOMAIN log[l]
  <2>1. l = k /\ n = Len(log[k]) + 1 /\ log'[l][n] = m
    BY <1>1, <1>4, LogGrows
  <2>2. m.kind \notin ResponseKinds
    BY <2>1 DEF Responses, ResponseKinds
  <2>3. PICK r \in Responses(k) : log[k][r].request = m.request
    BY <2>1, <2>2
  <2>4. r < n
    BY <2>1, <1>2, LogGrows
  <2>5. QED
    BY <2>1, <2>3, <2>4, <1>2
<1>5. QED
  BY <1>3, <1>4

\* The answer says what became of the request: the task it created and dispatched, the one
\* it found, or a refusal.
LEMMA AnswerStep ==
    ASSUME CallerInv, NEW q \in Requests, Answer(q)
    PROVE  CallerInv'
<1>1. Line[q] \in Lines
  BY RequestsAssumption
<1>2. PICK k \in Lines : k = Line[q]
  BY <1>1
<1> DEFINE m == IF pc[q] = "refuse" THEN [kind |-> "refused", request |-> q, task |-> 0]
                ELSE [kind |-> IF created[q] THEN "created" ELSE "found",
                      request |-> q, task |-> row[q]]
<1>3. /\ pc[q] \in {"answer", "refuse"}
      /\ log' = [log EXCEPT ![k] = Append(log[k], m)]
      /\ pc' = [pc EXCEPT ![q] = "over"]
      /\ UNCHANGED <<rows, pushed, lost, row, created, mirrors, posting>>
  BY <1>2 DEF Answer, Goto
<1>4. m \in Messages
  BY DEF Messages, ResponseKinds, CallerInv, CallerTypes, TypeOK
<1>5. /\ m.request = q /\ m.kind \in ResponseKinds
      /\ m.kind = "refused" <=> pc[q] = "refuse"
      /\ m.kind = "created" <=> pc[q] = "answer" /\ created[q]
      /\ m.kind = "found" <=> pc[q] = "answer" /\ ~created[q]
  BY <1>3 DEF ResponseKinds
<1> HIDE DEF m
<1>6. \A p \in Requests : pc'[p] = IF p = q THEN "over" ELSE pc[p]
  BY <1>3 DEF CallerInv, CallerTypes, TypeOK
<1>7. CallerTypes'
  <2>1. pc' \in [Requests -> Steps]
    BY <1>3 DEF CallerInv, CallerTypes, TypeOK, Steps
  <2>2. log' \in [Lines -> Seq(Messages)]
    BY <1>3, <1>4, LogGrows DEF CallerInv
  <2>3. QED
    BY <2>1, <2>2, <1>3 DEF CallerInv, CallerTypes, TypeOK, TaskEvents
<1>8. DuplicatesOverlap' /\ LookupsOverlap'
  BY <1>3, <1>6 DEF CallerInv, DuplicatesOverlap, LookupsOverlap
<1>9. RowsInv'
  BY <1>3, <1>6 DEF CallerInv, RowsInv, CallerTypes, TypeOK
<1>10. \A p \in Requests, kind \in ResponseKinds :
           TellsOf(p, kind)' <=> (TellsOf(p, kind) \/ (m.kind = kind /\ p = q))
  <2>1. CallerTypes
    BY DEF CallerInv
  <2>2. \A p \in Requests, kind \in ResponseKinds :
           TellsOf(p, kind)' <=> (TellsOf(p, kind) \/ (Line[p] = k /\ m.kind = kind /\ m.request = p))
    BY <2>1, <1>3, <1>4, TellsGrow
  <2>3. \A p : m.request = p <=> p = q
    BY <1>5
  <2>4. QED
    BY <2>2, <2>3, <1>2, Zenon
<1>11. \A p \in Requests : Dispatched(p)' <=> Dispatched(p)
  BY <1>3 DEF Dispatched, Executes
<1>12. \A p \in Requests : /\ TellsOf(p, "created")' <=> TellsOf(p, "created") \/ (m.kind = "created" /\ p = q)
                           /\ TellsOf(p, "found")' <=> TellsOf(p, "found") \/ (m.kind = "found" /\ p = q)
                           /\ TellsOf(p, "refused")' <=> TellsOf(p, "refused") \/ (m.kind = "refused" /\ p = q)
  BY <1>10 DEF ResponseKinds
<1>13. DispatchInv'
  BY <1>3, <1>5, <1>6, <1>11, <1>12 DEF CallerInv, DispatchInv, RowsInv
<1>14. AnswersInv'
  <2>1. EventsFollowResponse'
    BY <1>3, <1>4, <1>5, OrderGrows DEF CallerInv, AnswersInv
  <2>2. \A p \in Requests : pc'[p] = "over" => \E kind \in ResponseKinds : TellsOf(p, kind)'
    BY <1>5, <1>6, <1>10 DEF CallerInv, AnswersInv
  <2>3. QED
    BY <2>1, <2>2 DEF AnswersInv
<1>15. QED
  BY <1>7, <1>8, <1>9, <1>13, <1>14 DEF CallerInv

\* A parent is a row.
LEMMA ParentIsRow ==
    ASSUME CallerTypes, NEW i \in DOMAIN rows, rows[i].parent # 0
    PROVE  rows[i].parent \in DOMAIN rows
<1>1. DOMAIN rows = 1 .. Len(rows) /\ Len(rows) \in Nat
  BY DEF CallerTypes
<1>2. rows[i].parent \in 0 .. i - 1
  BY DEF CallerTypes, TypeOK
<1>3. QED
  BY <1>1, <1>2

\* A report of an executing agent touches nothing of a row but the count of its events.
LEMMA EventStep ==
    ASSUME CallerInv, NEW i \in DOMAIN rows, Event(i)
    PROVE  CallerInv'
<1> DEFINE new == [rows[i] EXCEPT !.events = rows[i].events + 1]
           kind == Story[rows[i].events + 1]
           e == [task |-> i, kind |-> kind]
<1>1. /\ rows' = [rows EXCEPT ![i] = new]
      /\ mirrors' = [c \in Sockets |-> Append(mirrors[c], e)]
      /\ posting' = posting \cup (IF Hooks = {} THEN {} ELSE {e})
      /\ UNCHANGED <<pushed, lost, pc, row, created, log>>
  BY DEF Event
<1>2. rows \in Seq(RowRecords) /\ i \in 1 .. Len(rows) /\ rows[i] \in RowRecords
  BY DEF CallerInv, CallerTypes
<1>3. /\ new \in RowRecords
      /\ new.ref = rows[i].ref /\ new.parent = rows[i].parent /\ new.maker = rows[i].maker
      /\ new.witnesses = rows[i].witnesses
  <2>1. rows[i].events + 1 \in Nat
    BY <1>2 DEF RowRecords
  <2>2. /\ rows[i].ref \in References \cup {"uuid4"} /\ rows[i].parent \in Nat
        /\ rows[i].maker \in Requests /\ rows[i].witnesses \in SUBSET Requests
        /\ rows[i] = [ref |-> rows[i].ref, parent |-> rows[i].parent, maker |-> rows[i].maker,
                       events |-> rows[i].events, witnesses |-> rows[i].witnesses]
    BY <1>2 DEF RowRecords
  <2>3. new = [ref |-> rows[i].ref, parent |-> rows[i].parent, maker |-> rows[i].maker,
               events |-> rows[i].events + 1, witnesses |-> rows[i].witnesses]
    BY <2>2
  <2>4. QED
    BY <2>1, <2>2, <2>3 DEF RowRecords
<1>4. kind \in Range(Story)
  <2>1. rows[i].events \in Nat /\ rows[i].events < Len(Story)
    BY <1>2 DEF Event, RowRecords
  <2>2. Story \in Seq(ExecutionEvents \cup {"UNASSIGN"})
    BY RequestsAssumption
  <2>3. rows[i].events + 1 \in DOMAIN Story
    BY <2>1, <2>2
  <2>4. QED
    BY <2>3 DEF Range
<1>5. e \in TaskEvents
  BY <1>4 DEF TaskEvents
<1> HIDE DEF new, e, kind
<1>6. rows' \in Seq(RowRecords) /\ Len(rows') = Len(rows) /\ DOMAIN rows' = DOMAIN rows
  BY <1>1, <1>2, <1>3, ExceptSeq
<1>7. \A j \in DOMAIN rows : /\ rows'[j].ref = rows[j].ref /\ rows'[j].parent = rows[j].parent
                             /\ rows'[j].maker = rows[j].maker /\ rows'[j].witnesses = rows[j].witnesses
  BY <1>1, <1>3
<1>8. TaskEvents' = TaskEvents
  BY <1>6 DEF TaskEvents
<1>9. CallerTypes'
  <2>1. \A c \in Sockets : Append(mirrors[c], e) \in Seq(TaskEvents)
    BY <1>5 DEF CallerInv, CallerTypes
  <2>2. mirrors' \in [Sockets -> Seq(TaskEvents')]
    BY <1>1, <1>8, <2>1
  <2>3. \A c \in Sockets : Range(mirrors'[c]) \subseteq TaskEvents'
    BY <2>2 DEF Range
  <2>4. posting' \subseteq TaskEvents' /\ (posting' # {} => Hooks # {})
    BY <1>1, <1>5, <1>8 DEF CallerInv, CallerTypes, TypeOK
  <2>5. QED
    BY <1>1, <1>6, <1>7, <2>2, <2>3, <2>4 DEF CallerInv, CallerTypes, TypeOK
<1>10. DuplicatesOverlap' /\ LookupsOverlap'
  BY <1>1, <1>6, <1>7 DEF CallerInv, DuplicatesOverlap, LookupsOverlap
<1>11. RowsInv'
  <2>1. \A j \in DOMAIN rows : rows[j].parent # 0 => rows[j].parent \in DOMAIN rows
    BY ParentIsRow DEF CallerInv
  <2>2. QED
    BY <2>1, <1>1, <1>6, <1>7 DEF CallerInv, RowsInv
<1>12. \A p \in Requests : \A what : (TellsOf(p, what)' <=> TellsOf(p, what))
  BY <1>1 DEF TellsOf, Responses
<1>13. \A p \in Requests : Dispatched(p)' <=> Dispatched(p)
  <2>1. pushed \subseteq DOMAIN rows /\ pushed' = pushed /\ row' = row
    BY <1>1 DEF CallerInv, CallerTypes, TypeOK
  <2>2. \A j \in pushed : \A r : (Executes(j, r)' <=> Executes(j, r))
    BY <2>1, <1>6, <1>7 DEF Executes
  <2>3. QED
    BY <2>1, <2>2 DEF Dispatched, Executes
<1>14. DispatchInv'
  <2>1. \A j \in lost' : j \in DOMAIN rows /\ Reference[rows'[j].maker] \in Hooked
    BY <1>1, <1>7 DEF CallerInv, DispatchInv, CallerTypes, TypeOK
  <2>2. QED
    BY <2>1, <1>1, <1>6, <1>7, <1>12, <1>13 DEF CallerInv, DispatchInv
<1>15. AnswersInv'
  <2>1. EventsFollowResponse'
    BY <1>1 DEF CallerInv, AnswersInv, EventsFollowResponse, Responses
  <2>2. QED
    BY <1>1, <1>12, <2>1 DEF CallerInv, AnswersInv
<1>16. QED
  BY <1>9, <1>10, <1>11, <1>14, <1>15 DEF CallerInv

\* The mirror of an event adds no message or one about the request that wrote the task.
LEMMA MirrorAppends ==
    ASSUME CallerTypes, NEW k \in Lines, NEW e \in TaskEvents,
           log' = [log EXCEPT ![k] = log[k] \o BuildExecutionEvent(e.task, e.kind)]
    PROVE  \/ log' = log
           \/ \E m \in Messages : /\ log' = [log EXCEPT ![k] = Append(log[k], m)]
                                  /\ m.kind \in ExecutionEvents
                                  /\ m.request = rows[e.task].maker
<1>1. log[k] \in Seq(Messages) /\ log \in [Lines -> Seq(Messages)]
  BY DEF CallerTypes
<1>2. CASE e.kind \notin ExecutionEvents
  <2>1. log[k] \o BuildExecutionEvent(e.task, e.kind) = log[k]
    BY <1>1, <1>2, ConcatEmptySeq DEF BuildExecutionEvent
  <2>2. QED
    BY <1>1, <2>1
<1>3. CASE e.kind \in ExecutionEvents
  <2> DEFINE m == [kind |-> e.kind, request |-> rows[e.task].maker, task |-> e.task]
  <2>1. m \in Messages
    BY <1>3 DEF Messages, TaskEvents, CallerTypes, TypeOK
  <2>2. m.kind \in ExecutionEvents /\ m.request = rows[e.task].maker
    BY <1>3
  <2>3. BuildExecutionEvent(e.task, e.kind) = <<m>>
    BY <1>3 DEF BuildExecutionEvent
  <2> HIDE DEF m
  <2>4. log[k] \o <<m>> = Append(log[k], m)
    BY <1>1, <2>1, AppendIsConcat
  <2>5. QED
    BY <2>1, <2>2, <2>3, <2>4
<1>4. QED
  BY <1>2, <1>3

\* Delivering a mirror changes only the log, and there by no response, and on a socket
\* only when the socket is through with the request.
LEMMA MirrorStep ==
    ASSUME CallerInv, NEW k \in Lines, NEW e \in TaskEvents,
           \/ log' = log
           \/ log' = [log EXCEPT ![k] = log[k] \o BuildExecutionEvent(e.task, e.kind)],
           k \in Sockets => Up(k) /\ ~Busy(k),
           posting' \subseteq posting,
           mirrors' \in [Sockets -> Seq(TaskEvents)],
           UNCHANGED <<rows, pushed, lost, pc, row, created>>
    PROVE  CallerInv'
<1>1. \/ log' = log
      \/ \E m \in Messages : /\ log' = [log EXCEPT ![k] = Append(log[k], m)]
                             /\ m.kind \in ExecutionEvents
                             /\ m.request = rows[e.task].maker
  BY MirrorAppends DEF CallerInv
<1>2. log' \in [Lines -> Seq(Messages)]
  BY <1>1, LogGrows DEF CallerInv, CallerTypes
<1>3. CallerTypes'
  <2>1. \A c \in Sockets : Range(mirrors'[c]) \subseteq TaskEvents
    BY DEF Range
  <2>2. TaskEvents' = TaskEvents
    BY DEF TaskEvents
  <2>3. QED
    BY <1>2, <2>1, <2>2 DEF CallerInv, CallerTypes, TypeOK
<1>4. DuplicatesOverlap' /\ LookupsOverlap' /\ RowsInv'
  BY DEF CallerInv, DuplicatesOverlap, LookupsOverlap, RowsInv
<1>5. \A p \in Requests, kind \in ResponseKinds : TellsOf(p, kind)' <=> TellsOf(p, kind)
  <2>1. CASE log' = log
    BY <2>1 DEF TellsOf, Responses
  <2>2. CASE log' # log
    <3>1. PICK m \in Messages : log' = [log EXCEPT ![k] = Append(log[k], m)] /\ m.kind \in ExecutionEvents
      BY <2>2, <1>1
    <3>2. m.kind \notin ResponseKinds
      BY <3>1 DEF ExecutionEvents, ResponseKinds
    <3>3. CallerTypes
      BY DEF CallerInv
    <3>4. \A p \in Requests, kind \in ResponseKinds :
              TellsOf(p, kind)' <=> (TellsOf(p, kind) \/ (Line[p] = k /\ m.kind = kind /\ m.request = p))
      BY <3>1, <3>3, TellsGrow
    <3>5. \A kind \in ResponseKinds : m.kind # kind
      BY <3>2
    <3>6. QED
      BY <3>4, <3>5, Zenon
  <2>3. QED
    BY <2>1, <2>2
<1>6. \A p \in Requests : /\ TellsOf(p, "created")' <=> TellsOf(p, "created")
                          /\ TellsOf(p, "found")' <=> TellsOf(p, "found")
                          /\ TellsOf(p, "refused")' <=> TellsOf(p, "refused")
  BY <1>5 DEF ResponseKinds
<1>7. \A p \in Requests : Dispatched(p)' <=> Dispatched(p)
  BY DEF Dispatched, Executes
<1>8. DispatchInv'
  BY <1>6, <1>7 DEF CallerInv, DispatchInv
<1>9. EventsFollowResponse'
  <2>1. CASE log' = log
    BY <2>1 DEF CallerInv, AnswersInv, EventsFollowResponse, Responses
  <2>2. CASE log' # log
    <3>1. PICK m \in Messages : /\ log' = [log EXCEPT ![k] = Append(log[k], m)]
                                /\ m.request = rows[e.task].maker
      BY <2>2, <1>1
    <3>2. CASE k \in Sockets /\ Line[m.request] = k
      <4>1. e.task \in DOMAIN rows /\ m.request \in Requests
        BY DEF TaskEvents, Messages
      <4>2. created[m.request]
        <5>1. rows[e.task].parent # 0 => rows[e.task].parent \in DOMAIN rows
          BY <4>1, ParentIsRow DEF CallerInv
        <5>2. QED
          BY <3>1, <4>1, <5>1 DEF CallerInv, RowsInv
      <4>3. pc[m.request] \notin {"unsent", "dead"} /\ ~Running(m.request)
        BY <3>2, <4>1, <4>2 DEF CallerInv, RowsInv, Up, Busy
      <4>4. pc[m.request] = "over"
        BY <4>1, <4>3 DEF Running
      <4>5. \E n \in Responses(k) : log[k][n].request = m.request
        BY <3>2, <4>1, <4>4 DEF CallerInv, AnswersInv, TellsOf
      <4>6. QED
        BY <3>1, <4>5, OrderGrows DEF CallerInv, AnswersInv
    <3>3. CASE ~(k \in Sockets /\ Line[m.request] = k)
      BY <3>1, <3>3, OrderGrows DEF CallerInv, AnswersInv
    <3>4. QED
      BY <3>2, <3>3
  <2>3. QED
    BY <2>1, <2>2
<1>10. AnswersInv'
  BY <1>5, <1>9 DEF CallerInv, AnswersInv
<1>11. QED
  BY <1>3, <1>4, <1>8, <1>10 DEF CallerInv
-----------------------------------------------------------------------------
\* Every step of a request and every delivery keeps the invariant.
LEMMA CallerNext == CallerInv /\ [Next]_vars => CallerInv'
<1> SUFFICES ASSUME CallerInv, [Next]_vars
             PROVE  CallerInv'
  OBVIOUS
<1>1. ASSUME NEW q \in Requests, Receive(q) \/ HookIntake(q) \/ Reject(q) \/ Mint(q) \/ Crash(q)
      PROVE  CallerInv'
  <2>1. PICK step \in {"lookup", "refuse", "push", "dead"} :
            /\ pc' = [pc EXCEPT ![q] = step] /\ pc[q] # "over"
            /\ step = "lookup" => pc[q] = "unsent"
            /\ step = "push" => pc[q] = "mint"
            /\ UNCHANGED <<rows, pushed, lost, row, created, mirrors, posting, log>>
    BY <1>1 DEF Receive, HookIntake, Reject, Mint, Crash, Goto, Running
  <2>2. QED
    BY <2>1, StepAlone
<1>2. ASSUME NEW e \in posting, DeliverToHook(e)
      PROVE  CallerInv'
  <2> DEFINE hook == CHOOSE h \in Hooks : TRUE
  <2>1. hook \in Hooks /\ e \in TaskEvents
    BY DEF CallerInv, CallerTypes, TypeOK
  <2>2. hook \in Lines /\ hook \notin Sockets
    BY <2>1, RequestsAssumption DEF Lines
  <2>3. /\ \/ log' = log
           \/ log' = [log EXCEPT ![hook] = log[hook] \o BuildExecutionEvent(e.task, e.kind)]
        /\ posting' \subseteq posting
        /\ UNCHANGED <<rows, pushed, lost, pc, row, created, mirrors>>
    BY <1>2 DEF DeliverToHook
  <2>4. mirrors' \in [Sockets -> Seq(TaskEvents)]
    BY <2>3 DEF CallerInv, CallerTypes
  <2> HIDE DEF hook
  <2>5. QED
    BY <2>1, <2>2, <2>3, <2>4, MirrorStep
<1>3. ASSUME NEW k \in Sockets, Forward(k)
      PROVE  CallerInv'
  <2> DEFINE e == Head(mirrors[k])
             rest == Tail(mirrors[k])
  <2>1. mirrors[k] \in Seq(TaskEvents) /\ mirrors[k] # <<>>
    BY <1>3 DEF Forward, CallerInv, CallerTypes
  <2>2. e \in TaskEvents /\ rest \in Seq(TaskEvents)
    BY <2>1
  <2>3. /\ log' = [log EXCEPT ![k] = log[k] \o BuildExecutionEvent(e.task, e.kind)]
        /\ mirrors' = [mirrors EXCEPT ![k] = rest]
        /\ Up(k) /\ ~Busy(k)
        /\ UNCHANGED <<rows, pushed, lost, pc, row, created, posting>>
    BY <1>3 DEF Forward
  <2> HIDE DEF e, rest
  <2>4. mirrors' \in [Sockets -> Seq(TaskEvents)] /\ k \in Lines
    BY <2>2, <2>3 DEF CallerInv, CallerTypes, Lines
  <2>5. QED
    BY <2>2, <2>3, <2>4, MirrorStep
<1>4. CASE UNCHANGED vars
  <2>1. CallerTypes'
    BY <1>4 DEF vars, CallerInv, CallerTypes, TypeOK, TaskEvents
  <2>2. \A p \in Requests : \A kind : (TellsOf(p, kind)' <=> TellsOf(p, kind))
    BY <1>4 DEF vars, TellsOf, Responses
  <2>3. \A p \in Requests : Dispatched(p)' <=> Dispatched(p)
    BY <1>4 DEF vars, Dispatched, Executes
  <2>4. DuplicatesOverlap' /\ LookupsOverlap' /\ RowsInv'
    BY <1>4 DEF vars, CallerInv, DuplicatesOverlap, LookupsOverlap, RowsInv
  <2>5. DispatchInv'
    BY <1>4, <2>2, <2>3 DEF vars, CallerInv, DispatchInv
  <2>6. EventsFollowResponse'
    BY <1>4 DEF vars, CallerInv, AnswersInv, EventsFollowResponse, Responses
  <2>7. AnswersInv'
    BY <1>4, <2>2, <2>6 DEF vars, CallerInv, AnswersInv
  <2>8. QED
    BY <2>1, <2>4, <2>5, <2>7 DEF CallerInv
<1>5. QED
  BY <1>1, <1>2, <1>3, <1>4, LookupStep, CreateStep, CreateLowerStep, PushStep, AnswerStep,
     EventStep DEF Next, Handle

\* What the invariant says of what a caller was told.
LEMMA InvAnswersAreDispatched == CallerInv => AnsweredIsDispatched
<1> SUFFICES ASSUME CallerInv, NEW q \in Requests
             PROVE  /\ TellsOf(q, "created") =>
                          Executing(row[q]) \in (IF Reference[q] \in Hooked THEN pushed ELSE pushed \ lost)
                    /\ TellsOf(q, "found") /\ Executing(row[q]) \notin pushed =>
                          LET p == rows[row[q]].maker IN
                          p # q /\ (Running(p) \/ pc[p] = "dead" \/ TellsOf(p, "refused"))
  BY DEF AnsweredIsDispatched
<1>1. \A p \in Requests : created[p] /\ Dispatched(p) =>
          Executing(row[p]) \in pushed /\ rows[Executing(row[p])].maker = p
  <2> SUFFICES ASSUME NEW p \in Requests, created[p], Dispatched(p)
               PROVE  Executing(row[p]) \in pushed /\ rows[Executing(row[p])].maker = p
    OBVIOUS
  <2>1. row[p] \in DOMAIN rows /\ rows[row[p]].maker = p
    BY DEF CallerInv, RowsInv
  <2>2. PICK j \in pushed : Executes(j, row[p])
    BY DEF Dispatched
  <2>3. j \in DOMAIN rows /\ row[p] # 0
    BY <2>1 DEF CallerInv, CallerTypes, TypeOK
  <2>4. j = Executing(row[p])
    BY <2>1, <2>2, <2>3, ExecutingExecutes DEF CallerInv
  <2>5. rows[j].maker = p
    BY <2>1, <2>2, <2>3 DEF Executes, CallerInv, RowsInv
  <2>6. QED
    BY <2>2, <2>4, <2>5
<1>2. ASSUME TellsOf(q, "created")
      PROVE  Executing(row[q]) \in (IF Reference[q] \in Hooked THEN pushed ELSE pushed \ lost)
  <2>1. created[q] /\ Dispatched(q)
    BY <1>2 DEF CallerInv, DispatchInv
  <2>2. Executing(row[q]) \in pushed /\ rows[Executing(row[q])].maker = q
    BY <2>1, <1>1
  <2>3. Executing(row[q]) \in lost => Reference[q] \in Hooked
    BY <2>2 DEF CallerInv, DispatchInv
  <2>4. QED
    BY <2>2, <2>3
<1>3. ASSUME TellsOf(q, "found"), Executing(row[q]) \notin pushed
      PROVE  LET p == rows[row[q]].maker IN
             p # q /\ (Running(p) \/ pc[p] = "dead" \/ TellsOf(p, "refused"))
  <2>1. ~created[q] /\ row[q] \in DOMAIN rows /\ rows[row[q]].parent = 0
    BY <1>3 DEF CallerInv, DispatchInv
  <2>2. PICK p \in Requests : p = rows[row[q]].maker
    BY <2>1 DEF CallerInv, CallerTypes, TypeOK
  <2>3. created[p] /\ row[p] = row[q] /\ p # q
    BY <2>1, <2>2 DEF CallerInv, RowsInv
  <2>4. ~Dispatched(p)
    BY <2>3, <1>1, <1>3
  <2>5. pc[p] = "over" => TellsOf(p, "refused")
    BY <2>3, <2>4 DEF CallerInv, DispatchInv
  <2>6. pc[p] # "unsent"
    BY <2>3 DEF CallerInv, RowsInv
  <2>7. QED
    BY <2>2, <2>3, <2>5, <2>6 DEF Running
<1>4. QED
  BY <1>2, <1>3

\* Every reachable state satisfies the inductive invariant.
THEOREM CallerInductive == Spec => []CallerInv
<1>1. QED
  BY CallerInit, CallerNext, PTL DEF Spec

\* The rows, the handlers and what is on its way are well typed.
THEOREM CallerTypeCorrect == Spec => []TypeOK
<1>1. CallerInv => TypeOK
  BY DEF CallerInv, CallerTypes
<1>2. QED
  BY <1>1, CallerInductive, PTL

\* Two tasks have one reference only if both handlers had looked for it before either wrote.
THEOREM ResendsFindTheirTask == Spec => []DuplicatesOverlap
<1>1. CallerInv => DuplicatesOverlap
  BY DEF CallerInv
<1>2. QED
  BY <1>1, CallerInductive, PTL

\* On its own socket the response to a request precedes every mirror of its task.
THEOREM MirrorsFollowTheResponse == Spec => []EventsFollowResponse
<1>1. CallerInv => EventsFollowResponse
  BY DEF CallerInv, AnswersInv
<1>2. QED
  BY <1>1, CallerInductive, PTL

\* A task the client was told it created was handed to its agent; one it was told it found
\* was too, or the request that wrote it is at work, died or was refused.
THEOREM AnswersAreDispatched == Spec => []AnsweredIsDispatched
<1>1. QED
  BY InvAnswersAreDispatched, CallerInductive, PTL
-----------------------------------------------------------------------------
(* AutoInterrupt and the timers it uses. *)

\* A timer that was never scheduled was not there to be cancelled.
NewIsUntouched == \A t \in Timers : state[t] = "new" => t \notin cancelled

TimerInv == TimerTypeOK /\ RegisteredIsLive /\ NewIsUntouched

(***************************************************************************)
(* TimerInv is inductive.  RegisteredIsLive needs NewIsUntouched: the      *)
(* timer that schedule registers must not have been cancelled before.      *)
(***************************************************************************)
LEMMA TimerStep ==
    ASSUME TimerInv, [TimerNext]_timerVars
    PROVE  TimerInv'
<1> USE TimersAssumption DEF TimerInv, TimerTypeOK, RegisteredIsLive, NewIsUntouched, States
<1>1. CASE Cancel
  BY <1>1 DEF Cancel, Popped, Pending
<1>2. ASSUME NEW t \in Timers, Schedule(t)
      PROVE  TimerInv'
  BY <1>2 DEF Schedule, Popped, Pending
<1>3. ASSUME NEW t \in Timers, Wake(t)
      PROVE  TimerInv'
  BY <1>3 DEF Wake, Pending
<1>4. ASSUME NEW t \in Timers, Finish(t)
      PROVE  TimerInv'
  BY <1>4 DEF Finish, Pending
<1>5. CASE UNCHANGED timerVars
  BY <1>5 DEF timerVars, Pending
<1> QED BY <1>1, <1>2, <1>3, <1>4, <1>5 DEF TimerNext

LEMMA TimerStart == TimerInit => TimerInv
BY TimersAssumption DEF TimerInit, TimerInv, TimerTypeOK, RegisteredIsLive, NewIsUntouched, States

(***************************************************************************)
(* The registry of a GraceScheduler names only timers that are live, for   *)
(* every number of timers and whoever schedules and cancels them.          *)
(***************************************************************************)
THEOREM RegistryIsLive == TimerSpec => []RegisteredIsLive
<1>1. TimerInv => RegisteredIsLive
  BY DEF TimerInv
<1> QED BY TimerStart, TimerStep, <1>1, PTL DEF TimerSpec

(***************************************************************************)
(* A step of the requests, of an escalation, of a report or of a sweep is  *)
(* a step of the scheduler or leaves it alone.                             *)
(***************************************************************************)
LEMMA AutoStep == [AutoNext]_allVars => [TimerNext]_timerVars
<1> SUFFICES ASSUME [AutoNext]_allVars PROVE [TimerNext]_timerVars
  OBVIOUS
<1> USE DEF timerVars
<1>1. ASSUME NEW r \in Timers,
             \/ \E a \in Asking : Request(r, a)
             \/ Instruct(r) \/ Look(r) \/ Escalate(r)
      PROVE  UNCHANGED timerVars
  BY <1>1 DEF Request, Instruct, Look, Escalate
<1>2. ASSUME NEW r \in Timers, Arm(r) \/ Expire(r) \/ End(r)
      PROVE  TimerNext
  BY <1>2 DEF Arm, Expire, End, TimerNext
<1>3. ASSUME NEW s \in Settlers, SettleHere(s)
      PROVE  [TimerNext]_timerVars
  BY <1>3 DEF SettleHere, TimerNext
<1>4. ASSUME NEW s \in Settlers, SettleElsewhere(s) \/ Close(s) \/ LeaveOpen(s)
      PROVE  UNCHANGED timerVars
  BY <1>4 DEF SettleElsewhere, Close, LeaveOpen
<1>5. CASE UNCHANGED allVars
  BY <1>5 DEF allVars
<1> QED BY <1>1, <1>2, <1>3, <1>4, <1>5 DEF AutoNext

(***************************************************************************)
(* Control requests with auto_interrupt use the scheduler as grace.py      *)
(* means it to be used: AutoSpec implements its specification.             *)
(***************************************************************************)
THEOREM RequestsUseTimers == AutoSpec => TimerSpec
<1>1. AutoInit => TimerInit
  BY DEF AutoInit
<1> QED BY <1>1, AutoStep, PTL DEF AutoSpec, TimerSpec

(***************************************************************************)
(* The registry of _auto_interrupt names only live escalations, whatever   *)
(* requests, reports and sweeps do.                                        *)
(***************************************************************************)
THEOREM EscalationsAreLive == AutoSpec => []RegisteredIsLive
BY RegistryIsLive, RequestsUseTimers, PTL
=============================================================================
