--------------------------- MODULE ResolutionProofs ---------------------------
(***************************************************************************)
(* Proofs about Resolution, for any agents, implementations, actions and   *)
(* dependencies, any number of resolutions and calls, and any              *)
(* registrations meanwhile.                                                *)
(***************************************************************************)
EXTENDS Resolution, SequenceTheorems, FiniteSetTheorems, TLAPS

\* What is registered: an implementation that is there has an action, whose key never
\* changes, and dependencies that their keys tell apart, and no row refers to one that is
\* gone.
Distinct(ds) == \A d, e \in ds : d.key = e.key => d = e

Sound(w, rws) ==
    /\ \A i \in w.there : w.catalogue[w.action[i]] # None
    /\ \A x \in Names : w.catalogue[x] # None => w.catalogue[x].key = Catalogue[x].key
    /\ \A i \in Impls : Distinct(w.deps[i])
    /\ \A x \in rws : x.impl \in w.there

RegInv == Sound(reg, rows)

\* A frame is at a dependency, at an agent for it and at a demand of the dependency; the
\* implementations it tries are the chosen agent's, and the loop goes on while fewer than
\* preferred are found.
FrameShape(f) ==
    /\ f.dep = None => f.agent = None
    /\ f.agent = None => f.key = None
    /\ f.dep # None => f.keys \subseteq DOMAIN f.dep.demands
    /\ f.key # None =>
          /\ f.key \in DOMAIN f.dep.demands \ f.keys
          /\ \A i \in f.cands : AgentOf[i] = f.agent
          /\ f.count > 0 => f.dep.prefered # None /\ f.count < f.dep.prefered

\* A frame that waits for an inner call is about to choose that implementation.
Waits(f, i) == f.key # None /\ i \in f.cands

\* Each frame works on a resolution of its own, of its implementation unless it is deleted.
StackInv ==
    /\ (stack # <<>> <=> answer = "running")
    /\ \A n \in DOMAIN stack : /\ FrameShape(stack[n])
                               /\ stack[n].res \in DOMAIN res
                               /\ res[stack[n].res] \in {stack[n].of, None}
    /\ \A m, n \in DOMAIN stack : stack[m].res = stack[n].res => m = n
    /\ \A n \in 2 .. Len(stack) : Waits(stack[n], stack[n - 1].of)

\* What auto_resolve has entered, other than the root at the bottom, it has marked.
EnterInv ==
    /\ stack # <<>> => stack[Len(stack)].of = Root
    /\ \A n \in DOMAIN stack : n < Len(stack) => stack[n].of \in visited
    /\ \A m, n \in DOMAIN stack : m < n /\ n < Len(stack) => stack[m].of # stack[n].of
-----------------------------------------------------------------------------
\* The rows of one resolution, and those of them for demand k of d.
Of(rws, r)     == {x \in rws : x.res = r}
Picks(R, d, k) == {x \in R : x.dep = d.key /\ x.key = k}

\* With w registered, an implementation has a resolution of its own below if it has
\* dependencies.
Nested(w, i, down) == (down # None) = (w.deps[i] # {})

\* One choice for demand k of d meets it on agent g.
Suits(w, x, d, k, g) ==
    /\ AgentOf[x.impl] = g
    /\ ActionDemandClauses(d.demands[k], w.catalogue[w.action[x.impl]])
    /\ Nested(w, x.impl, x.down)

\* ResolutionMeetsDemands for the rows of one resolution: for one demand, for one
\* dependency, and for all of those of implementation i.
KeyMet(w, R, d, k, g) ==
    /\ Picks(R, d, k) # {}
    /\ Cardinality(Picks(R, d, k)) = 1 \/ Cardinality(Picks(R, d, k)) <= d.prefered
    /\ \A x \in Picks(R, d, k) : Suits(w, x, d, k, g)

StatesMet(w, d, g) == \A m \in d.states : StateMeets(w, g, m)

DepMet(w, R, d, g) ==
    /\ \A k \in DOMAIN d.demands : KeyMet(w, R, d, k, g)
    /\ StatesMet(w, d, g)

Met(w, R, i) == \A d \in w.deps[i] : \E g \in Agents : DepMet(w, R, d, g)

\* The actions found for the demands of the dependency at hand meet them still, on the
\* agent chosen or on any; of the demands those that are neither left nor at hand are met
\* once there is an agent, and those left can be.
Meeting(w, f) ==
    \A k \in DOMAIN f.dep.demands : \A j \in w.there :
        f.agent \in {None, AgentOf[j]} /\ w.action[j] \in f.ids[k] =>
            ActionDemandClauses(f.dep.demands[k], w.catalogue[w.action[j]])

AtAgent(w, f, R) ==
    /\ f.agent \in Agents
    /\ StatesMet(w, f.dep, f.agent)
    /\ \A k \in DOMAIN f.dep.demands \ f.keys : k # f.key => KeyMet(w, R, f.dep, k, f.agent)
    /\ \A k \in f.keys :
          /\ Picks(R, f.dep, k) = {}
          /\ \E i \in w.there : AgentOf[i] = f.agent /\ w.action[i] \in f.ids[k]

\* The rows at the demand at hand: the frame counts them, and has one or something to try.
AtKey(w, f, R) ==
    /\ IsFiniteSet(Picks(R, f.dep, f.key))
    /\ Cardinality(Picks(R, f.dep, f.key)) <= f.count
    /\ \A x \in Picks(R, f.dep, f.key) : Suits(w, x, f.dep, f.key, f.agent)
    /\ \A i \in f.cands : i \in w.there /\ w.action[i] \in f.ids[f.key]
    /\ f.count = 0 => f.cands # {}
    /\ f.count > 0 => Picks(R, f.dep, f.key) # {}

\* What a frame has done: the dependencies that are neither left nor at hand are met.
Done(w, f, R) ==
    /\ f.left \subseteq w.deps[f.of] /\ f.dep \notin f.left
    /\ f.dep # None => f.dep \in w.deps[f.of]
    /\ \A d \in w.deps[f.of] \ f.left : d # f.dep => \E g \in Agents : DepMet(w, R, d, g)
    /\ \A d \in f.left : \A k \in DOMAIN d.demands : Picks(R, d, k) = {}

FrameMet(w, f, R) ==
    /\ Done(w, f, R)
    /\ f.dep # None => Meeting(w, f)
    /\ f.dep # None /\ f.agent = None =>
          f.keys = DOMAIN f.dep.demands /\ \A k \in f.keys : Picks(R, f.dep, k) = {}
    /\ f.agent # None => AtAgent(w, f, R)
    /\ f.key # None => AtKey(w, f, R)

Framed(s, r) == \E n \in DOMAIN s : s[n].res = r

\* What auto_resolve is done with is met and what it is at is met so far, unless it is set
\* aside; and what it is inside has dependencies.
ProgressInv ==
    /\ \A r \in DOMAIN res \ aside : res[r] # None /\ ~Framed(stack, r) => Met(reg, Of(rows, r), res[r])
    /\ \A n \in DOMAIN stack :
          stack[n].res \notin aside /\ res[stack[n].res] # None =>
              FrameMet(reg, stack[n], Of(rows, stack[n].res))
    /\ \A n \in 2 .. Len(stack) : stack[n].res \notin aside => reg.deps[stack[n - 1].of] # {}

\* An implementation in a slot has the action that was asked for, and no dependencies,
\* while it is there and is not declared again.
Keeps(w, new, d, k, i) ==
    i \in w.there \ new => Catalogue[w.action[i]].key = ActionKey(d, k) /\ w.deps[i] = {}

\* What an assignment has put into a slot.
SlotMeets(w, new, d, s) ==
    /\ IsFiniteSet(s)
    /\ d.max # None => Cardinality(s) <= d.max
    /\ s = {} => d.min = None \/ d.min <= 0
    /\ \A a \in s, k \in DOMAIN d.demands : a.actions[k] \in Impls /\ Keeps(w, new, d, k, a.actions[k])

CallMeets(c) ==
    /\ c.end = "empty" => c.dep.min = None \/ c.dep.min <= 0
    /\ c.end = "sent" /\ ~c.anew => c.runs = ActionKey(c.dep, c.key) /\ c.bare

SlotsInv ==
    /\ Distinct(read.deps)
    /\ \A d \in read.deps : d.key \in DOMAIN slots => SlotMeets(reg, anew, d, slots[d.key])
    /\ task = "running" => \A d \in read.deps : d.key \in DOMAIN slots
    /\ task = "none" => slots = <<>>
    /\ \A c \in calls : CallMeets(c)

ResolutionInv == TypeOK /\ RegInv /\ StackInv /\ EnterInv /\ ProgressInv /\ SlotsInv
-----------------------------------------------------------------------------
\* What the declared dependencies are like.
LEMMA DependencyFacts ==
    ASSUME NEW d \in Dependencies
    PROVE  /\ d # None
           /\ DOMAIN d.demands \subseteq SlotKeys /\ None \notin DOMAIN d.demands
           /\ d.min \in Int \cup {None} /\ d.max \in Int \cup {None} /\ d.prefered \in Int \cup {None}
           /\ d.app \subseteq Agents
           /\ \A m \in d.states : DOMAIN m = DOMAIN PortMatch /\ m.children = <<>> /\ m.at \in Int \cup {None}
  BY ResolutionAssumption DEF ResolutionAssumption, SlotKeys

\* What is no number, no agent, no action, no demand and no dependency.
LEMMA NoneFacts ==
    None \notin Int /\ None \notin Agents /\ None \notin Names /\ None \notin SlotKeys /\ None \notin Dependencies
  BY ResolutionAssumption DEF ResolutionAssumption, SlotKeys, Names

LEMMA RegistryFacts ==
    ASSUME NEW w \in Registry
    PROVE  /\ w.there \in SUBSET Impls /\ w.action \in [Impls -> Names]
           /\ w.deps \in [Impls -> SUBSET Dependencies]
           /\ w.catalogue \in [Names -> ActionRows \cup {None}]
           /\ w.states \in [Agents -> StateSets]
           /\ \A i \in Impls : \A d \in w.deps[i] : d \in Dependencies /\ d # None
  BY NoneFacts DEF Registry

\* s becomes t: p frames go and g comes.
Turn(s, t, p, g) ==
    /\ t \in Seq(Frames) /\ Len(t) = Len(s) - p + 1 /\ t[1] = g
    /\ \A n \in 2 .. Len(t) : t[n] = s[n + p - 1]

LEMMA Pushed ==
    ASSUME NEW s \in Seq(Frames), NEW g \in Frames
    PROVE  Turn(s, <<g>> \o s, 0, g)
  <1> DEFINE t == <<g>> \o s
  <1>1. <<g>> \in Seq(Frames) /\ Len(<<g>>) = 1 /\ <<g>>[1] = g
    OBVIOUS
  <1>2. t \in Seq(Frames) /\ Len(t) = 1 + Len(s)
    BY <1>1, ConcatProperties
  <1>3. \A n \in 1 .. Len(t) : t[n] = IF n <= 1 THEN g ELSE s[n - 1]
    BY <1>1, ConcatProperties
  <1> QED
    BY <1>2, <1>3 DEF Turn

LEMMA Replaced ==
    ASSUME NEW s \in Seq(Frames), s # <<>>, NEW g \in Frames
    PROVE  Turn(s, <<g>> \o Tail(s), 1, g)
  <1>1. Tail(s) \in Seq(Frames) /\ Len(Tail(s)) = Len(s) - 1 /\ \A n \in 1 .. Len(Tail(s)) : Tail(s)[n] = s[n + 1]
    BY HeadTailProperties
  <1>2. Turn(Tail(s), <<g>> \o Tail(s), 0, g)
    BY <1>1, Pushed
  <1>3. Len(s) \in Nat
    OBVIOUS
  <1>4. \A n \in 2 .. Len(s) : Tail(s)[n - 1] = s[n]
    BY <1>1, <1>3
  <1> QED
    BY <1>1, <1>2, <1>3, <1>4 DEF Turn

LEMMA Popped ==
    ASSUME NEW s \in Seq(Frames), Len(s) > 1, NEW g \in Frames
    PROVE  Turn(s, <<g>> \o Tail(Tail(s)), 2, g)
  <1>1. Tail(s) \in Seq(Frames) /\ Len(Tail(s)) = Len(s) - 1 /\ \A n \in 1 .. Len(Tail(s)) : Tail(s)[n] = s[n + 1]
    BY HeadTailProperties
  <1>2. Tail(s) # <<>>
    <2> DEFINE u == Tail(s)
    <2>1. u \in Seq(Frames) /\ Len(u) # 0
      BY <1>1
    <2> HIDE DEF u
    <2>2. u # <<>>
      BY <2>1, EmptySeq
    <2> QED
      BY <2>2 DEF u
  <1>3. Turn(Tail(s), <<g>> \o Tail(Tail(s)), 1, g)
    BY <1>1, <1>2, Replaced
  <1>4. Len(s) \in Nat
    OBVIOUS
  <1>5. \A n \in 2 .. Len(s) - 1 : Tail(s)[n] = s[n + 1]
    BY <1>1, <1>4
  <1> QED
    BY <1>1, <1>3, <1>4, <1>5 DEF Turn

LEMMA TopFacts ==
    ASSUME TypeOK, StackInv, stack # <<>>
    PROVE  /\ Len(stack) \in Nat /\ Len(stack) > 0 /\ DOMAIN stack = 1 .. Len(stack)
           /\ \A n \in 1 .. Len(stack) : stack[n] \in Frames
           /\ Top \in Frames /\ FrameShape(Top)
           /\ Top.res \in DOMAIN res /\ res[Top.res] \in {Top.of, None}
           /\ answer = "running"
  BY DEF TypeOK, StackInv, Top
-----------------------------------------------------------------------------
\* What the scanner finds is there by position, where the demand can be put to it and has
\* no nested matches; the dimension it leaves aside.
LEMMA ScannerAgrees ==
    ASSUME NEW d \in Dependencies, NEW m \in d.states, NEW g, NEW w,
           ~ LegacyRaises(m), NEW s \in w.states[g], JsonScan(m, s)
    PROVE  StateMeets(w, g, m)
  <1>1. DOMAIN m = DOMAIN PortMatch /\ m.children = <<>> /\ m.at \in Int \cup {None}
    BY DependencyFacts
  <1>2. m.object = None /\ m.nullable = None
    BY DEF LegacyRaises
  <1>3. PICK j \in DOMAIN s : BuildSqlForItem(m, s[j], j)
    BY DEF JsonScan
  <1>4. Says(m.key, s[j].key) /\ Says(m.kind, s[j].kind)
    BY <1>3 DEF BuildSqlForItem
  <1>5. Says(m.at, j - 1)
    <2>1. m.at = None \/ j = m.at + 1
      BY <1>3 DEF BuildSqlForItem
    <2>2. CASE m.at = None
      BY <2>2 DEF Says
    <2>3. CASE m.at # None
      <3>1. m.at \in Int /\ j = m.at + 1
        BY <1>1, <2>1, <2>3
      <3>2. m.at = j - 1
        BY <3>1
      <3> QED
        BY <3>2 DEF Says
    <2> QED
      BY <2>2, <2>3
  <1>6. PICK n : n = [m EXCEPT !.dimension = None]
    OBVIOUS
  <1>7. "dimension" \in DOMAIN m
    BY <1>1 DEF PortMatch
  <1>8. /\ n.children = m.children /\ n.at = m.at /\ n.key = m.key /\ n.kind = m.kind
        /\ n.object = m.object /\ n.nullable = m.nullable /\ n.dimension = None
    BY <1>6, <1>7
  <1>9. Fits(n, s[j], j - 1)
    BY <1>2, <1>4, <1>5, <1>8 DEF Fits, Says
  <1>10. DOMAIN n.children = {}
    BY <1>1, <1>8
  <1>11. BuildMatchExists(n, s)
    BY <1>9, <1>10 DEF BuildMatchExists
  <1> QED
    BY <1>6, <1>11 DEF StateMeets

\* No actions are found yet.
LEMMA NoIds == <<>> \in UNION {[K -> SUBSET Names] : K \in SUBSET SlotKeys}
  <1>1. <<>> \in [{} -> SUBSET Names]
    OBVIOUS
  <1> QED
    BY <1>1

\* The frame of an inner or outer call as it starts, on a resolution without rows.
LEMMA FrameStarts ==
    ASSUME NEW r \in Nat, NEW i \in Impls, NEW w \in Registry
    PROVE  /\ Frame(w, r, i) \in Frames /\ Frame(w, r, i).res = r /\ Frame(w, r, i).of = i
           /\ FrameShape(Frame(w, r, i)) /\ FrameMet(w, Frame(w, r, i), {})
  <1> DEFINE f == Frame(w, r, i)
  <1>1. f = [res |-> r, of |-> i, left |-> w.deps[i], dep |-> None, ids |-> <<>>, agent |-> None,
             keys |-> {}, key |-> None, cands |-> {}, count |-> 0]
    BY DEF Frame
  <1>2. w.deps[i] \in SUBSET Dependencies
    BY RegistryFacts
  <1>3. f \in Frames
    <2>1. PICK ds, e : ds = w.deps[i] /\ e = <<>>
      OBVIOUS
    <2>2. e \in UNION {[K -> SUBSET Names] : K \in SUBSET SlotKeys} /\ ds \in SUBSET Dependencies
      BY <1>2, <2>1, NoIds
    <2>3. f = [res |-> r, of |-> i, left |-> ds, dep |-> None, ids |-> e, agent |-> None,
               keys |-> {}, key |-> None, cands |-> {}, count |-> 0]
      BY <1>1, <2>1
    <2> HIDE DEF f
    <2> QED
      BY <2>2, <2>3 DEF Frames
  <1>4. f.res = r /\ f.of = i /\ f.left = w.deps[i] /\ f.dep = None /\ f.agent = None /\ f.key = None
    BY <1>1
  <1> HIDE DEF f
  <1>5. FrameShape(f)
    BY <1>4 DEF FrameShape
  <1>6. f.dep \notin f.left
    BY <1>2, <1>4, NoneFacts
  <1>7. FrameMet(w, f, {})
    BY <1>4, <1>6 DEF FrameMet, Done, Picks
  <1> QED
    BY <1>3, <1>4, <1>5, <1>7 DEF f

\* What the steps make of a frame: at a dependency, at an agent for it, through with it, at
\* a demand, through with it, past an implementation.
ToDependency(w, f, d) ==
    [f EXCEPT !.left = @ \ {d}, !.dep = d, !.keys = DOMAIN d.demands,
              !.ids = [k \in DOMAIN d.demands |-> ActionIds(w, d.demands[k])]]
ToAgent(f, g)   == [f EXCEPT !.agent = g]
NoDependency(f) == [f EXCEPT !.dep = None, !.ids = <<>>, !.agent = None]
ToDemand(w, f, k) ==
    [f EXCEPT !.keys = @ \ {k}, !.key = k, !.count = 0,
       !.cands = {i \in w.there : AgentOf[i] = f.agent /\ w.action[i] \in f.ids[k]}]
NoDemand(f)     == [f EXCEPT !.key = None]
PastOne(f, i)   == [f EXCEPT !.cands = @ \ {i}]

\* What becomes of frame f is a frame of the same resolution.
Becomes(f, h) == h \in Frames /\ FrameShape(h) /\ h.res = f.res /\ h.of = f.of

\* PickDependency.
LEMMA DependencyPicked ==
    ASSUME NEW f \in Frames, FrameShape(f), f.dep = None, NEW d \in f.left,
           NEW w \in Registry, NEW R, NEW h, h = ToDependency(w, f, d)
    PROVE  Becomes(f, h) /\ (FrameMet(w, f, R) => FrameMet(w, h, R))
  <1>1. f.agent = None /\ f.key = None /\ d \in Dependencies
    BY DEF FrameShape, Frames
  <1>2. d # None /\ DOMAIN d.demands \subseteq SlotKeys
    BY <1>1, DependencyFacts
  <1>3. PICK ids : ids = [k \in DOMAIN d.demands |-> ActionIds(w, d.demands[k])]
    OBVIOUS
  <1>4. ids \in UNION {[K -> SUBSET Names] : K \in SUBSET SlotKeys}
    <2>1. \A k \in DOMAIN d.demands : ActionIds(w, d.demands[k]) \in SUBSET Names
      BY RegistryFacts DEF ActionIds
    <2>2. ids \in [DOMAIN d.demands -> SUBSET Names]
      BY <2>1, <1>3
    <2> QED
      BY <2>2, <1>2
  <1>5. h = [f EXCEPT !.left = @ \ {d}, !.dep = d, !.keys = DOMAIN d.demands, !.ids = ids]
    BY <1>3 DEF ToDependency
  <1>6. h \in Frames
    BY <1>1, <1>2, <1>4, <1>5 DEF Frames
  <1>7. /\ h.res = f.res /\ h.of = f.of /\ h.left = f.left \ {d} /\ h.dep = d /\ h.agent = None
        /\ h.keys = DOMAIN d.demands /\ h.key = None /\ h.ids = ids
    BY <1>1, <1>5 DEF Frames
  <1>8. FrameShape(h)
    BY <1>2, <1>7 DEF FrameShape
  <1>9. ASSUME FrameMet(w, f, R) PROVE FrameMet(w, h, R)
    <2>1. /\ f.left \subseteq w.deps[f.of]
          /\ \A e \in w.deps[f.of] \ f.left : e # f.dep => \E a \in Agents : DepMet(w, R, e, a)
          /\ \A e \in f.left : \A k \in DOMAIN e.demands : Picks(R, e, k) = {}
      BY <1>9 DEF FrameMet, Done
    <2>2. \A e \in w.deps[f.of] \ h.left : e # d => \E a \in Agents : DepMet(w, R, e, a)
      <3>1. \A e \in w.deps[f.of] : e # None
        BY RegistryFacts DEF Frames
      <3> QED
        BY <2>1, <3>1, <1>7
    <2>3. Done(w, h, R)
      BY <2>1, <2>2, <1>2, <1>7 DEF Done
    <2>4. Meeting(w, h)
      BY <1>3, <1>7 DEF Meeting, ActionIds
    <2> QED
      BY <2>1, <2>3, <2>4, <1>7 DEF FrameMet
  <1> QED
    BY <1>6, <1>7, <1>8, <1>9 DEF Becomes

\* PickAgent.
LEMMA AgentPicked ==
    ASSUME NEW f \in Frames, FrameShape(f), f.dep # None, f.agent = None, NEW w \in Registry,
           NEW g \in MatchingAgents(w, f.dep, f.ids), \A m \in f.dep.states : ~LegacyRaises(m),
           NEW R, NEW h, h = ToAgent(f, g)
    PROVE  Becomes(f, h) /\ (FrameMet(w, f, R) => FrameMet(w, h, R))
  <1>1. f.key = None /\ f.dep \in Dependencies
    BY DEF FrameShape, Frames
  <1>2. g \in Agents /\ g # None
    BY NoneFacts DEF MatchingAgents
  <1>3. h \in Frames
    BY <1>2 DEF Frames, ToAgent
  <1>4. /\ h.res = f.res /\ h.of = f.of /\ h.left = f.left /\ h.dep = f.dep /\ h.agent = g
        /\ h.keys = f.keys /\ h.key = None /\ h.ids = f.ids
    BY <1>1 DEF Frames, ToAgent
  <1>5. FrameShape(h)
    BY <1>2, <1>4 DEF FrameShape
  <1>6. ASSUME FrameMet(w, f, R) PROVE FrameMet(w, h, R)
    <2>1. /\ Done(w, f, R) /\ Meeting(w, f)
          /\ f.keys = DOMAIN f.dep.demands /\ \A k \in f.keys : Picks(R, f.dep, k) = {}
      BY <1>6 DEF FrameMet
    <2>2. Done(w, h, R)
      BY <2>1, <1>4 DEF Done
    <2>3. Meeting(w, h)
      BY <2>1, <1>2, <1>4 DEF Meeting
    <2>4. StatesMet(w, f.dep, g)
      <3>1. \A m \in f.dep.states : ~ LegacyRaises(m) /\ \E s \in w.states[g] : JsonScan(m, s)
        BY DEF MatchingAgents
      <3> QED
        BY <3>1, <1>1, ScannerAgrees DEF StatesMet
    <2>5. \A k \in f.keys : \E i \in w.there : AgentOf[i] = g /\ w.action[i] \in f.ids[k]
      BY <2>1 DEF MatchingAgents
    <2>6. AtAgent(w, h, R)
      BY <2>1, <2>4, <2>5, <1>2, <1>4 DEF AtAgent
    <2> QED
      BY <2>2, <2>3, <2>6, <1>2, <1>4 DEF FrameMet
  <1> QED
    BY <1>3, <1>4, <1>5, <1>6 DEF Becomes

\* PickDemand, when no demand of the dependency is left.
LEMMA DependencyDone ==
    ASSUME NEW f \in Frames, FrameShape(f), f.agent # None, f.key = None, f.keys = {}, NEW R,
           NEW w \in Registry, NEW h, h = NoDependency(f)
    PROVE  Becomes(f, h) /\ (FrameMet(w, f, R) => FrameMet(w, h, R))
  <1>1. f.dep # None /\ f.dep \in Dependencies
    BY DEF FrameShape, Frames
  <1>2. PICK e : e = <<>>
    OBVIOUS
  <1>3. h = [f EXCEPT !.dep = None, !.ids = e, !.agent = None]
    BY <1>2 DEF NoDependency
  <1>4. e \in UNION {[K -> SUBSET Names] : K \in SUBSET SlotKeys}
    BY <1>2, NoIds
  <1>5. h \in Frames
    BY <1>3, <1>4 DEF Frames
  <1>6. /\ h.res = f.res /\ h.of = f.of /\ h.left = f.left /\ h.dep = None /\ h.agent = None /\ h.key = None
    BY <1>3 DEF Frames
  <1>7. FrameShape(h)
    BY <1>6 DEF FrameShape
  <1>8. ASSUME FrameMet(w, f, R) PROVE FrameMet(w, h, R)
    <2>1. Done(w, f, R) /\ AtAgent(w, f, R)
      BY <1>8 DEF FrameMet
    <2>2. DepMet(w, R, f.dep, f.agent) /\ f.agent \in Agents
      <3>1. \A j \in DOMAIN f.dep.demands : j # None
        BY <1>1, DependencyFacts
      <3> QED
        BY <2>1, <3>1 DEF AtAgent, DepMet
    <2>3. None \notin f.left
      BY NoneFacts DEF Frames
    <2>4. Done(w, h, R)
      <3>1. \A d \in w.deps[f.of] \ f.left : \E g \in Agents : DepMet(w, R, d, g)
        BY <2>1, <2>2 DEF Done
      <3> QED
        BY <2>1, <2>3, <3>1, <1>6 DEF Done
    <2> QED
      BY <2>4, <1>6 DEF FrameMet
  <1> QED
    BY <1>5, <1>6, <1>7, <1>8 DEF Becomes

\* PickDemand, when one is.
LEMMA DemandPicked ==
    ASSUME NEW f \in Frames, FrameShape(f), f.agent # None, f.key = None, NEW k \in f.keys, NEW R,
           NEW w \in Registry, NEW h, h = ToDemand(w, f, k)
    PROVE  Becomes(f, h) /\ (FrameMet(w, f, R) => FrameMet(w, h, R))
  <1>1. PICK cs : cs = {i \in w.there : AgentOf[i] = f.agent /\ w.action[i] \in f.ids[k]}
    OBVIOUS
  <1>2. cs \in SUBSET Impls
    BY <1>1, RegistryFacts
  <1>3. f.dep # None /\ f.dep \in Dependencies /\ k \in SlotKeys /\ k \in DOMAIN f.dep.demands /\ k # None
    BY NoneFacts DEF Frames, FrameShape
  <1>4. h = [f EXCEPT !.keys = @ \ {k}, !.key = k, !.count = 0, !.cands = cs]
    BY <1>1 DEF ToDemand
  <1>5. h \in Frames
    <2>1. PICK ks : ks = f.keys \ {k}
      OBVIOUS
    <2>2. ks \in SUBSET SlotKeys /\ k \in SlotKeys \cup {None} /\ 0 \in Nat
      BY <2>1, <1>3 DEF Frames
    <2>3. h = [f EXCEPT !.keys = ks, !.key = k, !.count = 0, !.cands = cs]
      BY <2>1, <1>4
    <2> QED
      BY <2>2, <2>3, <1>2 DEF Frames
  <1>6. /\ h.res = f.res /\ h.of = f.of /\ h.left = f.left /\ h.dep = f.dep /\ h.agent = f.agent
        /\ h.keys = f.keys \ {k} /\ h.key = k /\ h.count = 0 /\ h.cands = cs /\ h.ids = f.ids
    BY <1>4 DEF Frames
  <1>7. FrameShape(h)
    BY <1>1, <1>3, <1>6 DEF FrameShape
  <1>8. ASSUME FrameMet(w, f, R) PROVE FrameMet(w, h, R)
    <2>1. Done(w, f, R) /\ Meeting(w, f) /\ AtAgent(w, f, R)
      BY <1>3, <1>8 DEF FrameMet
    <2>2. Done(w, h, R) /\ Meeting(w, h)
      BY <2>1, <1>6 DEF Done, Meeting
    <2>3. Picks(R, f.dep, k) = {} /\ cs # {}
      BY <2>1, <1>1 DEF AtAgent
    <2>4. AtKey(w, h, R)
      BY <2>3, <1>1, <1>6, FS_EmptySet DEF AtKey
    <2>5. AtAgent(w, h, R)
      <3>1. \A j \in DOMAIN f.dep.demands : j # None
        BY <1>3, DependencyFacts
      <3>2. \A j \in DOMAIN h.dep.demands \ h.keys : j # h.key => KeyMet(w, R, h.dep, j, h.agent)
        BY <2>1, <3>1, <1>6 DEF AtAgent
      <3>3. /\ h.agent \in Agents /\ StatesMet(w, h.dep, h.agent)
            /\ \A j \in h.keys :
                  /\ Picks(R, h.dep, j) = {}
                  /\ \E i \in w.there : AgentOf[i] = h.agent /\ w.action[i] \in h.ids[j]
        BY <2>1, <1>6 DEF AtAgent
      <3> QED
        BY <3>2, <3>3 DEF AtAgent
    <2> QED
      BY <2>2, <2>4, <2>5, <1>3, <1>6 DEF FrameMet
  <1> QED
    BY <1>5, <1>6, <1>7, <1>8 DEF Becomes

\* TryImplementation, when there is nothing left to try.
LEMMA DemandDone ==
    ASSUME NEW f \in Frames, FrameShape(f), f.key # None, f.cands = {}, NEW R,
           NEW w \in Registry, NEW h, h = NoDemand(f)
    PROVE  Becomes(f, h) /\ (FrameMet(w, f, R) => FrameMet(w, h, R))
  <1>1. h \in Frames
    BY DEF Frames, NoDemand
  <1>2. /\ h.res = f.res /\ h.of = f.of /\ h.left = f.left /\ h.dep = f.dep /\ h.agent = f.agent
        /\ h.keys = f.keys /\ h.key = None /\ h.ids = f.ids
    BY DEF Frames, NoDemand
  <1>3. f.agent # None /\ f.dep # None /\ f.dep \in Dependencies
    BY DEF FrameShape, Frames
  <1>4. FrameShape(h)
    BY <1>2, <1>3 DEF FrameShape
  <1>5. ASSUME FrameMet(w, f, R) PROVE FrameMet(w, h, R)
    <2>1. Done(w, f, R) /\ Meeting(w, f) /\ AtAgent(w, f, R) /\ AtKey(w, f, R)
      BY <1>3, <1>5 DEF FrameMet
    <2>2. /\ f.count \in Nat /\ f.count > 0 /\ f.dep.prefered \in Int /\ f.count < f.dep.prefered
      <3>1. f.count \in Nat
        BY DEF Frames
      <3>2. f.count > 0
        BY <2>1, <3>1 DEF AtKey
      <3>3. f.dep.prefered \in Int \cup {None}
        BY <1>3, DependencyFacts
      <3> QED
        BY <3>1, <3>2, <3>3 DEF FrameShape
    <2>3. KeyMet(w, R, f.dep, f.key, f.agent)
      <3> DEFINE P == Picks(R, f.dep, f.key)
      <3>1. /\ Cardinality(P) <= f.count /\ Cardinality(P) \in Nat /\ P # {}
            /\ \A x \in P : Suits(w, x, f.dep, f.key, f.agent)
        BY <2>1, <2>2, FS_CardinalityType DEF AtKey
      <3>2. Cardinality(P) <= f.dep.prefered
        BY <3>1, <2>2
      <3> QED
        BY <3>1, <3>2 DEF KeyMet
    <2>4. Done(w, h, R) /\ Meeting(w, h)
      BY <2>1, <1>2 DEF Done, Meeting
    <2>5. AtAgent(w, h, R)
      <3>1. \A k \in DOMAIN f.dep.demands \ f.keys : KeyMet(w, R, f.dep, k, f.agent)
        BY <2>1, <2>3 DEF AtAgent
      <3> QED
        BY <2>1, <3>1, <1>2 DEF AtAgent
    <2> QED
      BY <2>4, <2>5, <1>2, <1>3 DEF FrameMet
  <1> QED
    BY <1>1, <1>2, <1>4, <1>5 DEF Becomes

\* TryImplementation, when an implementation is passed over.
LEMMA PassedOver ==
    ASSUME NEW f \in Frames, FrameShape(f), NEW i, NEW h, h = PastOne(f, i)
    PROVE  Becomes(f, h)
  <1>1. h \in Frames
    BY DEF Frames, PastOne
  <1>2. /\ h.res = f.res /\ h.of = f.of /\ h.dep = f.dep /\ h.agent = f.agent
        /\ h.keys = f.keys /\ h.key = f.key /\ h.count = f.count /\ h.cands = f.cands \ {i}
    BY DEF Frames, PastOne
  <1> QED
    BY <1>1, <1>2 DEF Becomes, FrameShape

\* Resolve: a row for implementation i, and on to the next.
RowFor(f, i, down) ==
    [res |-> f.res, dep |-> f.dep.key, key |-> f.key, impl |-> i, down |-> down]

Counted(f, i) ==
    [f EXCEPT !.count = @ + 1,
              !.cands = IF f.count + 1 >= f.dep.prefered THEN {} ELSE @ \ {i},
              !.key = IF f.count + 1 >= f.dep.prefered THEN None ELSE @]

\* The new row is one for the demand at hand and none for any other of the resolution.
WithRow(R, x) == R \cup {x}

LEMMA PicksAfterRow ==
    ASSUME NEW D, NEW d0 \in D, Distinct(D), NEW k0, NEW x, x.dep = d0.key, x.key = k0, NEW R
    PROVE  /\ Picks(WithRow(R, x), d0, k0) = Picks(R, d0, k0) \cup {x}
           /\ \A d \in D : \A k \in DOMAIN d.demands :
                 d # d0 \/ k # k0 => Picks(WithRow(R, x), d, k) = Picks(R, d, k)
  <1>1. \A d \in D : d.key = d0.key => d = d0
    BY DEF Distinct
  <1>2. Picks(WithRow(R, x), d0, k0) = Picks(R, d0, k0) \cup {x}
    BY DEF Picks, WithRow
  <1>3. ASSUME NEW d \in D, NEW k \in DOMAIN d.demands, d # d0 \/ k # k0
        PROVE  Picks(WithRow(R, x), d, k) = Picks(R, d, k)
    BY <1>1, <1>3 DEF Picks, WithRow
  <1> QED
    BY <1>2, <1>3

\* The frame that has counted one more.
LEMMA CountedShape ==
    ASSUME NEW f \in Frames, FrameShape(f), f.key # None, NEW i \in f.cands, f.dep.prefered # None,
           NEW h, h = Counted(f, i)
    PROVE  /\ Becomes(f, h) /\ f.dep.prefered \in Int /\ f.count \in Nat /\ f.agent # None
           /\ f.dep # None /\ f.dep \in Dependencies
           /\ h.left = f.left /\ h.dep = f.dep /\ h.agent = f.agent
           /\ h.keys = f.keys /\ h.count = f.count + 1 /\ h.ids = f.ids
           /\ IF f.count + 1 >= f.dep.prefered THEN h.key = None
              ELSE h.key = f.key /\ h.cands = f.cands \ {i}
  <1> DEFINE enough == f.count + 1 >= f.dep.prefered
  <1>1. f.dep # None /\ f.dep \in Dependencies /\ f.count \in Nat /\ f.agent # None
    BY DEF FrameShape, Frames
  <1>2. f.dep.prefered \in Int
    BY <1>1, DependencyFacts
  <1>3. PICK cs, ky : cs = (IF enough THEN {} ELSE f.cands \ {i}) /\ ky = (IF enough THEN None ELSE f.key)
    OBVIOUS
  <1>4. cs \in SUBSET Impls /\ ky \in SlotKeys \cup {None} /\ f.count + 1 \in Nat
    BY <1>1, <1>3 DEF Frames
  <1>5. h = [f EXCEPT !.count = f.count + 1, !.cands = cs, !.key = ky]
    BY <1>3 DEF Counted
  <1>6. h \in Frames
    BY <1>4, <1>5 DEF Frames
  <1>7. /\ h.res = f.res /\ h.of = f.of /\ h.left = f.left /\ h.dep = f.dep /\ h.agent = f.agent
        /\ h.keys = f.keys /\ h.count = f.count + 1 /\ h.ids = f.ids /\ h.cands = cs /\ h.key = ky
    BY <1>5 DEF Frames
  <1>8. FrameShape(h)
    <2>1. CASE enough
      BY <2>1, <1>1, <1>3, <1>7 DEF FrameShape
    <2>2. CASE ~enough
      <3>1. f.count + 1 < f.dep.prefered
        BY <2>2, <1>1, <1>2
      <3> QED
        BY <2>2, <3>1, <1>1, <1>3, <1>7 DEF FrameShape
    <2> QED
      BY <2>1, <2>2
  <1> QED
    BY <1>1, <1>2, <1>3, <1>6, <1>7, <1>8 DEF Becomes

LEMMA RowChosen ==
    ASSUME NEW f \in Frames, FrameShape(f), f.key # None, NEW i \in f.cands, f.dep.prefered # None,
           NEW w \in Registry, Distinct(w.deps[f.of]), NEW down, Nested(w, i, down), NEW R,
           FrameMet(w, f, R), NEW h, h = Counted(f, i), NEW x, x = RowFor(f, i, down)
    PROVE  FrameMet(w, h, WithRow(R, x))
  <1> DEFINE enough == f.count + 1 >= f.dep.prefered
             R2 == WithRow(R, x)
             P == Picks(R, f.dep, f.key)
             P2 == Picks(R2, f.dep, f.key)
             Left == f.key \in DOMAIN f.dep.demands \ f.keys /\ f.keys \subseteq DOMAIN f.dep.demands
  <1>1. /\ f.dep # None /\ f.dep \in Dependencies /\ f.agent # None /\ f.count \in Nat
        /\ f.dep.prefered \in Int
        /\ h.of = f.of /\ h.left = f.left /\ h.dep = f.dep /\ h.agent = f.agent
        /\ h.keys = f.keys /\ h.count = f.count + 1 /\ h.ids = f.ids
        /\ enough => h.key = None
        /\ ~enough => h.key = f.key /\ h.cands = f.cands \ {i}
    BY CountedShape DEF Becomes
  <1>2. Left
    BY <1>1 DEF FrameShape
  <1>3. Done(w, f, R) /\ Meeting(w, f) /\ AtAgent(w, f, R) /\ AtKey(w, f, R)
    BY <1>1 DEF FrameMet
  <1>4. f.dep \in w.deps[f.of] /\ f.left \subseteq w.deps[f.of] /\ f.dep \notin f.left
    BY <1>1, <1>3 DEF Done
  <1>5. x.dep = f.dep.key /\ x.key = f.key /\ x.impl = i /\ x.down = down
    BY DEF RowFor
  <1>6. /\ P2 = P \cup {x}
        /\ \A d \in w.deps[f.of] : \A k \in DOMAIN d.demands :
              d # f.dep \/ k # f.key => Picks(R2, d, k) = Picks(R, d, k)
    BY <1>4, <1>5, PicksAfterRow
  <1>7. Suits(w, x, f.dep, f.key, f.agent)
    <2>1. AgentOf[i] = f.agent /\ i \in w.there /\ w.action[i] \in f.ids[f.key]
      BY <1>3 DEF FrameShape, AtKey
    <2>2. ActionDemandClauses(f.dep.demands[f.key], w.catalogue[w.action[i]])
      BY <2>1, <1>2, <1>3 DEF Meeting
    <2> QED
      BY <2>1, <2>2, <1>5 DEF Suits
  <1> HIDE DEF R2
  <1>8. /\ IsFiniteSet(P2) /\ Cardinality(P2) \in Nat /\ Cardinality(P2) <= f.count + 1
        /\ P2 # {} /\ \A y \in P2 : Suits(w, y, f.dep, f.key, f.agent)
        /\ f.count = 0 => Cardinality(P2) = 1
    <2>1. IsFiniteSet(P) /\ Cardinality(P) \in Nat /\ Cardinality(P) <= f.count
      BY <1>3, FS_CardinalityType DEF AtKey
    <2>2. /\ IsFiniteSet(P2)
          /\ Cardinality(P2) = IF x \in P THEN Cardinality(P) ELSE Cardinality(P) + 1
      <3>1. PICK Q, Q2, y : Q = P /\ Q2 = P2 /\ y = x
        OBVIOUS
      <3>2. IsFiniteSet(Q) /\ Q2 = Q \cup {y}
        BY <2>1, <3>1, <1>6
      <3>3. IsFiniteSet(Q2) /\ Cardinality(Q2) = IF y \in Q THEN Cardinality(Q) ELSE Cardinality(Q) + 1
        BY <3>2, FS_AddElement
      <3> QED
        BY <3>1, <3>3
    <2>3. f.count = 0 => P = {}
      <3>1. f.count = 0 => Cardinality(P) = 0
        BY <2>1, <1>1
      <3> QED
        BY <3>1, <2>1, FS_EmptySet
    <2>4. f.count = 0 => Cardinality(P2) = 1
      <3>1. f.count = 0 => Cardinality(P) = 0 /\ x \notin P
        BY <2>1, <1>1, <2>3
      <3> QED
        BY <3>1, <2>2
    <2>5. P2 # {} /\ \A y \in P2 : Suits(w, y, f.dep, f.key, f.agent)
      BY <1>3, <1>6, <1>7 DEF AtKey
    <2>6. Cardinality(P2) \in Nat /\ Cardinality(P2) <= f.count + 1
      BY <2>1, <2>2, <1>1
    <2> QED
      BY <2>2, <2>4, <2>5, <2>6
  <1>9. enough => KeyMet(w, R2, f.dep, f.key, f.agent)
    <2>1. CASE f.count = 0
      BY <1>8, <2>1 DEF KeyMet
    <2>2. CASE f.count # 0
      <3>1. f.count < f.dep.prefered
        BY <2>2, <1>1 DEF FrameShape
      <3>2. Cardinality(P2) <= f.dep.prefered
        BY <3>1, <1>8, <1>1
      <3> QED
        BY <1>8, <3>2 DEF KeyMet
    <2> QED
      BY <2>1, <2>2
  <1>10. h.key # None => AtKey(w, h, R2)
    <2>1. h.count # 0
      BY <1>1
    <2>2. \A j \in f.cands : j \in w.there /\ w.action[j] \in f.ids[f.key]
      BY <1>3 DEF AtKey
    <2> QED
      BY <1>8, <2>1, <2>2, <1>1 DEF AtKey
  <1>11. Done(w, h, R2)
    <2>1. ASSUME NEW d \in w.deps[f.of] \ f.left, d # f.dep, NEW a \in Agents, DepMet(w, R, d, a)
          PROVE  DepMet(w, R2, d, a)
      BY <2>1, <1>6 DEF DepMet, KeyMet
    <2>2. \A d \in w.deps[f.of] \ f.left : d # f.dep => \E a \in Agents : DepMet(w, R2, d, a)
      BY <2>1, <1>3 DEF Done
    <2>3. \A d \in f.left : \A k \in DOMAIN d.demands : Picks(R2, d, k) = {}
      BY <1>3, <1>4, <1>6 DEF Done
    <2> QED
      BY <2>2, <2>3, <1>1, <1>4 DEF Done
  <1>12. AtAgent(w, h, R2)
    <2>1. \A k \in DOMAIN f.dep.demands \ f.keys : k # f.key => KeyMet(w, R2, f.dep, k, f.agent)
      BY <1>3, <1>4, <1>6 DEF AtAgent, KeyMet
    <2>2. \A k \in DOMAIN h.dep.demands \ h.keys : k # h.key => KeyMet(w, R2, h.dep, k, h.agent)
      BY <2>1, <1>1, <1>9
    <2>3. \A k \in f.keys :
             /\ Picks(R2, f.dep, k) = {}
             /\ \E j \in w.there : AgentOf[j] = f.agent /\ w.action[j] \in f.ids[k]
      BY <1>2, <1>3, <1>4, <1>6 DEF AtAgent
    <2> QED
      BY <2>2, <2>3, <1>1, <1>3 DEF AtAgent
  <1>13. Meeting(w, h)
    BY <1>1, <1>3 DEF Meeting
  <1> QED
    BY <1>1, <1>10, <1>11, <1>12, <1>13 DEF FrameMet, R2
-----------------------------------------------------------------------------
\* The frame that comes works on with what the last of those that go worked on.
Continues(p, g) ==
    /\ p \in {1, 2} /\ p <= Len(stack)
    /\ g \in Frames /\ FrameShape(g) /\ g.res = stack[p].res /\ g.of = stack[p].of
    /\ Turn(stack, stack', p, g)

LEMMA TurnFacts ==
    ASSUME TypeOK, StackInv, NEW p, NEW g, Continues(p, g)
    PROVE  /\ Len(stack) \in Nat /\ DOMAIN stack = 1 .. Len(stack)
           /\ Len(stack') = Len(stack) - p + 1 /\ DOMAIN stack' = 1 .. Len(stack') /\ stack' # <<>>
           /\ stack' \in Seq(Frames) /\ stack'[1] = g
           /\ \A n \in 2 .. Len(stack') : stack'[n] = stack[n + p - 1]
           /\ \A n \in 1 .. Len(stack') : /\ n + p - 1 \in 1 .. Len(stack)
                                          /\ stack'[n].res = stack[n + p - 1].res
                                          /\ stack'[n].of = stack[n + p - 1].of
  <1>1. /\ Len(stack) \in Nat /\ DOMAIN stack = 1 .. Len(stack) /\ p \in Nat /\ p <= Len(stack)
        /\ p > 0
    BY DEF TypeOK, Continues
  <1>2. /\ stack' \in Seq(Frames) /\ Len(stack') = Len(stack) - p + 1 /\ stack'[1] = g
        /\ \A n \in 2 .. Len(stack') : stack'[n] = stack[n + p - 1]
    BY DEF Continues, Turn
  <1>3. DOMAIN stack' = 1 .. Len(stack') /\ stack' # <<>>
    BY <1>1, <1>2
  <1>4. ASSUME NEW n \in 1 .. Len(stack')
        PROVE  /\ n + p - 1 \in 1 .. Len(stack)
               /\ stack'[n].res = stack[n + p - 1].res
               /\ stack'[n].of = stack[n + p - 1].of
    <2>1. n + p - 1 \in 1 .. Len(stack)
      BY <1>1, <1>2
    <2>2. CASE n = 1
      <3>1. n + p - 1 = p
        BY <2>2, <1>1
      <3> QED
        BY <2>1, <2>2, <3>1, <1>2 DEF Continues
    <2>3. CASE n # 1
      <3>1. n \in 2 .. Len(stack')
        BY <2>3, <1>1, <1>2
      <3> QED
        BY <2>1, <3>1, <1>2
    <2> QED
      BY <2>2, <2>3
  <1> QED
    BY <1>1, <1>2, <1>3, <1>4

LEMMA StackTurns ==
    ASSUME TypeOK, StackInv, NEW p, NEW g, Continues(p, g), UNCHANGED <<res, answer>>
    PROVE  StackInv'
  <1>1. /\ Len(stack) \in Nat /\ DOMAIN stack = 1 .. Len(stack)
        /\ Len(stack') = Len(stack) - p + 1 /\ DOMAIN stack' = 1 .. Len(stack') /\ stack' # <<>>
        /\ stack'[1] = g
        /\ \A n \in 2 .. Len(stack') : stack'[n] = stack[n + p - 1]
        /\ \A n \in 1 .. Len(stack') : /\ n + p - 1 \in 1 .. Len(stack)
                                       /\ stack'[n].res = stack[n + p - 1].res
                                       /\ stack'[n].of = stack[n + p - 1].of
    BY TurnFacts
  <1>2. p \in {1, 2} /\ FrameShape(g)
    BY DEF Continues
  <1>3. stack # <<>> /\ answer = "running"
    <2>1. Len(stack) > 0
      BY <1>1, <1>2 DEF Continues
    <2> QED
      BY <2>1 DEF StackInv
  <1>4. ASSUME NEW n \in 1 .. Len(stack')
        PROVE  /\ FrameShape(stack'[n]) /\ stack'[n].res \in DOMAIN res
               /\ res[stack'[n].res] \in {stack'[n].of, None}
    <2>1. /\ FrameShape(stack[n + p - 1]) /\ stack[n + p - 1].res \in DOMAIN res
          /\ res[stack[n + p - 1].res] \in {stack[n + p - 1].of, None}
      BY <1>1 DEF StackInv
    <2>2. FrameShape(stack'[n])
      <3>1. CASE n = 1
        BY <3>1, <1>1, <1>2
      <3>2. CASE n # 1
        <4>1. n \in 2 .. Len(stack')
          BY <3>2, <1>1, <1>2
        <4> QED
          BY <4>1, <1>1, <2>1
      <3> QED
        BY <3>1, <3>2
    <2> QED
      BY <2>1, <2>2, <1>1
  <1>5. ASSUME NEW m \in 1 .. Len(stack'), NEW n \in 1 .. Len(stack'), stack'[m].res = stack'[n].res
        PROVE  m = n
    <2>1. m + p - 1 = n + p - 1
      BY <1>1, <1>5 DEF StackInv
    <2> QED
      BY <2>1, <1>1, <1>2
  <1>6. ASSUME NEW n \in 2 .. Len(stack') PROVE Waits(stack'[n], stack'[n - 1].of)
    <2>1. n - 1 \in 1 .. Len(stack') /\ n + p - 1 \in 2 .. Len(stack) /\ (n - 1) + p - 1 = (n + p - 1) - 1
      BY <1>1, <1>2
    <2>2. stack'[n - 1].of = stack[(n + p - 1) - 1].of
      <3>1. stack'[n - 1].of = stack[(n - 1) + p - 1].of
        BY <1>1, <2>1
      <3> QED
        BY <2>1, <3>1
    <2>3. Waits(stack[n + p - 1], stack[(n + p - 1) - 1].of)
      BY <2>1 DEF StackInv
    <2> QED
      BY <1>1, <2>2, <2>3
  <1> QED
    BY <1>1, <1>3, <1>4, <1>5, <1>6 DEF StackInv

LEMMA EntersTurn ==
    ASSUME TypeOK, StackInv, EnterInv, NEW p, NEW g, Continues(p, g), visited \subseteq visited'
    PROVE  EnterInv'
  <1>1. /\ Len(stack) \in Nat /\ DOMAIN stack = 1 .. Len(stack)
        /\ Len(stack') = Len(stack) - p + 1 /\ DOMAIN stack' = 1 .. Len(stack') /\ stack' # <<>>
        /\ \A n \in 1 .. Len(stack') : /\ n + p - 1 \in 1 .. Len(stack)
                                       /\ stack'[n].of = stack[n + p - 1].of
    BY TurnFacts
  <1>2. p \in {1, 2} /\ p <= Len(stack)
    BY DEF Continues
  <1>3. Len(stack') \in 1 .. Len(stack) /\ Len(stack') + p - 1 = Len(stack)
    BY <1>1, <1>2
  <1>4. stack'[Len(stack')].of = Root
    <2>1. stack # <<>>
      BY <1>1, <1>2
    <2>2. Len(stack') \in 1 .. Len(stack')
      BY <1>3
    <2>3. stack'[Len(stack')].of = stack[Len(stack') + p - 1].of
      BY <2>2, <1>1
    <2> QED
      BY <2>1, <2>3, <1>3 DEF EnterInv
  <1>5. ASSUME NEW n \in 1 .. Len(stack'), n < Len(stack') PROVE stack'[n].of \in visited'
    <2>1. n + p - 1 < Len(stack)
      BY <1>1, <1>2, <1>5
    <2> QED
      BY <2>1, <1>1 DEF EnterInv
  <1>6. ASSUME NEW m \in 1 .. Len(stack'), NEW n \in 1 .. Len(stack'), m < n, n < Len(stack')
        PROVE  stack'[m].of # stack'[n].of
    <2>1. m + p - 1 < n + p - 1 /\ n + p - 1 < Len(stack)
      BY <1>1, <1>2, <1>6
    <2> QED
      BY <2>1, <1>1 DEF EnterInv
  <1> QED
    BY <1>1, <1>4, <1>5, <1>6 DEF EnterInv

\* A frame that has no dependency left or at hand has met all of them.
LEMMA FrameDone ==
    ASSUME NEW f \in Frames, f.left = {}, f.dep = None, NEW w \in Registry, NEW R, FrameMet(w, f, R)
    PROVE  Met(w, R, f.of)
  <1>1. \A d \in w.deps[f.of] : d # None
    BY RegistryFacts DEF Frames
  <1> QED
    BY <1>1 DEF FrameMet, Done, Met

LEMMA ProgressTurns ==
    ASSUME TypeOK, StackInv, ProgressInv, NEW p, NEW g, Continues(p, g),
           UNCHANGED <<res, reg>>, aside \subseteq aside',
           \A r : r # g.res => Of(rows', r) = Of(rows, r),
           p = 2 => Top.left = {} /\ Top.dep = None,
           g.res \notin aside' /\ FrameMet(reg, stack[p], Of(rows, g.res)) => FrameMet(reg, g, Of(rows', g.res))
    PROVE  ProgressInv'
  <1>1. /\ Len(stack) \in Nat /\ DOMAIN stack = 1 .. Len(stack)
        /\ Len(stack') = Len(stack) - p + 1 /\ DOMAIN stack' = 1 .. Len(stack')
        /\ stack'[1] = g
        /\ \A n \in 2 .. Len(stack') : stack'[n] = stack[n + p - 1]
        /\ \A n \in 1 .. Len(stack') : /\ n + p - 1 \in 1 .. Len(stack)
                                       /\ stack'[n].res = stack[n + p - 1].res
                                       /\ stack'[n].of = stack[n + p - 1].of
    BY TurnFacts
  <1>2. /\ p \in {1, 2} /\ p <= Len(stack) /\ g.res = stack[p].res
        /\ 1 \in 1 .. Len(stack') /\ Len(stack) > 0 /\ reg \in Registry
    BY <1>1 DEF Continues, TypeOK
  <1>3. /\ \A r \in DOMAIN res \ aside : res[r] # None /\ ~Framed(stack, r) => Met(reg, Of(rows, r), res[r])
        /\ \A n \in DOMAIN stack :
              stack[n].res \notin aside /\ res[stack[n].res] # None =>
                  FrameMet(reg, stack[n], Of(rows, stack[n].res))
        /\ \A n \in 2 .. Len(stack) : stack[n].res \notin aside => reg.deps[stack[n - 1].of] # {}
    BY DEF ProgressInv
  <1>4. ASSUME NEW r \in DOMAIN res \ aside', res[r] # None, ~Framed(stack', r)
        PROVE  Met(reg, Of(rows', r), res[r])
    <2>1. r # g.res
      BY <1>1, <1>2, <1>4 DEF Framed
    <2>2. Of(rows', r) = Of(rows, r)
      BY <2>1
    <2>3. CASE ~Framed(stack, r)
      BY <1>3, <1>4, <2>2, <2>3
    <2>4. CASE Framed(stack, r)
      <3>1. PICK m \in 1 .. Len(stack) : stack[m].res = r
        BY <1>1, <2>4 DEF Framed
      <3>2. m < p
        <4> SUFFICES ASSUME m >= p PROVE FALSE
          BY <1>2
        <4> DEFINE n == m - p + 1
        <4>1. n \in 1 .. Len(stack') /\ n + p - 1 = m
          BY <1>1, <1>2
        <4>2. stack'[n].res = r
          BY <4>1, <3>1, <1>1
        <4> HIDE DEF n
        <4> QED
          BY <4>1, <4>2, <1>1, <1>4 DEF Framed
      <3>3. m = 1 /\ p = 2
        BY <3>2, <1>2
      <3>4. Top.res = r /\ Top.left = {} /\ Top.dep = None /\ Top \in Frames
        BY <3>1, <3>3, <1>1, <1>2 DEF Top, TypeOK
      <3>5. FrameMet(reg, Top, Of(rows, r))
        BY <3>1, <3>3, <1>1, <1>3, <1>4 DEF Top
      <3>6. res[r] = Top.of
        BY <3>1, <3>3, <1>1, <1>4 DEF Top, StackInv
      <3>7. Met(reg, Of(rows, r), Top.of)
        BY <3>4, <3>5, <1>2, FrameDone
      <3> QED
        BY <2>2, <3>6, <3>7
    <2> QED
      BY <2>3, <2>4
  <1>5. ASSUME NEW n \in 1 .. Len(stack'), stack'[n].res \notin aside', res[stack'[n].res] # None
        PROVE  FrameMet(reg, stack'[n], Of(rows', stack'[n].res))
    <2>1. n + p - 1 \in DOMAIN stack /\ stack'[n].res = stack[n + p - 1].res
      BY <1>1
    <2>2. FrameMet(reg, stack[n + p - 1], Of(rows, stack'[n].res))
      BY <2>1, <1>3, <1>5
    <2>3. CASE n = 1
      <3>1. n + p - 1 = p
        BY <2>3, <1>2
      <3>2. FrameMet(reg, stack[p], Of(rows, g.res)) /\ g.res \notin aside'
        BY <2>2, <2>3, <3>1, <1>1, <1>5
      <3> QED
        BY <2>3, <3>2, <1>1
    <2>4. CASE n # 1
      <3>1. n \in 2 .. Len(stack') /\ n + p - 1 # p
        BY <2>4, <1>1, <1>2
      <3>2. stack'[n] = stack[n + p - 1]
        BY <3>1, <1>1
      <3>3. stack'[n].res # g.res
        BY <3>1, <2>1, <1>1, <1>2 DEF StackInv
      <3>4. Of(rows', stack'[n].res) = Of(rows, stack'[n].res)
        BY <3>3
      <3> QED
        BY <2>2, <3>2, <3>4
    <2> QED
      BY <2>3, <2>4
  <1>6. ASSUME NEW n \in 2 .. Len(stack'), stack'[n].res \notin aside'
        PROVE  reg.deps[stack'[n - 1].of] # {}
    <2>1. n \in 1 .. Len(stack') /\ n - 1 \in 1 .. Len(stack') /\ n + p - 1 \in 2 .. Len(stack)
      <3>1. Len(stack') = Len(stack) - p + 1 /\ Len(stack) \in Nat /\ p \in {1, 2}
        BY <1>1, <1>2
      <3> QED
        BY <3>1
    <2>2. (n - 1) + p - 1 = (n + p - 1) - 1
      BY <1>2
    <2>3. stack'[n].res = stack[n + p - 1].res /\ stack'[n - 1].of = stack[(n + p - 1) - 1].of
      <3>1. stack'[n - 1].of = stack[(n - 1) + p - 1].of
        BY <2>1, <1>1
      <3> QED
        BY <2>1, <2>2, <3>1, <1>1
    <2> QED
      BY <2>1, <2>3, <1>3, <1>6
  <1> QED
    BY <1>1, <1>4, <1>5, <1>6 DEF ProgressInv
-----------------------------------------------------------------------------
\* An assignment is not touched by auto_resolve and users.
LEMMA SlotsStay ==
    ASSUME SlotsInv, UNCHANGED <<reg, assigning>>
    PROVE  SlotsInv'
  <1>1. UNCHANGED <<reg, read, slots, task, calls, anew>>
    BY DEF assigning
  <1> QED
    BY <1>1 DEF SlotsInv

\* auto_resolve fails: nothing is promised of what it was at.
LEMMA FailKeeps ==
    ASSUME ResolutionInv, answer' = "failed", stack' = <<>>, visited' = {}, aside' = aside \cup InHand,
           rows' \subseteq Rows, \A x \in rows' : x.impl \in reg.there,
           \A r : r \notin aside' => Of(rows', r) = Of(rows, r),
           UNCHANGED <<reg, up, res, assigning, bounds>>
    PROVE  ResolutionInv'
  <1>1. SlotsInv'
    BY SlotsStay DEF ResolutionInv
  <1>2. stack' = <<>> /\ stack' \in Seq(Frames) /\ DOMAIN stack' = {} /\ Len(stack') = 0
    OBVIOUS
  <1>3. aside' \subseteq DOMAIN res
    BY DEF ResolutionInv, TypeOK, StackInv, InHand
  <1>4. TypeOK'
    BY <1>2, <1>3 DEF ResolutionInv, TypeOK, Rows, assigning, bounds
  <1>5. StackInv' /\ EnterInv'
    BY <1>2 DEF StackInv, EnterInv
  <1>6. ASSUME NEW r \in DOMAIN res \ aside', res[r] # None PROVE Met(reg, Of(rows', r), res[r])
    <2>1. r \notin aside /\ ~Framed(stack, r)
      BY <1>6 DEF InHand, Framed
    <2> QED
      BY <1>6, <2>1 DEF ResolutionInv, ProgressInv
  <1>7. ProgressInv'
    BY <1>2, <1>6 DEF ProgressInv
  <1>8. RegInv'
    BY DEF ResolutionInv, RegInv, Sound
  <1> QED
    BY <1>1, <1>4, <1>5, <1>7, <1>8 DEF ResolutionInv

LEMMA FailStepKeeps ==
    ASSUME ResolutionInv, Fail
    PROVE  ResolutionInv'
  <1>1. rows \subseteq Rows /\ \A x \in rows : x.impl \in reg.there
    BY DEF ResolutionInv, TypeOK, RegInv, Sound
  <1> QED
    BY <1>1, FailKeeps DEF Fail

\* auto_resolve goes on: what a frame needs for it.
LEMMA TurnKeeps ==
    ASSUME ResolutionInv, NEW p, NEW g, Continues(p, g),
           visited \subseteq visited', visited' \subseteq Impls, rows' \subseteq Rows,
           \A x \in rows' : x.impl \in reg.there, aside \subseteq aside', aside' \subseteq DOMAIN res,
           UNCHANGED <<reg, up, res, answer, assigning, bounds>>,
           \A r : r # g.res => Of(rows', r) = Of(rows, r),
           p = 2 => Top.left = {} /\ Top.dep = None,
           g.res \notin aside' /\ FrameMet(reg, stack[p], Of(rows, g.res)) => FrameMet(reg, g, Of(rows', g.res))
    PROVE  ResolutionInv'
  <1>1. SlotsInv'
    BY SlotsStay DEF ResolutionInv
  <1>2. stack' \in Seq(Frames)
    BY DEF Continues, Turn
  <1>3. TypeOK'
    BY <1>2 DEF ResolutionInv, TypeOK, Rows, assigning, bounds
  <1>4. StackInv' /\ EnterInv'
    BY StackTurns, EntersTurn DEF ResolutionInv
  <1>5. ProgressInv'
    BY ProgressTurns DEF ResolutionInv
  <1>6. RegInv'
    BY DEF ResolutionInv, RegInv, Sound
  <1> QED
    BY <1>1, <1>3, <1>4, <1>5, <1>6 DEF ResolutionInv

LEMMA TopSet ==
    ASSUME ResolutionInv, Running, NEW h, SetTop(h), Becomes(Top, h),
           aside \subseteq aside', aside' \subseteq DOMAIN res,
           UNCHANGED <<reg, up, res, rows, visited, answer, assigning, bounds>>,
           h.res \notin aside' /\ FrameMet(reg, Top, Of(rows, h.res)) => FrameMet(reg, h, Of(rows, h.res))
    PROVE  ResolutionInv'
  <1>1. /\ TypeOK /\ stack \in Seq(Frames) /\ stack # <<>> /\ visited \subseteq Impls /\ rows \subseteq Rows
        /\ \A x \in rows : x.impl \in reg.there
    BY DEF ResolutionInv, TypeOK, Running, RegInv, Sound
  <1>2. h \in Frames /\ FrameShape(h) /\ h.res = Top.res /\ h.of = Top.of
    BY DEF Becomes
  <1>3. Turn(stack, stack', 1, h)
    BY <1>1, <1>2, Replaced DEF SetTop
  <1>4. Continues(1, h)
    BY <1>1, <1>2, <1>3 DEF Continues, Top
  <1>5. rows' \subseteq Rows /\ \A x \in rows' : x.impl \in reg.there
    BY <1>1
  <1>6. \A r : r # h.res => Of(rows', r) = Of(rows, r)
    OBVIOUS
  <1>7. h.res \notin aside' /\ FrameMet(reg, stack[1], Of(rows, h.res)) => FrameMet(reg, h, Of(rows', h.res))
    BY DEF Top
  <1> QED
    BY <1>1, <1>4, <1>5, <1>6, <1>7, TurnKeeps

\* A step that only sets the top frame, as one of the lemmas on frames says.
LEMMA TopStep ==
    ASSUME ResolutionInv, Running, NEW h, SetTop(h), Becomes(Top, h),
           \A R : FrameMet(reg, Top, R) => FrameMet(reg, h, R),
           UNCHANGED <<reg, up, res, rows, visited, answer, aside, assigning, bounds>>
    PROVE  ResolutionInv'
  <1>1. aside' \subseteq DOMAIN res /\ aside \subseteq aside'
    BY DEF ResolutionInv, TypeOK
  <1> QED
    BY <1>1, TopSet
-----------------------------------------------------------------------------
\* The steps of auto_resolve keep the invariant.
LEMMA PickDependencyKeeps ==
    ASSUME ResolutionInv, PickDependency
    PROVE  ResolutionInv'
  <1>1. Running /\ Top.dep = None /\ reg \in Registry
    BY DEF PickDependency, ResolutionInv, TypeOK
  <1>2. Top \in Frames /\ FrameShape(Top)
    BY <1>1, TopFacts DEF ResolutionInv, Running
  <1>3. PICK d \in Top.left :
          \/ Fail
          \/ /\ SetTop(ToDependency(reg, Top, d))
             /\ UNCHANGED <<reg, up, res, rows, visited, answer, aside, assigning, bounds>>
    BY DEF PickDependency, ToDependency
  <1>4. CASE Fail
    BY <1>4, FailStepKeeps
  <1>5. CASE /\ SetTop(ToDependency(reg, Top, d))
             /\ UNCHANGED <<reg, up, res, rows, visited, answer, aside, assigning, bounds>>
    <2>1. PICK f, h : f = Top /\ h = ToDependency(reg, f, d)
      OBVIOUS
    <2>2. f \in Frames /\ FrameShape(f) /\ f.dep = None /\ d \in f.left
      BY <1>1, <1>2, <2>1
    <2>3. Becomes(f, h) /\ \A R : FrameMet(reg, f, R) => FrameMet(reg, h, R)
      BY <2>1, <2>2, <1>1, DependencyPicked
    <2> QED
      BY <1>1, <1>5, <2>1, <2>3, TopStep
  <1> QED
    BY <1>3, <1>4, <1>5

LEMMA PickAgentKeeps ==
    ASSUME ResolutionInv, PickAgent
    PROVE  ResolutionInv'
  <1>1. Running /\ Top.dep # None /\ Top.agent = None /\ reg \in Registry
    BY DEF PickAgent, ResolutionInv, TypeOK
  <1>2. Top \in Frames /\ FrameShape(Top)
    BY <1>1, TopFacts DEF ResolutionInv, Running
  <1>3. \/ Fail
        \/ /\ \A m \in Top.dep.states : ~LegacyRaises(m)
           /\ \E g \in MatchingAgents(reg, Top.dep, Top.ids) : SetTop(ToAgent(Top, g))
           /\ UNCHANGED <<reg, up, res, rows, visited, answer, aside, assigning, bounds>>
    BY DEF PickAgent, ToAgent
  <1>4. CASE Fail
    BY <1>4, FailStepKeeps
  <1>5. CASE /\ \A m \in Top.dep.states : ~LegacyRaises(m)
             /\ \E g \in MatchingAgents(reg, Top.dep, Top.ids) : SetTop(ToAgent(Top, g))
             /\ UNCHANGED <<reg, up, res, rows, visited, answer, aside, assigning, bounds>>
    <2>1. PICK g \in MatchingAgents(reg, Top.dep, Top.ids) : SetTop(ToAgent(Top, g))
      BY <1>5
    <2>2. PICK f, h : f = Top /\ h = ToAgent(f, g)
      OBVIOUS
    <2>3. /\ f \in Frames /\ FrameShape(f) /\ f.dep # None /\ f.agent = None
          /\ g \in MatchingAgents(reg, f.dep, f.ids) /\ \A m \in f.dep.states : ~LegacyRaises(m)
      BY <1>1, <1>2, <1>5, <2>2
    <2>4. Becomes(f, h) /\ \A R : FrameMet(reg, f, R) => FrameMet(reg, h, R)
      BY <2>2, <2>3, <1>1, AgentPicked
    <2> QED
      BY <1>1, <1>5, <2>1, <2>2, <2>4, TopStep
  <1> QED
    BY <1>3, <1>4, <1>5

LEMMA PickDemandKeeps ==
    ASSUME ResolutionInv, PickDemand
    PROVE  ResolutionInv'
  <1>1. /\ Running /\ Top.agent # None /\ Top.key = None /\ reg \in Registry
        /\ UNCHANGED <<reg, up, res, rows, visited, answer, aside, assigning, bounds>>
    BY DEF PickDemand, ResolutionInv, TypeOK
  <1>2. Top \in Frames /\ FrameShape(Top)
    BY <1>1, TopFacts DEF ResolutionInv, Running
  <1>3. PICK f : f = Top
    OBVIOUS
  <1>4. f \in Frames /\ FrameShape(f) /\ f.agent # None /\ f.key = None
    BY <1>1, <1>2, <1>3
  <1>5. PICK h : /\ SetTop(h)
                 /\ \/ f.keys = {} /\ h = NoDependency(f)
                    \/ \E k \in f.keys : h = ToDemand(reg, f, k)
    <2>1. CASE Top.keys = {}
      <3>1. SetTop(NoDependency(Top))
        BY <2>1 DEF PickDemand, NoDependency
      <3> QED
        BY <2>1, <3>1, <1>3
    <2>2. CASE Top.keys # {}
      <3>1. \E k \in Top.keys : SetTop(ToDemand(reg, Top, k))
        BY <2>2 DEF PickDemand, ToDemand
      <3> QED
        BY <3>1, <1>3
    <2> QED
      BY <2>1, <2>2
  <1>6. Becomes(f, h) /\ \A R : FrameMet(reg, f, R) => FrameMet(reg, h, R)
    <2>1. CASE f.keys = {} /\ h = NoDependency(f)
      BY <2>1, <1>1, <1>4, DependencyDone
    <2>2. CASE \E k \in f.keys : h = ToDemand(reg, f, k)
      BY <2>2, <1>1, <1>4, DemandPicked
    <2> QED
      BY <1>5, <2>1, <2>2
  <1> QED
    BY <1>1, <1>3, <1>5, <1>6, TopStep

\* A row is written for the frame at p, which is on top or under an inner call that is
\* through.
LEMMA ResolveKeeps ==
    ASSUME ResolutionInv, NEW p \in {1, 2}, p <= Len(stack), NEW f, f = stack[p], f.key # None,
           NEW i \in f.cands, NEW down \in Nat \cup {None}, NEW seen \in SUBSET Impls, visited \subseteq seen,
           Resolve(f, i, down, seen), f.res \notin aside => Nested(reg, i, down), (down # None <=> p = 2),
           p = 2 => Top.left = {} /\ Top.dep = None
    PROVE  ResolutionInv'
  <1>1. /\ TypeOK /\ StackInv /\ RegInv /\ stack \in Seq(Frames) /\ rows \subseteq Rows /\ Len(stack) \in Nat
        /\ DOMAIN stack = 1 .. Len(stack) /\ stack # <<>> /\ reg \in Registry
        /\ aside \subseteq DOMAIN res
    BY DEF ResolutionInv, TypeOK
  <1>2. f \in Frames /\ FrameShape(f) /\ f.res \in DOMAIN res /\ res[f.res] \in {f.of, None} /\ f.res \in InHand
    BY <1>1 DEF StackInv, InHand
  <1>3. CASE res[f.res] = None \/ i \notin reg.there \/ (down # None /\ res[down] = None)
    <2>1. Fail
      BY <1>3 DEF Resolve
    <2> QED
      BY <2>1, FailStepKeeps
  <1>4. CASE ~(res[f.res] = None \/ i \notin reg.there \/ (down # None /\ res[down] = None))
    <2>1. PICK x : x = RowFor(f, i, down)
      OBVIOUS
    <2>2. /\ rows' = rows \cup {x}
          /\ UNCHANGED <<reg, up, res, assigning, bounds>>
          /\ f.dep.prefered = None =>
                answer' = "failed" /\ stack' = <<>> /\ visited' = {} /\ aside' = aside \cup InHand
          /\ f.dep.prefered # None =>
                /\ visited' = seen /\ answer' = answer /\ aside' = aside
                /\ stack' = <<Counted(f, i)>> \o (IF down = None THEN Tail(stack) ELSE Tail(Tail(stack)))
      BY <1>4, <2>1 DEF Resolve, RowFor, Counted
    <2>3. x \in Rows /\ x.res = f.res /\ x.impl = i
      <3>1. f.dep \in Dependencies /\ i \in Impls /\ f.key \in SlotKeys
        BY <1>2 DEF FrameShape, Frames
      <3>2. f.dep.key \in {d.key : d \in Dependencies}
        BY <3>1
      <3> QED
        BY <2>1, <3>1, <3>2, <1>2 DEF RowFor, Rows
    <2>4. rows' \subseteq Rows /\ \A y \in rows' : y.impl \in reg.there
      BY <2>2, <2>3, <1>1, <1>4 DEF RegInv, Sound
    <2>5. \A r : r # f.res => Of(rows', r) = Of(rows, r)
      BY <2>2, <2>3 DEF Of
    <2>6. CASE f.dep.prefered = None
      <3>1. aside' = aside \cup InHand /\ \A r : r \notin aside' => Of(rows', r) = Of(rows, r)
        BY <2>2, <2>5, <2>6, <1>2
      <3> QED
        BY <2>2, <2>4, <2>6, <3>1, FailKeeps
    <2>7. CASE f.dep.prefered # None
      <3>1. PICK g, R : g = Counted(f, i) /\ R = Of(rows, f.res)
        OBVIOUS
      <3>2. g \in Frames /\ FrameShape(g) /\ g.res = f.res /\ g.of = f.of
        BY <2>7, <3>1, <1>2, CountedShape DEF Becomes
      <3>3. Turn(stack, stack', p, g)
        <4>1. CASE p = 1
          <5>1. down = None
            BY <4>1
          <5>2. stack' = <<g>> \o Tail(stack)
            BY <5>1, <2>2, <2>7, <3>1
          <5> QED
            BY <4>1, <5>2, <3>2, <1>1, Replaced
        <4>2. CASE p = 2
          <5>1. down # None /\ Len(stack) > 1
            BY <4>2, <1>1
          <5>2. stack' = <<g>> \o Tail(Tail(stack))
            BY <5>1, <2>2, <2>7, <3>1
          <5> QED
            BY <4>2, <5>1, <5>2, <3>2, <1>1, Popped
        <4> QED
          BY <4>1, <4>2
      <3>4. Continues(p, g)
        BY <3>2, <3>3 DEF Continues
      <3>5. Of(rows', g.res) = WithRow(R, x)
        BY <2>2, <2>3, <3>1, <3>2 DEF Of, WithRow
      <3>6. ASSUME g.res \notin aside', FrameMet(reg, stack[p], Of(rows, g.res))
            PROVE  FrameMet(reg, g, Of(rows', g.res))
        <4>1. FrameMet(reg, f, R) /\ Nested(reg, i, down)
          BY <3>1, <3>2, <3>6, <2>2, <2>7
        <4>2. Distinct(reg.deps[f.of])
          BY <1>1, <1>2 DEF RegInv, Sound, Frames
        <4>3. FrameMet(reg, g, WithRow(R, x))
          BY <4>1, <4>2, <1>1, <1>2, <2>1, <2>7, <3>1, RowChosen
        <4> QED
          BY <4>3, <3>5
      <3>7. visited' = seen /\ UNCHANGED <<reg, up, res, answer, aside, assigning, bounds>>
        BY <2>2, <2>7
      <3>8. aside' \subseteq DOMAIN res /\ aside \subseteq aside'
        BY <3>7, <1>1
      <3>9. \A r : r # g.res => Of(rows', r) = Of(rows, r)
        BY <2>5, <3>2
      <3> QED
        BY <2>4, <3>4, <3>6, <3>7, <3>8, <3>9, TurnKeeps
    <2> QED
      BY <2>6, <2>7
  <1> QED
    BY <1>3, <1>4

LEMMA TryImplementationTurns ==
    ASSUME ResolutionInv, TryImplementation
    PROVE  \/ ResolutionInv'
           \/ \E i \in Top.cands \ visited : reg.deps[i] # {} /\ Descend(i)
  <1>1. /\ Running /\ Top.key # None /\ TypeOK /\ visited \subseteq Impls /\ reg \in Registry
        /\ aside \subseteq DOMAIN res
    BY DEF TryImplementation, ResolutionInv, TypeOK
  <1>2. /\ Top \in Frames /\ FrameShape(Top) /\ Len(stack) \in Nat /\ Len(stack) > 0 /\ Top.res \in DOMAIN res
    BY <1>1, TopFacts DEF ResolutionInv, Running
  <1>3. PICK f : f = Top
    OBVIOUS
  <1>4. f \in Frames /\ FrameShape(f) /\ f.key # None /\ f = stack[1]
    BY <1>1, <1>2, <1>3 DEF Top
  <1>5. CASE /\ Top.cands = {}
             /\ SetTop([Top EXCEPT !.key = None])
             /\ UNCHANGED <<reg, up, res, rows, visited, answer, aside, assigning, bounds>>
    <2>1. PICK h : h = NoDemand(f)
      OBVIOUS
    <2>2. SetTop(h)
      BY <1>3, <1>5, <2>1 DEF NoDemand
    <2>3. f.cands = {}
      BY <1>3, <1>5
    <2>4. Becomes(f, h) /\ \A R : FrameMet(reg, f, R) => FrameMet(reg, h, R)
      BY <2>1, <2>3, <1>1, <1>4, DemandDone
    <2> QED
      BY <1>1, <1>3, <1>5, <2>2, <2>4, TopStep
  <1>6. CASE \E i \in Top.cands \cap visited :
               /\ SetTop([Top EXCEPT !.cands = @ \ {i}])
               /\ aside' = aside \cup {Top.res}
               /\ UNCHANGED <<reg, up, res, rows, visited, answer, assigning, bounds>>
    <2>1. PICK i \in Top.cands \cap visited :
               /\ SetTop([Top EXCEPT !.cands = @ \ {i}])
               /\ aside' = aside \cup {Top.res}
               /\ UNCHANGED <<reg, up, res, rows, visited, answer, assigning, bounds>>
      BY <1>6
    <2>2. PICK h : h = PastOne(f, i)
      OBVIOUS
    <2>3. SetTop(h)
      BY <1>3, <2>1, <2>2 DEF PastOne
    <2>4. Becomes(Top, h) /\ h.res = Top.res
      <3>1. Becomes(f, h)
        BY <2>2, <1>4, PassedOver
      <3> QED
        BY <3>1, <1>3 DEF Becomes
    <2>5. h.res \in aside' /\ aside' \subseteq DOMAIN res /\ aside \subseteq aside'
      BY <2>1, <2>4, <1>1, <1>2
    <2> QED
      BY <1>1, <2>1, <2>3, <2>4, <2>5, TopSet
  <1>7. CASE \E i \in Top.cands \ visited :
                IF i \notin reg.there THEN Fail
                ELSE IF reg.deps[i] # {} THEN Descend(i)
                ELSE Resolve(Top, i, None, visited \cup {i})
    <2>1. PICK i \in Top.cands \ visited :
                IF i \notin reg.there THEN Fail
                ELSE IF reg.deps[i] # {} THEN Descend(i)
                ELSE Resolve(Top, i, None, visited \cup {i})
      BY <1>7
    <2>2. CASE i \notin reg.there
      <3>1. Fail
        BY <2>1, <2>2
      <3>2. ResolutionInv'
        BY <3>1, FailStepKeeps
      <3> QED
        BY <3>2
    <2>3. CASE i \in reg.there /\ reg.deps[i] # {}
      BY <2>1, <2>3
    <2>4. CASE i \in reg.there /\ reg.deps[i] = {}
      <3>1. PICK seen : seen = visited \cup {i}
        OBVIOUS
      <3>2. Resolve(f, i, None, seen)
        BY <2>1, <2>4, <3>1, <1>3
      <3>3. i \in f.cands /\ seen \in SUBSET Impls /\ visited \subseteq seen
        BY <2>1, <3>1, <1>1, <1>2, <1>3 DEF Frames
      <3>4. Nested(reg, i, None)
        BY <2>4 DEF Nested
      <3>5. 1 \in {1, 2} /\ 1 <= Len(stack) /\ None \in Nat \cup {None} /\ (None # None <=> 1 = 2)
        BY <1>2
      <3>6. ResolutionInv'
        BY <1>4, <3>2, <3>3, <3>4, <3>5, ResolveKeeps
      <3> QED
        BY <3>6
    <2> QED
      BY <2>2, <2>3, <2>4
  <1> QED
    BY <1>5, <1>6, <1>7 DEF TryImplementation

LEMMA ReturnKeeps ==
    ASSUME ResolutionInv, Return
    PROVE  ResolutionInv'
  <1>1. /\ stack # <<>> /\ Top.left = {} /\ Top.dep = None /\ TypeOK /\ visited \in SUBSET Impls
        /\ StackInv /\ reg \in Registry
    BY DEF Return, ResolutionInv, TypeOK, Running
  <1>2. /\ Len(stack) \in Nat /\ Len(stack) > 0 /\ DOMAIN stack = 1 .. Len(stack)
        /\ \A n \in 1 .. Len(stack) : stack[n] \in Frames
        /\ Top \in Frames /\ Top.res \in DOMAIN res /\ res[Top.res] \in {Top.of, None}
    BY <1>1, TopFacts
  <1>3. CASE Len(stack) = 1
    <2>1. /\ answer' = "done" /\ stack' = <<>> /\ visited' = {}
          /\ UNCHANGED <<reg, up, res, rows, aside, assigning, bounds>>
      BY <1>3 DEF Return
    <2>2. SlotsInv' /\ RegInv'
      BY <2>1, SlotsStay DEF ResolutionInv, RegInv
    <2>3. stack' \in Seq(Frames) /\ DOMAIN stack' = {} /\ Len(stack') = 0
      BY <2>1
    <2>4. TypeOK'
      BY <1>1, <2>1, <2>3 DEF TypeOK, Rows, assigning, bounds
    <2>5. StackInv' /\ EnterInv'
      BY <2>1, <2>3 DEF StackInv, EnterInv
    <2>6. ASSUME NEW r \in DOMAIN res \ aside, res[r] # None PROVE Met(reg, Of(rows, r), res[r])
      <3>1. CASE Top.res = r
        <4>1. FrameMet(reg, Top, Of(rows, r))
          BY <3>1, <2>6, <1>2 DEF ResolutionInv, ProgressInv, Top
        <4>2. Met(reg, Of(rows, r), Top.of)
          BY <4>1, <1>1, <1>2, FrameDone
        <4> QED
          BY <4>2, <3>1, <2>6, <1>2
      <3>2. CASE Top.res # r
        <4>1. ~Framed(stack, r)
          BY <3>2, <1>2, <1>3 DEF Framed, Top
        <4> QED
          BY <4>1, <2>6 DEF ResolutionInv, ProgressInv
      <3> QED
        BY <3>1, <3>2
    <2>7. ProgressInv'
      BY <2>1, <2>3, <2>6 DEF ProgressInv
    <2> QED
      BY <2>2, <2>4, <2>5, <2>7 DEF ResolutionInv
  <1>4. CASE Len(stack) # 1
    <2>1. PICK f, i, down, seen : f = stack[2] /\ i = Top.of /\ down = Top.res /\ seen = visited
      OBVIOUS
    <2>2. Resolve(f, i, down, seen) /\ Len(stack) > 1
      BY <1>2, <1>4, <2>1 DEF Return
    <2>3. f.key # None /\ i \in f.cands
      BY <1>1, <2>1, <2>2, <1>2 DEF StackInv, Top, Waits
    <2>4. down \in Nat /\ down # None
      BY <1>2, <2>1, NoneFacts DEF Frames
    <2>5. f.res \notin aside => Nested(reg, i, down)
      <3>1. 2 \in 2 .. Len(stack)
        BY <1>2, <2>2
      <3>2. f.res \notin aside => reg.deps[i] # {}
        BY <3>1, <2>1 DEF ResolutionInv, ProgressInv, Top
      <3> QED
        BY <3>2, <2>4 DEF Nested
    <2>6. (down # None <=> 2 = 2) /\ 2 <= Len(stack) /\ seen \in SUBSET Impls /\ visited \subseteq seen
      BY <1>1, <1>2, <2>1, <2>2, <2>4
    <2> QED
      BY <1>1, <2>1, <2>2, <2>3, <2>4, <2>5, <2>6, ResolveKeeps
  <1> QED
    BY <1>3, <1>4

\* A resolution is created.
LEMMA ResGrows ==
    ASSUME TypeOK, NEW i \in Impls, res' = Append(res, i)
    PROVE  /\ Len(res) \in Nat /\ Len(res') = Len(res) + 1
           /\ res' \in Seq(Impls \cup {None})
           /\ DOMAIN res = 1 .. Len(res) /\ DOMAIN res' = DOMAIN res \cup {Len(res')}
           /\ Len(res') \notin DOMAIN res /\ Len(res') \in Nat
           /\ res'[Len(res')] = i
           /\ \A r \in DOMAIN res : res'[r] = res[r]
           /\ Rows \subseteq Rows'
           /\ Of(rows, Len(res')) = {}
  <1>1. /\ res \in Seq(Impls \cup {None}) /\ rows \subseteq Rows
    BY DEF TypeOK
  <1>2. /\ Len(res) \in Nat /\ DOMAIN res = 1 .. Len(res)
    BY <1>1
  <1>3. res' \in Seq(Impls \cup {None}) /\ Len(res') = Len(res) + 1
    BY <1>1
  <1>4. \A r \in 1 .. Len(res) + 1 : res'[r] = IF r = Len(res) + 1 THEN i ELSE res[r]
    BY <1>1
  <1>5. DOMAIN res' = 1 .. Len(res')
    BY <1>3
  <1>6. Len(res') \notin DOMAIN res /\ DOMAIN res' = DOMAIN res \cup {Len(res')} /\ Len(res') \in Nat
    BY <1>2, <1>3, <1>5
  <1>7. Rows \subseteq Rows'
    BY <1>6 DEF Rows
  <1>8. Of(rows, Len(res')) = {}
    <2>1. \A x \in rows : x.res \in DOMAIN res
      BY <1>1 DEF Rows
    <2> QED
      BY <2>1, <1>6 DEF Of
  <1> QED
    BY <1>2, <1>3, <1>4, <1>5, <1>6, <1>7, <1>8


LEMMA StackGrows ==
    ASSUME TypeOK, StackInv, NEW i \in Impls, NEW g, g = Frame(reg, Len(res'), i),
           res' = Append(res, i), Turn(stack, stack', 0, g), answer' = "running",
           stack # <<>> => Waits(Top, i)
    PROVE  StackInv'
  <1>1. /\ Len(stack) \in Nat /\ DOMAIN stack = 1 .. Len(stack)
    BY DEF TypeOK
  <1>2. /\ stack' \in Seq(Frames) /\ Len(stack') = Len(stack) + 1 /\ stack'[1] = g
        /\ DOMAIN stack' = 1 .. Len(stack')
        /\ \A n \in 2 .. Len(stack') : n - 1 \in 1 .. Len(stack) /\ stack'[n] = stack[n - 1]
    BY <1>1 DEF Turn
  <1>3. /\ DOMAIN res' = DOMAIN res \cup {Len(res')} /\ Len(res') \notin DOMAIN res /\ Len(res') \in Nat
        /\ res'[Len(res')] = i
        /\ \A r \in DOMAIN res : res'[r] = res[r]
    BY ResGrows
  <1>4. g.res = Len(res') /\ g.of = i /\ FrameShape(g)
    BY <1>3, FrameStarts DEF TypeOK
  <1>5. stack' # <<>>
    BY <1>1, <1>2
  <1>6. ASSUME NEW n \in 1 .. Len(stack')
        PROVE  /\ FrameShape(stack'[n]) /\ stack'[n].res \in DOMAIN res'
               /\ res'[stack'[n].res] \in {stack'[n].of, None}
               /\ n # 1 => stack'[n].res \in DOMAIN res
    <2>1. CASE n = 1
      BY <2>1, <1>2, <1>3, <1>4
    <2>2. CASE n # 1
      <3>1. n - 1 \in 1 .. Len(stack) /\ stack'[n] = stack[n - 1]
        BY <2>2, <1>1, <1>2
      <3> QED
        BY <3>1, <2>2, <1>1, <1>3 DEF StackInv
    <2> QED
      BY <2>1, <2>2
  <1>7. ASSUME NEW m \in 1 .. Len(stack'), NEW n \in 1 .. Len(stack'), stack'[m].res = stack'[n].res
        PROVE  m = n
    <2>1. m = 1 <=> n = 1
      BY <1>2, <1>3, <1>4, <1>6, <1>7
    <2>2. CASE m # 1 /\ n # 1
      <3>1. /\ m - 1 \in 1 .. Len(stack) /\ stack'[m] = stack[m - 1]
            /\ n - 1 \in 1 .. Len(stack) /\ stack'[n] = stack[n - 1]
        BY <2>2, <1>1, <1>2
      <3>2. m - 1 = n - 1
        BY <3>1, <1>1, <1>7 DEF StackInv
      <3> QED
        BY <3>2
    <2> QED
      BY <2>1, <2>2
  <1>8. ASSUME NEW n \in 2 .. Len(stack') PROVE Waits(stack'[n], stack'[n - 1].of)
    <2>1. n - 1 \in 1 .. Len(stack) /\ stack'[n] = stack[n - 1]
      BY <1>2
    <2>2. CASE n = 2
      <3>1. stack # <<>> /\ stack'[n - 1].of = i /\ stack'[n] = Top
        BY <2>1, <2>2, <1>1, <1>2, <1>4 DEF Top
      <3> QED
        BY <3>1
    <2>3. CASE n # 2
      <3>1. n - 1 \in 2 .. Len(stack) /\ n - 1 \in 2 .. Len(stack')
        BY <2>1, <2>3, <1>1, <1>2
      <3>2. stack'[n - 1] = stack[(n - 1) - 1]
        BY <3>1, <1>2
      <3> QED
        BY <2>1, <3>1, <3>2 DEF StackInv
    <2> QED
      BY <2>2, <2>3
  <1> QED
    BY <1>2, <1>5, <1>6, <1>7, <1>8 DEF StackInv

LEMMA ProgressGrows ==
    ASSUME TypeOK, StackInv, ProgressInv, NEW i \in Impls, NEW g, g = Frame(reg, Len(res'), i),
           res' = Append(res, i), Turn(stack, stack', 0, g), UNCHANGED <<rows, reg, aside>>,
           stack # <<>> => reg.deps[i] # {}
    PROVE  ProgressInv'
  <1>1. /\ Len(stack) \in Nat /\ DOMAIN stack = 1 .. Len(stack) /\ reg \in Registry
    BY DEF TypeOK
  <1>2. /\ stack' \in Seq(Frames) /\ Len(stack') = Len(stack) + 1 /\ stack'[1] = g
        /\ DOMAIN stack' = 1 .. Len(stack')
        /\ \A n \in 2 .. Len(stack') : n - 1 \in 1 .. Len(stack) /\ stack'[n] = stack[n - 1]
    BY <1>1 DEF Turn
  <1>3. /\ DOMAIN res' = DOMAIN res \cup {Len(res')} /\ Len(res') \notin DOMAIN res /\ Len(res') \in Nat
        /\ \A r \in DOMAIN res : res'[r] = res[r]
        /\ Of(rows, Len(res')) = {}
    BY ResGrows
  <1>4. g.res = Len(res') /\ g.of = i /\ FrameMet(reg, g, {})
    BY <1>1, <1>3, FrameStarts
  <1>5. ASSUME NEW r \in DOMAIN res' \ aside, res'[r] # None, ~Framed(stack', r)
        PROVE  Met(reg, Of(rows, r), res'[r])
    <2>1. r # Len(res')
      BY <1>2, <1>4, <1>1, <1>5 DEF Framed
    <2>2. r \in DOMAIN res /\ res'[r] = res[r]
      BY <2>1, <1>3
    <2>3. ~Framed(stack, r)
      <3> SUFFICES ASSUME NEW n \in 1 .. Len(stack), stack[n].res = r PROVE FALSE
        BY <1>1 DEF Framed
      <3>1. n + 1 \in 2 .. Len(stack') /\ (n + 1) - 1 = n
        BY <1>1, <1>2
      <3>2. stack'[n + 1] = stack[n]
        BY <3>1, <1>2
      <3> QED
        BY <3>1, <3>2, <1>2, <1>5 DEF Framed
    <2> QED
      BY <2>2, <2>3, <1>5 DEF ProgressInv
  <1>6. ASSUME NEW n \in 1 .. Len(stack'), stack'[n].res \notin aside, res'[stack'[n].res] # None
        PROVE  FrameMet(reg, stack'[n], Of(rows, stack'[n].res))
    <2>1. CASE n = 1
      BY <2>1, <1>2, <1>3, <1>4
    <2>2. CASE n # 1
      <3>1. n - 1 \in DOMAIN stack /\ stack'[n] = stack[n - 1]
        BY <2>2, <1>1, <1>2
      <3>2. stack'[n].res \in DOMAIN res
        BY <3>1 DEF StackInv
      <3>3. res[stack'[n].res] # None
        BY <3>2, <1>3, <1>6
      <3> QED
        BY <3>1, <3>2, <3>3, <1>6 DEF ProgressInv
    <2> QED
      BY <2>1, <2>2
  <1>7. ASSUME NEW n \in 2 .. Len(stack'), stack'[n].res \notin aside
        PROVE  reg.deps[stack'[n - 1].of] # {}
    <2>1. n - 1 \in 1 .. Len(stack) /\ stack'[n] = stack[n - 1]
      BY <1>2
    <2>2. CASE n = 2
      <3>1. stack # <<>> /\ stack'[n - 1].of = i
        BY <2>1, <2>2, <1>1, <1>2, <1>4
      <3> QED
        BY <3>1
    <2>3. CASE n # 2
      <3>1. n - 1 \in 2 .. Len(stack) /\ n - 1 \in 2 .. Len(stack')
        BY <2>1, <2>3, <1>1, <1>2
      <3>2. stack'[n - 1] = stack[(n - 1) - 1]
        BY <3>1, <1>2
      <3> QED
        BY <2>1, <3>1, <3>2, <1>7 DEF ProgressInv
    <2> QED
      BY <2>2, <2>3
  <1> QED
    BY <1>2, <1>5, <1>6, <1>7 DEF ProgressInv

LEMMA DescendKeeps ==
    ASSUME ResolutionInv, Running, Top.key # None, NEW i \in Top.cands \ visited,
           reg.deps[i] # {}, Descend(i)
    PROVE  ResolutionInv'
  <1>1. /\ TypeOK /\ StackInv /\ EnterInv /\ ProgressInv /\ SlotsInv /\ RegInv /\ stack # <<>>
        /\ stack \in Seq(Frames) /\ visited \subseteq Impls /\ rows \subseteq Rows /\ reg \in Registry
    BY DEF ResolutionInv, TypeOK, Running
  <1>2. /\ Len(stack) \in Nat /\ Len(stack) > 0 /\ DOMAIN stack = 1 .. Len(stack)
        /\ Top \in Frames /\ answer = "running"
    BY <1>1, TopFacts
  <1>3. i \in Impls /\ i \notin visited /\ Waits(Top, i)
    BY <1>2 DEF Frames, Waits
  <1>4. /\ res' = Append(res, i) /\ visited' = visited \cup {i}
        /\ UNCHANGED <<reg, up, rows, answer, aside, assigning, bounds>>
    BY DEF Descend
  <1>5. /\ Len(res') \in Nat /\ res' \in Seq(Impls \cup {None}) /\ Rows \subseteq Rows'
        /\ DOMAIN res \subseteq DOMAIN res'
    BY <1>1, <1>3, <1>4, ResGrows
  <1>6. PICK g : g = Frame(reg, Len(res'), i)
    OBVIOUS
  <1>7. g \in Frames /\ g.of = i
    BY <1>1, <1>3, <1>5, <1>6, FrameStarts
  <1>8. Turn(stack, stack', 0, g)
    <2>1. stack' = <<g>> \o stack
      BY <1>6 DEF Descend
    <2> QED
      BY <2>1, <1>1, <1>7, Pushed
  <1>9. SlotsInv'
    BY <1>1, <1>4, SlotsStay
  <1>10. TypeOK'
    <2>1. stack' \in Seq(Frames)
      BY <1>8 DEF Turn
    <2>2. rows' \subseteq Rows' /\ aside' \subseteq DOMAIN res'
      BY <1>1, <1>4, <1>5 DEF TypeOK
    <2> QED
      BY <1>1, <1>3, <1>4, <1>5, <2>1, <2>2 DEF TypeOK, assigning, bounds
  <1>11. StackInv'
    BY <1>1, <1>2, <1>3, <1>4, <1>6, <1>8, StackGrows
  <1>12. EnterInv'
    <2>1. /\ Len(stack') = Len(stack) + 1 /\ stack'[1] = g /\ DOMAIN stack' = 1 .. Len(stack')
          /\ \A n \in 2 .. Len(stack') : n - 1 \in 1 .. Len(stack) /\ stack'[n] = stack[n - 1]
      BY <1>2, <1>8 DEF Turn
    <2>2. stack'[Len(stack')].of = Root
      <3>1. stack'[Len(stack')] = stack[Len(stack') - 1] /\ Len(stack') - 1 = Len(stack)
        BY <2>1, <1>2
      <3> QED
        BY <3>1, <1>1 DEF EnterInv
    <2>3. ASSUME NEW n \in 1 .. Len(stack'), n < Len(stack')
          PROVE  /\ stack'[n].of \in visited'
                 /\ n # 1 => stack'[n].of \in visited
      <3>1. CASE n = 1
        BY <3>1, <2>1, <1>4, <1>7
      <3>2. CASE n # 1
        <4>1. n - 1 \in 1 .. Len(stack) /\ stack'[n] = stack[n - 1] /\ n - 1 < Len(stack)
          BY <3>2, <2>1, <2>3, <1>2
        <4> QED
          BY <4>1, <1>1, <1>2, <1>4 DEF EnterInv
      <3> QED
        BY <3>1, <3>2
    <2>4. ASSUME NEW m \in 1 .. Len(stack'), NEW n \in 1 .. Len(stack'), m < n, n < Len(stack')
          PROVE  stack'[m].of # stack'[n].of
      <3>1. CASE m = 1
        BY <3>1, <2>1, <2>3, <2>4, <1>3, <1>7
      <3>2. CASE m # 1
        <4>1. /\ m - 1 \in 1 .. Len(stack) /\ stack'[m] = stack[m - 1]
              /\ n - 1 \in 1 .. Len(stack) /\ stack'[n] = stack[n - 1]
              /\ m - 1 < n - 1 /\ n - 1 < Len(stack)
          BY <3>2, <2>1, <2>4, <1>2
        <4> QED
          BY <4>1, <1>1, <1>2 DEF EnterInv
      <3> QED
        BY <3>1, <3>2
    <2> QED
      BY <2>1, <2>2, <2>3, <2>4 DEF EnterInv
  <1>13. ProgressInv'
    BY <1>1, <1>3, <1>4, <1>6, <1>8, ProgressGrows
  <1>14. RegInv'
    BY <1>1, <1>4 DEF RegInv
  <1> QED
    BY <1>9, <1>10, <1>11, <1>12, <1>13, <1>14 DEF ResolutionInv

LEMMA AutoResolveKeeps ==
    ASSUME ResolutionInv, AutoResolve
    PROVE  ResolutionInv'
  <1>1. /\ TypeOK /\ StackInv /\ EnterInv /\ ProgressInv /\ SlotsInv /\ RegInv
        /\ stack \in Seq(Frames) /\ rows \subseteq Rows /\ Root \in Impls /\ reg \in Registry
    BY ResolutionAssumption DEF ResolutionInv, TypeOK, ResolutionAssumption
  <1>2. /\ res' = Append(res, Root) /\ visited' = {} /\ answer' = "running"
        /\ UNCHANGED <<reg, up, rows, aside, assigning, bounds>>
    BY DEF AutoResolve
  <1>3. stack = <<>> /\ Len(stack) = 0
    BY <1>1 DEF AutoResolve, StackInv
  <1>4. /\ Len(res') \in Nat /\ res' \in Seq(Impls \cup {None}) /\ Rows \subseteq Rows'
        /\ DOMAIN res \subseteq DOMAIN res'
    BY <1>1, <1>2, ResGrows
  <1>5. PICK g : g = Frame(reg, Len(res'), Root)
    OBVIOUS
  <1>6. g \in Frames /\ g.of = Root
    BY <1>1, <1>4, <1>5, FrameStarts
  <1>7. stack' = <<g>>
    BY <1>5 DEF AutoResolve
  <1>8. Turn(stack, stack', 0, g)
    BY <1>3, <1>6, <1>7 DEF Turn
  <1>9. SlotsInv'
    BY <1>1, <1>2, SlotsStay
  <1>10. TypeOK'
    <2>1. rows' \subseteq Rows' /\ aside' \subseteq DOMAIN res' /\ stack' \in Seq(Frames)
      BY <1>1, <1>2, <1>4, <1>6, <1>7 DEF TypeOK
    <2> QED
      BY <1>1, <1>2, <1>4, <2>1 DEF TypeOK, assigning, bounds
  <1>11. StackInv'
    BY <1>1, <1>2, <1>3, <1>5, <1>8, StackGrows
  <1>12. EnterInv'
    <2>1. DOMAIN stack' = {1} /\ Len(stack') = 1 /\ stack'[1] = g
      BY <1>7
    <2> QED
      BY <2>1, <1>6 DEF EnterInv
  <1>13. ProgressInv'
    BY <1>1, <1>2, <1>3, <1>5, <1>8, ProgressGrows
  <1>14. RegInv'
    BY <1>1, <1>2 DEF RegInv
  <1> QED
    BY <1>9, <1>10, <1>11, <1>12, <1>13, <1>14 DEF ResolutionInv

-----------------------------------------------------------------------------
\* The steps of users and registrations keep it.
LEMMA CreateResolutionKeeps ==
    ASSUME ResolutionInv, CreateResolution
    PROVE  ResolutionInv'
  <1>1. /\ TypeOK /\ StackInv /\ EnterInv /\ ProgressInv /\ SlotsInv /\ RegInv
        /\ rows \subseteq Rows /\ Root \in Impls
    BY ResolutionAssumption DEF ResolutionInv, TypeOK, ResolutionAssumption
  <1>2. /\ res' = Append(res, Root) /\ aside' = aside \cup {Len(res')}
        /\ UNCHANGED <<reg, up, rows, visited, stack, answer, assigning, bounds>>
    BY DEF CreateResolution
  <1>3. /\ res' \in Seq(Impls \cup {None}) /\ Rows \subseteq Rows'
        /\ DOMAIN res' = DOMAIN res \cup {Len(res')}
        /\ \A r \in DOMAIN res : res'[r] = res[r]
    BY <1>1, <1>2, ResGrows
  <1>4. SlotsInv' /\ RegInv'
    BY <1>1, <1>2, SlotsStay DEF RegInv
  <1>5. TypeOK'
    <2>1. rows' \subseteq Rows' /\ aside' \subseteq DOMAIN res'
      BY <1>1, <1>2, <1>3 DEF TypeOK
    <2> QED
      BY <1>1, <1>2, <1>3, <2>1 DEF TypeOK, assigning, bounds
  <1>6. StackInv' /\ EnterInv'
    BY <1>1, <1>2, <1>3 DEF StackInv, EnterInv
  <1>7. \A n \in DOMAIN stack : stack[n].res \in DOMAIN res
    BY <1>1 DEF StackInv
  <1>8. ProgressInv'
    <2>1. \A r \in DOMAIN res' \ aside' : res'[r] # None /\ ~Framed(stack, r) => Met(reg, Of(rows, r), res'[r])
      BY <1>1, <1>2, <1>3 DEF ProgressInv
    <2>2. \A n \in DOMAIN stack :
             stack[n].res \notin aside' /\ res'[stack[n].res] # None =>
                 FrameMet(reg, stack[n], Of(rows, stack[n].res))
      BY <1>1, <1>2, <1>3, <1>7 DEF ProgressInv
    <2>3. \A n \in 2 .. Len(stack) : stack[n].res \notin aside' => reg.deps[stack[n - 1].of] # {}
      BY <1>1, <1>2 DEF ProgressInv
    <2> QED
      BY <2>1, <2>2, <2>3, <1>2 DEF ProgressInv
  <1> QED
    BY <1>4, <1>5, <1>6, <1>8 DEF ResolutionInv

\* What changes from w to v concerns only the implementations of T, and the states.
Spared(w, v, T) ==
    /\ v.there \subseteq w.there
    /\ \A j \in Impls \ T : v.deps[j] = w.deps[j]
    /\ \A j \in w.there \ T : /\ j \in v.there /\ v.action[j] = w.action[j]
                              /\ v.catalogue[v.action[j]] = w.catalogue[w.action[j]]

StatesStay(w, v, d) == v.states = w.states \/ d.states = {}

\* What was met by rows that refer to none of T is met still.
LEMMA KeyStays ==
    ASSUME NEW w \in Registry, NEW v, NEW T, Spared(w, v, T), NEW d, NEW k, NEW g,
           NEW R, \A x \in R : x.impl \in w.there \ T, KeyMet(w, R, d, k, g)
    PROVE  KeyMet(v, R, d, k, g)
  <1>1. w.there \subseteq Impls
    BY RegistryFacts
  <1>2. ASSUME NEW x \in Picks(R, d, k), Suits(w, x, d, k, g) PROVE Suits(v, x, d, k, g)
    <2>1. x.impl \in w.there \ T /\ x.impl \in Impls \ T
      BY <1>1, <1>2 DEF Picks
    <2> QED
      BY <2>1, <1>2 DEF Suits, Spared, Nested
  <1> QED
    BY <1>2 DEF KeyMet

LEMMA DepStays ==
    ASSUME NEW w \in Registry, NEW v, NEW T, Spared(w, v, T), NEW d, StatesStay(w, v, d), NEW g,
           NEW R, \A x \in R : x.impl \in w.there \ T
    PROVE  /\ StatesMet(w, d, g) => StatesMet(v, d, g)
           /\ DepMet(w, R, d, g) => DepMet(v, R, d, g)
  <1>1. StatesMet(w, d, g) => StatesMet(v, d, g)
    BY DEF StatesMet, StatesStay, StateMeets
  <1> QED
    BY <1>1, KeyStays DEF DepMet

LEMMA MetStays ==
    ASSUME NEW w \in Registry, NEW v, NEW T, Spared(w, v, T), NEW i, v.deps[i] = w.deps[i],
           \A d \in w.deps[i] : StatesStay(w, v, d), NEW R, \A x \in R : x.impl \in w.there \ T,
           Met(w, R, i)
    PROVE  Met(v, R, i)
  BY DepStays DEF Met

LEMMA FrameStays ==
    ASSUME NEW w \in Registry, NEW v, NEW T, Spared(w, v, T), NEW f \in Frames, FrameShape(f),
           v.deps[f.of] = w.deps[f.of], \A d \in w.deps[f.of] : StatesStay(w, v, d),
           f.dep = None \/ \A t \in T : f.agent # None /\ AgentOf[t] # f.agent,
           NEW R, \A x \in R : x.impl \in w.there \ T, FrameMet(w, f, R)
    PROVE  FrameMet(v, f, R)
  <1>1. Done(v, f, R)
    <2>1. ASSUME NEW d \in w.deps[f.of] \ f.left, d # f.dep PROVE \E g \in Agents : DepMet(v, R, d, g)
      <3>1. PICK g \in Agents : DepMet(w, R, d, g)
        BY <2>1 DEF FrameMet, Done
      <3> QED
        BY <3>1, DepStays
    <2>2. /\ f.left \subseteq w.deps[f.of] /\ f.dep \notin f.left
          /\ f.dep # None => f.dep \in w.deps[f.of]
          /\ \A d \in f.left : \A k \in DOMAIN d.demands : Picks(R, d, k) = {}
      BY DEF FrameMet, Done
    <2> QED
      BY <2>1, <2>2 DEF Done
  <1>2. CASE f.dep = None
    BY <1>1, <1>2 DEF FrameMet, FrameShape
  <1>3. CASE f.dep # None /\ f.agent = None
    <2>1. T = {} /\ f.key = None
      BY <1>3 DEF FrameShape
    <2>2. \A j \in v.there : /\ j \in w.there /\ v.action[j] = w.action[j]
                            /\ v.catalogue[v.action[j]] = w.catalogue[w.action[j]]
      BY <2>1 DEF Spared
    <2>3. Meeting(w, f) /\ f.keys = DOMAIN f.dep.demands /\ \A k \in f.keys : Picks(R, f.dep, k) = {}
      BY <1>3 DEF FrameMet
    <2>4. Meeting(v, f)
      BY <2>2, <2>3 DEF Meeting
    <2> QED
      BY <1>1, <1>3, <2>1, <2>3, <2>4 DEF FrameMet
  <1>4. CASE f.dep # None /\ f.agent # None
    <2>1. \A t \in T : AgentOf[t] # f.agent
      BY <1>4
    <2>2. Meeting(w, f) /\ AtAgent(w, f, R) /\ (f.key # None => AtKey(w, f, R)) /\ f.dep \in w.deps[f.of]
      BY <1>4, <2>1 DEF FrameMet, Done
    <2>3. ASSUME NEW j \in w.there, AgentOf[j] = f.agent
          PROVE  /\ j \in v.there /\ v.action[j] = w.action[j]
                 /\ v.catalogue[v.action[j]] = w.catalogue[w.action[j]]
      BY <2>1, <2>3 DEF Spared
    <2>4. Meeting(v, f)
      <3>1. v.there \subseteq w.there
        BY DEF Spared
      <3> QED
        BY <1>4, <2>2, <2>3, <3>1 DEF Meeting
    <2>5. AtAgent(v, f, R)
      <3>1. StatesMet(v, f.dep, f.agent)
        <4>1. StatesMet(w, f.dep, f.agent) /\ StatesStay(w, v, f.dep)
          BY <2>2 DEF AtAgent
        <4> QED
          BY <4>1, DepStays
      <3>2. \A k \in DOMAIN f.dep.demands \ f.keys : k # f.key => KeyMet(v, R, f.dep, k, f.agent)
        BY <2>2, KeyStays DEF AtAgent
      <3>3. \A k \in f.keys :
               /\ Picks(R, f.dep, k) = {}
               /\ \E i \in v.there : AgentOf[i] = f.agent /\ v.action[i] \in f.ids[k]
        BY <2>2, <2>3 DEF AtAgent
      <3> QED
        BY <2>2, <3>1, <3>2, <3>3 DEF AtAgent
    <2>6. ASSUME f.key # None PROVE AtKey(v, f, R)
      <3>1. AtKey(w, f, R)
        BY <2>2, <2>6
      <3>2. \A x \in Picks(R, f.dep, f.key) : Suits(v, x, f.dep, f.key, f.agent)
        <4> SUFFICES ASSUME NEW x \in Picks(R, f.dep, f.key) PROVE Suits(v, x, f.dep, f.key, f.agent)
          OBVIOUS
        <4>1. Suits(w, x, f.dep, f.key, f.agent) /\ x.impl \in w.there \ T
          BY <3>1 DEF AtKey, Picks
        <4>2. x.impl \in Impls \ T
          BY <4>1, RegistryFacts
        <4> QED
          BY <4>1, <4>2 DEF Suits, Spared, Nested
      <3>3. \A i \in f.cands : i \in v.there /\ v.action[i] \in f.ids[f.key]
        <4>1. \A i \in f.cands : i \in w.there /\ AgentOf[i] = f.agent /\ w.action[i] \in f.ids[f.key]
          BY <3>1, <2>6 DEF AtKey, FrameShape
        <4> QED
          BY <4>1, <2>3
      <3> QED
        BY <3>1, <3>2, <3>3 DEF AtKey
    <2> QED
      BY <1>1, <2>1, <2>4, <2>5, <2>6, <1>4 DEF FrameMet
  <1> QED
    BY <1>2, <1>3, <1>4

\* Resolutions and rows go, and what is registered changes: a resolution that stays and is
\* not set aside keeps what it rests on.
LEMMA LossKeeps ==
    ASSUME ResolutionInv, NEW T, reg' \in Registry, Spared(reg, reg', T), Sound(reg', rows'),
           DOMAIN res' = DOMAIN res, res' \in Seq(Impls \cup {None}),
           \A r \in DOMAIN res : res'[r] \in {res[r], None},
           rows' \subseteq rows, aside \subseteq aside', aside' \subseteq DOMAIN res,
           \A r \in DOMAIN res \ aside' : res'[r] # None =>
               /\ Of(rows', r) = Of(rows, r) /\ \A x \in Of(rows, r) : x.impl \notin T
               /\ reg'.deps[res[r]] = reg.deps[res[r]]
               /\ \A d \in reg.deps[res[r]] : StatesStay(reg, reg', d),
           \A n \in DOMAIN stack : stack[n].res \notin aside' =>
               stack[n].dep = None \/ \A t \in T : stack[n].agent # None /\ AgentOf[t] # stack[n].agent,
           SlotsInv', task' \in {"none", "resolving", "refused", "running", "gone"}, anew' \subseteq Impls,
           edits' \in 0 .. MaxEdits, regs' \in 0 .. MaxRegs,
           UNCHANGED <<up, visited, stack, answer, read, slots, scenario>>
    PROVE  ResolutionInv'
  <1>1. TypeOK /\ StackInv /\ EnterInv /\ ProgressInv /\ RegInv /\ reg \in Registry
    BY DEF ResolutionInv, TypeOK
  <1>2. RegInv'
    BY DEF RegInv
  <1>3. TypeOK'
    <2>1. Rows' = Rows
      BY DEF Rows
    <2>2. rows' \subseteq Rows'
      BY <2>1, <1>1 DEF TypeOK
    <2> QED
      BY <1>1, <2>2 DEF TypeOK
  <1>4. StackInv'
    <2>1. ASSUME NEW n \in DOMAIN stack
          PROVE  stack[n].res \in DOMAIN res' /\ res'[stack[n].res] \in {stack[n].of, None}
      BY <1>1 DEF StackInv
    <2> QED
      BY <2>1, <1>1 DEF StackInv
  <1>5. EnterInv'
    BY <1>1 DEF EnterInv
  <1>6. ASSUME NEW r \in DOMAIN res \ aside', res'[r] # None
        PROVE  /\ res'[r] = res[r] /\ r \notin aside /\ Of(rows', r) = Of(rows, r)
               /\ reg'.deps[res[r]] = reg.deps[res[r]]
               /\ \A x \in Of(rows, r) : x.impl \in reg.there \ T
               /\ \A d \in reg.deps[res[r]] : StatesStay(reg, reg', d)
    BY <1>1, <1>6 DEF RegInv, Sound, Of
  <1>7. ASSUME NEW r \in DOMAIN res \ aside', res'[r] # None, ~Framed(stack, r)
        PROVE  Met(reg', Of(rows', r), res'[r])
    <2>1. Met(reg, Of(rows, r), res[r])
      BY <1>1, <1>6, <1>7 DEF ProgressInv
    <2>2. Met(reg', Of(rows, r), res[r])
      <3>1. PICK w, v, i, R : w = reg /\ v = reg' /\ i = res[r] /\ R = Of(rows, r)
        OBVIOUS
      <3>2. /\ w \in Registry /\ Spared(w, v, T) /\ v.deps[i] = w.deps[i]
            /\ \A d \in w.deps[i] : StatesStay(w, v, d)
            /\ \A x \in R : x.impl \in w.there \ T
            /\ Met(w, R, i)
        BY <1>1, <1>6, <1>7, <2>1, <3>1
      <3>3. Met(v, R, i)
        BY <3>2, MetStays
      <3> QED
        BY <3>1, <3>3
    <2> QED
      BY <2>2, <1>6, <1>7
  <1>8. ASSUME NEW n \in DOMAIN stack, stack[n].res \notin aside', res'[stack[n].res] # None
        PROVE  FrameMet(reg', stack[n], Of(rows', stack[n].res))
    <2>1. /\ stack[n].res \in DOMAIN res \ aside' /\ stack[n] \in Frames /\ FrameShape(stack[n])
          /\ res[stack[n].res] \in {stack[n].of, None}
      BY <1>1, <1>8 DEF StackInv, TypeOK
    <2>2. res[stack[n].res] = stack[n].of
      BY <1>6, <1>8, <2>1
    <2>3. FrameMet(reg, stack[n], Of(rows, stack[n].res))
      BY <2>1, <1>1, <1>6, <1>8 DEF ProgressInv
    <2>4. PICK w, v, f, R : w = reg /\ v = reg' /\ f = stack[n] /\ R = Of(rows, stack[n].res)
      OBVIOUS
    <2>5. /\ w \in Registry /\ Spared(w, v, T) /\ f \in Frames /\ FrameShape(f)
          /\ f.dep = None \/ \A t \in T : f.agent # None /\ AgentOf[t] # f.agent
      BY <1>1, <1>8, <2>1, <2>4
    <2>6. /\ v.deps[f.of] = w.deps[f.of] /\ \A d \in w.deps[f.of] : StatesStay(w, v, d)
          /\ \A x \in R : x.impl \in w.there \ T
      BY <1>6, <1>8, <2>1, <2>2, <2>4
    <2>7. FrameMet(v, f, R)
      BY <2>3, <2>4, <2>5, <2>6, FrameStays
    <2> QED
      BY <2>7, <2>4, <2>1, <1>6, <1>8
  <1>9. ASSUME NEW n \in 2 .. Len(stack), stack[n].res \notin aside' PROVE reg'.deps[stack[n - 1].of] # {}
    <2>1. /\ n \in DOMAIN stack /\ n - 1 \in DOMAIN stack /\ stack[n] \in Frames /\ stack[n - 1] \in Frames
          /\ FrameShape(stack[n]) /\ Waits(stack[n], stack[n - 1].of)
      <3>1. Len(stack) \in Nat /\ DOMAIN stack = 1 .. Len(stack)
        BY <1>1 DEF TypeOK
      <3>2. n \in DOMAIN stack /\ n - 1 \in DOMAIN stack
        BY <3>1
      <3> QED
        BY <3>2, <1>1 DEF StackInv, TypeOK
    <2>2. stack[n].dep # None /\ AgentOf[stack[n - 1].of] = stack[n].agent
      BY <2>1 DEF FrameShape, Waits
    <2>3. stack[n - 1].of \in Impls \ T
      BY <2>1, <2>2, <1>9 DEF Frames
    <2>4. reg.deps[stack[n - 1].of] # {}
      BY <1>1, <1>9 DEF ProgressInv
    <2> QED
      BY <2>3, <2>4 DEF Spared
  <1>10. ProgressInv'
    BY <1>7, <1>8, <1>9 DEF ProgressInv
  <1> QED
    BY <1>2, <1>3, <1>4, <1>5, <1>10 DEF ResolutionInv

\* The resolutions that fall, and those that lose rows to it.
LEMMA FallFacts ==
    ASSUME TypeOK, NEW rs, Fall(rs)
    PROVE  /\ DOMAIN res' = DOMAIN res /\ res' \in Seq(Impls \cup {None})
           /\ \A r \in DOMAIN res : res'[r] \in {res[r], None} /\ (r \in rs => res'[r] = None)
           /\ rows' \subseteq rows /\ Above(rs) \subseteq DOMAIN res
           /\ \A r \in DOMAIN res \ Above(rs) : res'[r] # None => Of(rows', r) = Of(rows, r)
  <1>1. res \in Seq(Impls \cup {None}) /\ rows \subseteq Rows
    BY DEF TypeOK
  <1>2. /\ res' = [r \in DOMAIN res |-> IF r \in rs THEN None ELSE res[r]]
        /\ rows' = {x \in rows : x.res \notin rs /\ x.down \notin rs}
    BY DEF Fall
  <1>3. /\ DOMAIN res' = DOMAIN res /\ \A r \in DOMAIN res : res'[r] = IF r \in rs THEN None ELSE res[r]
    BY <1>2
  <1>4. res' \in Seq(Impls \cup {None})
    <2>1. /\ Len(res) \in Nat /\ DOMAIN res = 1 .. Len(res)
          /\ \A r \in DOMAIN res : res[r] \in Impls \cup {None}
      BY <1>1
    <2>2. res' \in [1 .. Len(res) -> Impls \cup {None}]
      BY <2>1, <1>2
    <2> QED
      BY <2>1, <2>2, SeqDef
  <1>5. Above(rs) \subseteq DOMAIN res
    <2>1. \A x \in rows : x.res \in DOMAIN res
      BY <1>1 DEF Rows
    <2> QED
      BY <2>1 DEF Above
  <1>6. ASSUME NEW r \in DOMAIN res \ Above(rs), res'[r] # None
        PROVE  Of(rows', r) = Of(rows, r)
    <2>1. r \notin rs
      BY <1>3, <1>6
    <2>2. \A x \in rows : x.res = r => x.down \notin rs
      BY <1>6 DEF Above
    <2> QED
      BY <2>1, <2>2, <1>2 DEF Of
  <1> QED
    BY <1>2, <1>3, <1>4, <1>5, <1>6

\* Rows go, and nothing else.
LEMMA RowsGo ==
    ASSUME ResolutionInv, reg' = reg, DOMAIN res' = DOMAIN res, res' \in Seq(Impls \cup {None}),
           \A r \in DOMAIN res : res'[r] \in {res[r], None},
           rows' \subseteq rows, aside \subseteq aside', aside' \subseteq DOMAIN res,
           \A r \in DOMAIN res \ aside' : res'[r] # None => Of(rows', r) = Of(rows, r),
           edits < MaxEdits, edits' = edits + 1,
           UNCHANGED <<up, visited, stack, answer, assigning, regs, scenario>>
    PROVE  ResolutionInv'
  <1>1. TypeOK /\ RegInv
    BY DEF ResolutionInv
  <1>2. PICK T : T = {}
    OBVIOUS
  <1>3. reg' \in Registry /\ Spared(reg, reg', T) /\ Sound(reg', rows')
    BY <1>1, <1>2 DEF TypeOK, RegInv, Sound, Spared
  <1>4. \A r \in DOMAIN res \ aside' : res'[r] # None =>
               /\ Of(rows', r) = Of(rows, r) /\ \A x \in Of(rows, r) : x.impl \notin T
               /\ reg'.deps[res[r]] = reg.deps[res[r]]
               /\ \A d \in reg.deps[res[r]] : StatesStay(reg, reg', d)
    BY <1>2 DEF StatesStay
  <1>5. SlotsInv'
    BY SlotsStay DEF ResolutionInv
  <1>6. /\ task' \in {"none", "resolving", "refused", "running", "gone"} /\ anew' \subseteq Impls
        /\ edits' \in 0 .. MaxEdits /\ regs' \in 0 .. MaxRegs
    BY <1>1, ResolutionAssumption DEF TypeOK, assigning, ResolutionAssumption
  <1>7. \A n \in DOMAIN stack : stack[n].res \notin aside' =>
               stack[n].dep = None \/ \A t \in T : stack[n].agent # None /\ AgentOf[t] # stack[n].agent
    BY <1>2
  <1>8. UNCHANGED <<read, slots>>
    BY DEF assigning
  <1> QED
    BY <1>3, <1>4, <1>5, <1>6, <1>7, <1>8, LossKeeps

LEMMA UpdateResolutionKeeps ==
    ASSUME ResolutionInv, NEW r \in DOMAIN res, UpdateResolution(r)
    PROVE  ResolutionInv'
  <1>1. res \in Seq(Impls \cup {None}) /\ aside \subseteq DOMAIN res
    BY DEF ResolutionInv, TypeOK
  <1>2. /\ edits < MaxEdits /\ edits' = edits + 1
        /\ rows' = {x \in rows : x.res # r} /\ aside' = aside \cup {r}
        /\ UNCHANGED <<reg, up, res, visited, stack, answer, assigning, regs, scenario>>
    BY DEF UpdateResolution
  <1>3. \A q \in DOMAIN res \ aside' : Of(rows', q) = Of(rows, q)
    BY <1>2 DEF Of
  <1>4. rows' \subseteq rows /\ aside \subseteq aside' /\ aside' \subseteq DOMAIN res
    BY <1>1, <1>2
  <1> QED
    BY <1>1, <1>2, <1>3, <1>4, RowsGo

LEMMA DeleteResolutionKeeps ==
    ASSUME ResolutionInv, NEW r \in DOMAIN res, DeleteResolution(r)
    PROVE  ResolutionInv'
  <1>1. TypeOK /\ aside \subseteq DOMAIN res
    BY DEF ResolutionInv, TypeOK
  <1>2. PICK rs : rs = {r}
    OBVIOUS
  <1>3. /\ edits < MaxEdits /\ edits' = edits + 1 /\ Fall(rs) /\ aside' = aside \cup Above(rs)
        /\ UNCHANGED <<reg, up, visited, stack, answer, assigning, regs, scenario>>
    BY <1>2 DEF DeleteResolution
  <1>4. /\ DOMAIN res' = DOMAIN res /\ res' \in Seq(Impls \cup {None})
        /\ \A q \in DOMAIN res : res'[q] \in {res[q], None}
        /\ rows' \subseteq rows /\ Above(rs) \subseteq DOMAIN res
        /\ \A q \in DOMAIN res \ Above(rs) : res'[q] # None => Of(rows', q) = Of(rows, q)
    BY <1>1, <1>3, FallFacts
  <1>5. /\ aside \subseteq aside' /\ aside' \subseteq DOMAIN res
        /\ \A q \in DOMAIN res \ aside' : res'[q] # None => Of(rows', q) = Of(rows, q)
    BY <1>1, <1>3, <1>4
  <1> QED
    BY <1>3, <1>4, <1>5, RowsGo

\* Nothing is at an implementation that no resolution leans on.
LEMMA LeaningFacts ==
    ASSUME TypeOK, StackInv, NEW T
    PROVE  /\ Leaning(T) \subseteq DOMAIN res
           /\ \A r \in DOMAIN res \ Leaning(T) : \A x \in Of(rows, r) : x.impl \notin T
           /\ \A n \in DOMAIN stack : stack[n].res \notin Leaning(T) =>
                 stack[n].dep = None \/ \A t \in T : stack[n].agent # None /\ AgentOf[t] # stack[n].agent
  <1>1. (\A x \in rows : x.res \in DOMAIN res) /\ \A n \in DOMAIN stack : stack[n].res \in DOMAIN res
    BY DEF TypeOK, Rows, StackInv
  <1>2. Leaning(T) \subseteq DOMAIN res
    BY <1>1 DEF Leaning
  <1>3. ASSUME NEW x \in rows, x.impl \in T PROVE x.res \in Leaning(T)
    BY <1>3 DEF Leaning
  <1>4. \A r \in DOMAIN res \ Leaning(T) : \A x \in Of(rows, r) : x.impl \notin T
    BY <1>3 DEF Of
  <1>5. ASSUME NEW n \in DOMAIN stack, stack[n].dep # None,
               stack[n].agent = None \/ \E t \in T : AgentOf[t] = stack[n].agent
        PROVE  stack[n].res \in Leaning(T)
    <2>1. stack[n].agent \in {None} \cup {AgentOf[t] : t \in T}
      BY <1>5
    <2> QED
      BY <1>5, <2>1 DEF Leaning
  <1> QED
    BY <1>2, <1>4, <1>5

\* A slot keeps what it holds while no implementation comes and those that change are noted.
LEMMA SlotsKept ==
    ASSUME SlotsInv, UNCHANGED <<read, slots, calls>>, task' \in {task, "gone"},
           \/ slots = <<>>
           \/ \A i \in Impls : i \in reg'.there \ anew' => /\ i \in reg.there \ anew
                                                          /\ reg'.action[i] = reg.action[i]
                                                          /\ reg'.deps[i] = reg.deps[i]
    PROVE  SlotsInv'
  <1>1. ASSUME NEW d \in read.deps, d.key \in DOMAIN slots PROVE SlotMeets(reg', anew', d, slots[d.key])
    <2>1. slots # <<>> /\ SlotMeets(reg, anew, d, slots[d.key])
      BY <1>1 DEF SlotsInv
    <2>2. ASSUME NEW k, NEW i \in Impls, Keeps(reg, anew, d, k, i) PROVE Keeps(reg', anew', d, k, i)
      BY <2>1, <2>2 DEF Keeps
    <2> QED
      BY <2>1, <2>2 DEF SlotMeets
  <1>2. task' = "running" => task = "running"
    OBVIOUS
  <1>3. task' = "none" => task = "none"
    OBVIOUS
  <1> QED
    BY <1>1, <1>2, <1>3 DEF SlotsInv

LEMMA DropKeeps ==
    ASSUME ResolutionInv, NEW i \in Impls, Drop(i)
    PROVE  ResolutionInv'
  <1>1. TypeOK /\ RegInv /\ StackInv /\ SlotsInv /\ reg \in Registry /\ aside \subseteq DOMAIN res
    BY DEF ResolutionInv, TypeOK
  <1>2. PICK T, rs : T = {i} /\ rs = Resolutions(i)
    OBVIOUS
  <1>3. /\ \A x \in rows : x.impl # i
        /\ reg' = [reg EXCEPT !.there = @ \ {i}]
        /\ Fall(rs) /\ aside' = aside \cup Leaning(T) \cup Above(rs)
        /\ task' \in {task, "gone"}
        /\ UNCHANGED <<up, visited, stack, answer, read, slots, calls, anew, bounds>>
    BY <1>2 DEF Drop, TaskFalls
  <1>4. /\ reg'.there = reg.there \ {i} /\ reg'.action = reg.action /\ reg'.deps = reg.deps
        /\ reg'.catalogue = reg.catalogue /\ reg'.states = reg.states /\ reg' \in Registry
    BY <1>1, <1>3 DEF Registry
  <1>5. Spared(reg, reg', T)
    BY <1>2, <1>4 DEF Spared
  <1>6. /\ DOMAIN res' = DOMAIN res /\ res' \in Seq(Impls \cup {None})
        /\ \A r \in DOMAIN res : res'[r] \in {res[r], None}
        /\ rows' \subseteq rows /\ Above(rs) \subseteq DOMAIN res
        /\ \A r \in DOMAIN res \ Above(rs) : res'[r] # None => Of(rows', r) = Of(rows, r)
    BY <1>1, <1>3, FallFacts
  <1>7. /\ Leaning(T) \subseteq DOMAIN res
        /\ \A r \in DOMAIN res \ Leaning(T) : \A x \in Of(rows, r) : x.impl \notin T
        /\ \A n \in DOMAIN stack : stack[n].res \notin Leaning(T) =>
              stack[n].dep = None \/ \A t \in T : stack[n].agent # None /\ AgentOf[t] # stack[n].agent
    BY <1>1, LeaningFacts
  <1>8. Sound(reg', rows')
    <2>1. \A x \in rows' : x.impl \in reg.there \ {i}
      BY <1>1, <1>3, <1>6 DEF RegInv, Sound
    <2> QED
      BY <1>1, <1>4, <2>1 DEF RegInv, Sound
  <1>9. SlotsInv'
    BY <1>1, <1>3, <1>4, SlotsKept
  <1>10. \A r \in DOMAIN res \ aside' : res'[r] # None =>
               /\ Of(rows', r) = Of(rows, r) /\ \A x \in Of(rows, r) : x.impl \notin T
               /\ reg'.deps[res[r]] = reg.deps[res[r]]
               /\ \A d \in reg.deps[res[r]] : StatesStay(reg, reg', d)
    BY <1>3, <1>4, <1>6, <1>7 DEF StatesStay
  <1>11. /\ aside \subseteq aside' /\ aside' \subseteq DOMAIN res
         /\ \A n \in DOMAIN stack : stack[n].res \notin aside' =>
              stack[n].dep = None \/ \A t \in T : stack[n].agent # None /\ AgentOf[t] # stack[n].agent
    BY <1>1, <1>3, <1>6, <1>7
  <1>12. /\ task' \in {"none", "resolving", "refused", "running", "gone"} /\ anew' \subseteq Impls
         /\ edits' \in 0 .. MaxEdits /\ regs' \in 0 .. MaxRegs
         /\ UNCHANGED <<up, visited, stack, answer, read, slots, scenario>>
    BY <1>1, <1>3 DEF TypeOK, bounds
  <1> QED
    BY <1>4, <1>5, <1>6, <1>8, <1>9, <1>10, <1>11, <1>12, LossKeeps

LEMMA RegisterStatesKeeps ==
    ASSUME ResolutionInv, NEW decl \in StateDeclarations, RegisterStates(decl)
    PROVE  ResolutionInv'
  <1>1. TypeOK /\ RegInv /\ SlotsInv /\ reg \in Registry /\ aside \subseteq DOMAIN res
    BY DEF ResolutionInv, TypeOK
  <1>2. PICK T : T = {}
    OBVIOUS
  <1>3. PICK hit : hit = {r \in DOMAIN res : res[r] # None /\ \E d \in reg.deps[res[r]] : d.states # {}}
    OBVIOUS
  <1>4. /\ regs < MaxRegs /\ regs' = regs + 1
        /\ reg' = [reg EXCEPT !.states[decl.agent] = decl.states]
        /\ aside' = aside \cup hit
        /\ UNCHANGED <<up, res, rows, visited, stack, answer, assigning, edits, scenario>>
    BY <1>3 DEF RegisterStates
  <1>5. /\ reg'.there = reg.there /\ reg'.action = reg.action /\ reg'.deps = reg.deps
        /\ reg'.catalogue = reg.catalogue /\ reg' \in Registry
    <2>1. decl.agent \in Agents /\ decl.states \in StateSets
      BY ResolutionAssumption DEF ResolutionAssumption, StateSets
    <2> QED
      BY <1>1, <1>4, <2>1 DEF Registry
  <1>6. Spared(reg, reg', T) /\ Sound(reg', rows')
    BY <1>1, <1>4, <1>5 DEF Spared, RegInv, Sound
  <1>7. SlotsInv'
    BY <1>1, <1>4, <1>5, SlotsKept DEF assigning
  <1>8. \A r \in DOMAIN res \ aside' : res'[r] # None =>
               /\ Of(rows', r) = Of(rows, r) /\ \A x \in Of(rows, r) : x.impl \notin T
               /\ reg'.deps[res[r]] = reg.deps[res[r]]
               /\ \A d \in reg.deps[res[r]] : StatesStay(reg, reg', d)
    BY <1>2, <1>3, <1>4, <1>5 DEF StatesStay
  <1>9. /\ aside \subseteq aside' /\ aside' \subseteq DOMAIN res
        /\ \A n \in DOMAIN stack : stack[n].res \notin aside' =>
              stack[n].dep = None \/ \A t \in T : stack[n].agent # None /\ AgentOf[t] # stack[n].agent
    BY <1>1, <1>2, <1>3, <1>4
  <1>10. /\ task' \in {"none", "resolving", "refused", "running", "gone"} /\ anew' \subseteq Impls
         /\ edits' \in 0 .. MaxEdits /\ regs' \in 0 .. MaxRegs
         /\ UNCHANGED <<up, visited, stack, answer, read, slots, scenario>>
    BY <1>1, <1>4, ResolutionAssumption DEF TypeOK, assigning, ResolutionAssumption
  <1>11. /\ DOMAIN res' = DOMAIN res /\ res' \in Seq(Impls \cup {None})
         /\ \A r \in DOMAIN res : res'[r] \in {res[r], None}
         /\ rows' \subseteq rows
    BY <1>1, <1>4 DEF TypeOK
  <1> QED
    BY <1>5, <1>6, <1>7, <1>8, <1>9, <1>10, <1>11, LossKeeps

\* What a declaration makes of w, what is registered.
Redeclared(w, decl, v) ==
    LET i     == decl.impl
        old   == w.action[i]
        falls == old # decl.action /\ {j \in w.there : w.action[j] = old} = {i}
    IN  v = [there |-> w.there, action |-> [w.action EXCEPT ![i] = decl.action],
             deps |-> [w.deps EXCEPT ![i] =
                         decl.deps \cup {d \in w.deps[i] : ~falls /\ \A e \in decl.deps : e.key # d.key}],
             catalogue |-> [x \in DOMAIN w.catalogue |-> IF x = decl.action THEN decl.row
                                                        ELSE IF falls /\ x = old THEN None ELSE w.catalogue[x]],
             states |-> w.states]

\* It concerns the implementation and those of the action it turns to.
LEMMA RegisterFacts ==
    ASSUME NEW w \in Registry, NEW rws, Sound(w, rws), NEW decl \in Declarations, NEW i, i = decl.impl,
           NEW v, Redeclared(w, decl, v), NEW T, T = {j \in w.there : w.action[j] = decl.action} \cup {i}
    PROVE  /\ v \in Registry /\ Sound(v, rws) /\ v.there = w.there /\ v.states = w.states
           /\ \A j \in Impls : j # i => v.action[j] = w.action[j] /\ v.deps[j] = w.deps[j]
           /\ Spared(w, v, T)
  <1> PICK old, falls, D, C :
         /\ old = w.action[i]
         /\ falls = (old # decl.action /\ {j \in w.there : w.action[j] = old} = {i})
         /\ D = decl.deps \cup {d \in w.deps[i] : ~falls /\ \A e \in decl.deps : e.key # d.key}
         /\ C = [x \in DOMAIN w.catalogue |-> IF x = decl.action THEN decl.row
                                              ELSE IF falls /\ x = old THEN None ELSE w.catalogue[x]]
    OBVIOUS
  <1> v = [there |-> w.there, action |-> [w.action EXCEPT ![i] = decl.action],
           deps |-> [w.deps EXCEPT ![i] = D], catalogue |-> C, states |-> w.states]
    BY DEF Redeclared
  <1>1. /\ i \in Impls /\ decl.action \in Names /\ decl.row.key = Catalogue[decl.action].key
        /\ decl.row \in ActionRows /\ decl.row # None
        /\ decl.deps \subseteq Dependencies /\ Distinct(decl.deps)
    <2>1. decl.deps \in DependencySets /\ decl.row \in ActionRows
      BY DEF DependencySets, ActionRows
    <2>2. Distinct(decl.deps) /\ decl.row # None
      BY <2>1, ResolutionAssumption DEF ResolutionAssumption, Distinct
    <2> QED
      BY <2>1, <2>2, ResolutionAssumption DEF ResolutionAssumption, Names, Dependencies
  <1>2. /\ w.there \in SUBSET Impls /\ w.action \in [Impls -> Names]
        /\ w.deps \in [Impls -> SUBSET Dependencies]
        /\ w.catalogue \in [Names -> ActionRows \cup {None}]
        /\ w.states \in [Agents -> StateSets]
    BY RegistryFacts
  <1>4. /\ v.there = w.there /\ v.states = w.states
        /\ v.action = [w.action EXCEPT ![i] = decl.action]
        /\ v.deps = [w.deps EXCEPT ![i] = D]
        /\ v.catalogue = C
    OBVIOUS
  <1>5. D \subseteq Dependencies /\ Distinct(D)
    <2>1. Distinct(w.deps[i])
      BY <1>1 DEF Sound
    <2> QED
      BY <1>1, <1>2, <2>1 DEF Distinct
  <1>6. C \in [Names -> ActionRows \cup {None}]
    BY <1>1, <1>2
  <1>7. v.action \in [Impls -> Names] /\ v.deps \in [Impls -> SUBSET Dependencies]
    BY <1>1, <1>2, <1>4, <1>5
  <1>8. v \in Registry
    BY <1>2, <1>4, <1>6, <1>7, v = [there |-> v.there, action |-> v.action, deps |-> v.deps, catalogue |-> v.catalogue, states |-> v.states] DEF Registry
  <1>9. /\ v.action[i] = decl.action /\ v.deps[i] = D
        /\ \A j \in Impls : j # i => v.action[j] = w.action[j] /\ v.deps[j] = w.deps[j]
    BY <1>1, <1>2, <1>4
  <1>10. ASSUME NEW j \in w.there, j # i
         PROVE  v.catalogue[v.action[j]] = IF w.action[j] = decl.action THEN decl.row
                                           ELSE w.catalogue[w.action[j]]
    <2>1. v.action[j] = w.action[j] /\ w.action[j] \in Names
      BY <1>2, <1>9, <1>10
    <2>2. ~(falls /\ w.action[j] = old)
      BY <1>10
    <2> QED
      BY <1>2, <1>4, <2>1, <2>2
  <1>11. v.catalogue[v.action[i]] = decl.row
    BY <1>1, <1>2, <1>4, <1>9
  <1>12. Sound(v, rws)
    <2>1. \A j \in v.there : v.catalogue[v.action[j]] # None
      BY <1>1, <1>4, <1>10, <1>11 DEF Sound
    <2>2. \A x \in Names : v.catalogue[x] # None => v.catalogue[x].key = Catalogue[x].key
      BY <1>1, <1>2, <1>4 DEF Sound
    <2>3. \A j \in Impls : Distinct(v.deps[j])
      BY <1>5, <1>9 DEF Sound
    <2>4. \A x \in rws : x.impl \in v.there
      BY <1>4 DEF Sound
    <2> QED
      BY <2>1, <2>2, <2>3, <2>4 DEF Sound
  <1>13. Spared(w, v, T)
    BY <1>2, <1>4, <1>9, <1>10 DEF Spared
  <1> QED
    BY <1>4, <1>8, <1>9, <1>12, <1>13

LEMMA RegisterKeeps ==
    ASSUME ResolutionInv, NEW decl \in Declarations, Register(decl)
    PROVE  ResolutionInv'
  <1>1. TypeOK /\ RegInv /\ StackInv /\ SlotsInv /\ reg \in Registry /\ aside \subseteq DOMAIN res
    BY DEF ResolutionInv, TypeOK
  <1>2. PICK i, old, falls, T, rs :
           /\ i = decl.impl /\ old = reg.action[i]
           /\ falls = (old # decl.action /\ {j \in reg.there : reg.action[j] = old} = {i})
           /\ T = {j \in reg.there : reg.action[j] = decl.action} \cup {i}
           /\ rs = IF falls THEN Resolutions(i) ELSE {}
    OBVIOUS
  <1>3. /\ regs < MaxRegs /\ regs' = regs + 1
        /\ reg' = [reg EXCEPT
                     !.action[i] = decl.action,
                     !.deps[i] = decl.deps \cup {d \in @ : ~falls /\ \A e \in decl.deps : e.key # d.key},
                     !.catalogue = [x \in DOMAIN @ |-> IF x = decl.action THEN decl.row
                                                       ELSE IF falls /\ x = old THEN None ELSE @[x]]]
        /\ Fall(rs)
        /\ aside' = aside \cup Leaning(T) \cup Resolutions(i) \cup Above(rs)
        /\ task' \in {task, "gone"}
        /\ anew' = IF task = "none" THEN anew ELSE anew \cup {i}
        /\ UNCHANGED <<up, visited, stack, answer, read, slots, calls, edits, scenario>>
    BY <1>2 DEF Register, TaskFalls
  <1>4. i \in Impls
    BY <1>2, ResolutionAssumption DEF ResolutionAssumption
  <1>5. /\ reg' \in Registry /\ Sound(reg', rows) /\ reg'.there = reg.there /\ reg'.states = reg.states
        /\ \A j \in Impls : j # i => reg'.action[j] = reg.action[j] /\ reg'.deps[j] = reg.deps[j]
        /\ Spared(reg, reg', T)
    <2>1. PICK w, v, rws : w = reg /\ v = reg' /\ rws = rows
      OBVIOUS
    <2>2. /\ w \in Registry /\ Sound(w, rws) /\ i = decl.impl
          /\ T = {j \in w.there : w.action[j] = decl.action} \cup {i}
      BY <1>1, <1>2, <2>1 DEF RegInv
    <2>3. Redeclared(w, decl, v)
      BY <1>1, <1>2, <1>3, <2>1 DEF Registry, Redeclared
    <2>4. /\ v \in Registry /\ Sound(v, rws) /\ v.there = w.there /\ v.states = w.states
          /\ \A j \in Impls : j # i => v.action[j] = w.action[j] /\ v.deps[j] = w.deps[j]
          /\ Spared(w, v, T)
      BY <2>2, <2>3, RegisterFacts
    <2> QED
      BY <1>2, <2>1, <2>4
  <1>6. /\ DOMAIN res' = DOMAIN res /\ res' \in Seq(Impls \cup {None})
        /\ \A r \in DOMAIN res : res'[r] \in {res[r], None}
        /\ rows' \subseteq rows /\ Above(rs) \subseteq DOMAIN res
        /\ \A r \in DOMAIN res \ Above(rs) : res'[r] # None => Of(rows', r) = Of(rows, r)
    BY <1>1, <1>3, FallFacts
  <1>7. /\ Leaning(T) \subseteq DOMAIN res
        /\ \A r \in DOMAIN res \ Leaning(T) : \A x \in Of(rows, r) : x.impl \notin T
        /\ \A n \in DOMAIN stack : stack[n].res \notin Leaning(T) =>
              stack[n].dep = None \/ \A t \in T : stack[n].agent # None /\ AgentOf[t] # stack[n].agent
    BY <1>1, LeaningFacts
  <1>8. Sound(reg', rows')
    BY <1>5, <1>6 DEF Sound
  <1>9. SlotsInv'
    <2>1. task = "none" => slots = <<>>
      BY <1>1 DEF SlotsInv
    <2>2. ASSUME task # "none", NEW j \in Impls, j \in reg'.there \ anew'
          PROVE  j \in reg.there \ anew /\ reg'.action[j] = reg.action[j] /\ reg'.deps[j] = reg.deps[j]
      BY <1>3, <1>5, <2>2
    <2> QED
      BY <1>1, <1>3, <2>1, <2>2, SlotsKept
  <1>10. ASSUME NEW r \in DOMAIN res \ aside', res'[r] # None
         PROVE  /\ Of(rows', r) = Of(rows, r) /\ \A x \in Of(rows, r) : x.impl \notin T
                /\ reg'.deps[res[r]] = reg.deps[res[r]]
                /\ \A d \in reg.deps[res[r]] : StatesStay(reg, reg', d)
    <2>1. r \notin Resolutions(i) /\ res[r] \in Impls
      BY <1>1, <1>3, <1>6, <1>10 DEF TypeOK
    <2>2. res[r] # i
      BY <2>1 DEF Resolutions
    <2> QED
      BY <1>3, <1>5, <1>6, <1>7, <1>10, <2>1, <2>2 DEF StatesStay
  <1>11. /\ aside \subseteq aside' /\ aside' \subseteq DOMAIN res
         /\ \A n \in DOMAIN stack : stack[n].res \notin aside' =>
              stack[n].dep = None \/ \A t \in T : stack[n].agent # None /\ AgentOf[t] # stack[n].agent
    BY <1>1, <1>3, <1>6, <1>7 DEF Resolutions
  <1>12. /\ task' \in {"none", "resolving", "refused", "running", "gone"} /\ anew' \subseteq Impls
         /\ edits' \in 0 .. MaxEdits /\ regs' \in 0 .. MaxRegs
         /\ UNCHANGED <<up, visited, stack, answer, read, slots, scenario>>
    BY <1>1, <1>3, <1>4, ResolutionAssumption DEF TypeOK, ResolutionAssumption
  <1> QED
    BY <1>5, <1>6, <1>8, <1>9, <1>10, <1>11, <1>12, LossKeeps
-----------------------------------------------------------------------------
\* The steps of an assignment, and of the agents, keep it.
LEMMA AssigningKeeps ==
    ASSUME ResolutionInv, UNCHANGED <<reg, resolving, bounds>>, up' \subseteq Agents,
           read' \in [action : Names \cup {None}, deps : SUBSET Dependencies],
           DOMAIN slots' \subseteq {d.key : d \in read'.deps},
           task' \in {"none", "resolving", "refused", "running", "gone"}, anew' \subseteq Impls, SlotsInv'
    PROVE  ResolutionInv'
  <1>1. UNCHANGED <<reg, res, rows, visited, stack, answer, aside, edits, regs, scenario>>
    BY DEF resolving, bounds
  <1>2. TypeOK'
    BY <1>1 DEF ResolutionInv, TypeOK, Rows
  <1>3. StackInv' /\ EnterInv' /\ RegInv'
    BY <1>1 DEF ResolutionInv, StackInv, EnterInv, RegInv
  <1>4. ProgressInv'
    BY <1>1 DEF ResolutionInv, ProgressInv
  <1> QED
    BY <1>2, <1>3, <1>4 DEF ResolutionInv

LEMMA AssigningTypes ==
    ASSUME ResolutionInv
    PROVE  /\ up \subseteq Agents /\ read \in [action : Names \cup {None}, deps : SUBSET Dependencies]
           /\ DOMAIN slots \subseteq {d.key : d \in read.deps}
           /\ task \in {"none", "resolving", "refused", "running", "gone"} /\ anew \subseteq Impls
           /\ SlotsInv /\ reg \in Registry
  BY DEF ResolutionInv, TypeOK

LEMMA AgentsComeAndGo ==
    ASSUME ResolutionInv, NEW g \in Agents, Come(g) \/ Go(g)
    PROVE  ResolutionInv'
  <1>1. UNCHANGED <<reg, resolving, bounds>> /\ UNCHANGED assigning /\ up' \subseteq Agents
    BY AssigningTypes DEF Come, Go
  <1>2. SlotsInv'
    BY <1>1, SlotsStay DEF ResolutionInv
  <1>3. UNCHANGED <<read, slots, task, anew>>
    BY <1>1 DEF assigning
  <1> QED
    BY <1>1, <1>2, <1>3, AssigningTypes, AssigningKeeps

LEMMA AssignKeeps ==
    ASSUME ResolutionInv, Assign
    PROVE  ResolutionInv'
  <1>1. /\ task = "none" /\ task' = "resolving" /\ Root \in reg.there
        /\ read' = [action |-> reg.action[Root], deps |-> reg.deps[Root]]
        /\ UNCHANGED <<reg, resolving, bounds>> /\ UNCHANGED <<up, slots, calls, anew>>
    BY DEF Assign
  <1>2. slots = <<>> /\ slots' = <<>> /\ DOMAIN slots' = {}
    BY <1>1 DEF ResolutionInv, SlotsInv
  <1>3. /\ read' \in [action : Names \cup {None}, deps : SUBSET Dependencies]
        /\ read'.deps = reg.deps[Root] /\ Root \in Impls
    BY <1>1, AssigningTypes, RegistryFacts, ResolutionAssumption DEF ResolutionAssumption
  <1>4. Distinct(read'.deps)
    BY <1>3 DEF ResolutionInv, RegInv, Sound
  <1>5. SlotsInv'
    BY <1>1, <1>2, <1>4 DEF ResolutionInv, SlotsInv
  <1> QED
    BY <1>1, <1>2, <1>3, <1>5, AssigningTypes, AssigningKeeps

LEMMA DispatchKeeps ==
    ASSUME ResolutionInv, Dispatch
    PROVE  ResolutionInv'
  <1>1. /\ task = "resolving" /\ task' \in {"running", "refused"} /\ \A d \in read.deps : d.key \in DOMAIN slots
        /\ UNCHANGED <<reg, resolving, bounds>> /\ UNCHANGED <<up, read, slots, calls, anew>>
    BY DEF Dispatch
  <1>2. SlotsInv'
    BY <1>1 DEF ResolutionInv, SlotsInv
  <1> QED
    BY <1>1, <1>2, AssigningTypes, AssigningKeeps

\* The agents of a slot are no more than the maximum, and none only without a minimum.
LEMMA SlicedFacts ==
    ASSUME NEW d \in Dependencies, NEW found \in SUBSET Agents, NEW gs \in SlicedAgents(found, d),
           ~SliceRaises(d), EnoughAgents(gs, d)
    PROVE  /\ IsFiniteSet(gs) /\ gs \subseteq Agents
           /\ d.max # None => Cardinality(gs) <= d.max
           /\ gs = {} => d.min = None \/ d.min <= 0
  <1>1. d.min \in Int \cup {None} /\ d.max \in Int \cup {None} /\ IsFiniteSet(Agents)
    BY DependencyFacts, ResolutionAssumption DEF ResolutionAssumption
  <1>2. IsFiniteSet(found) /\ Cardinality(found) \in Nat
    BY <1>1, FS_Subset, FS_CardinalityType
  <1>3. gs \subseteq found /\ IF d.max \in 0 .. Cardinality(found) THEN Cardinality(gs) = d.max ELSE gs = found
    BY DEF SlicedAgents
  <1>4. IsFiniteSet(gs) /\ Cardinality(gs) \in Nat
    BY <1>2, <1>3, FS_Subset, FS_CardinalityType
  <1>5. ASSUME d.max # None PROVE Cardinality(gs) <= d.max
    <2>1. d.max \in Int /\ d.max >= 0
      BY <1>1, <1>5 DEF SliceRaises
    <2> QED
      BY <2>1, <1>2, <1>3, <1>4
  <1>6. ASSUME gs = {} PROVE d.min = None \/ d.min <= 0
    <2>1. Cardinality(gs) = 0
      BY <1>6, FS_EmptySet
    <2> QED
      BY <2>1, <1>1 DEF EnoughAgents
  <1> QED
    BY <1>3, <1>4, <1>5, <1>6

\* The dependency dict names for each demand an implementation that has the action's key
\* and no dependencies.
LEMMA DictFacts ==
    ASSUME ResolutionInv, NEW g \in Agents, NEW d, ~AgentRaises(g, d), NEW k \in DOMAIN d.demands
    PROVE  /\ BuildAgentDependencyDict(g, d).actions[k] \in Impls
           /\ Keeps(reg, anew, d, k, BuildAgentDependencyDict(g, d).actions[k])
  <1>1. Cardinality(Candidates(g, d, k)) = 1
    BY DEF AgentRaises
  <1>2. Candidates(g, d, k) # {}
    BY <1>1, FS_EmptySet
  <1>3. PICK i : i = (CHOOSE j \in Candidates(g, d, k) : TRUE)
    OBVIOUS
  <1>4. i \in Candidates(g, d, k)
    BY <1>2, <1>3
  <1>5. BuildAgentDependencyDict(g, d).actions[k] = i
    BY <1>3 DEF BuildAgentDependencyDict
  <1>6. i \in reg.there /\ KeyOf(i) = ActionKey(d, k) /\ reg.deps[i] = {}
    BY <1>4 DEF Candidates, AgentRaises
  <1>7. reg.there \subseteq Impls /\ reg.action[i] \in Names
    BY <1>6, AssigningTypes, RegistryFacts
  <1>8. Catalogue[reg.action[i]].key = ActionKey(d, k)
    BY <1>6, <1>7 DEF ResolutionInv, RegInv, Sound, KeyOf
  <1> QED
    BY <1>5, <1>6, <1>7, <1>8 DEF Keeps

LEMMA ResolveSlotKeeps ==
    ASSUME ResolutionInv, NEW d \in read.deps, NEW mapped, ResolveSlot(d, mapped)
    PROVE  ResolutionInv'
  <1>1. d \in Dependencies /\ d.app \subseteq Agents
    BY AssigningTypes, DependencyFacts
  <1>2. /\ task = "resolving" /\ d.key \notin DOMAIN slots
        /\ UNCHANGED <<reg, resolving, bounds>> /\ UNCHANGED <<up, read, calls, anew>>
    BY DEF ResolveSlot
  <1>3. PICK found : found = (IF mapped = None THEN d.app ELSE mapped) \cap up
    OBVIOUS
  <1>4. found \in SUBSET Agents
    BY <1>3, AssigningTypes
  <1>5. PICK gs \in SlicedAgents(found, d) :
           IF /\ mapped # None \/ d.auto
              /\ ~SliceRaises(d) /\ EnoughAgents(gs, d) /\ \A g \in gs : ~AgentRaises(g, d)
           THEN /\ slots' = [k \in DOMAIN slots \cup {d.key} |->
                               IF k = d.key THEN {BuildAgentDependencyDict(g, d) : g \in gs} ELSE slots[k]]
                /\ UNCHANGED task
           ELSE task' = "refused" /\ UNCHANGED slots
    BY <1>3 DEF ResolveSlot
  <1>6. CASE task' = "refused" /\ UNCHANGED slots
    <2>1. SlotsInv'
      BY <1>2, <1>6 DEF ResolutionInv, SlotsInv
    <2> QED
      BY <2>1, <1>2, <1>6, AssigningTypes, AssigningKeeps
  <1>7. CASE /\ ~SliceRaises(d) /\ EnoughAgents(gs, d) /\ \A g \in gs : ~AgentRaises(g, d)
             /\ slots' = [k \in DOMAIN slots \cup {d.key} |->
                             IF k = d.key THEN {BuildAgentDependencyDict(g, d) : g \in gs} ELSE slots[k]]
             /\ UNCHANGED task
    <2>1. /\ IsFiniteSet(gs) /\ gs \subseteq Agents
          /\ d.max # None => Cardinality(gs) <= d.max
          /\ gs = {} => d.min = None \/ d.min <= 0
      BY <1>1, <1>4, <1>7, SlicedFacts
    <2>2. PICK T : T = {BuildAgentDependencyDict(g, d) : g \in gs}
      OBVIOUS
    <2>3. IsFiniteSet(T) /\ (d.max # None => Cardinality(T) <= d.max)
      <3>1. [g \in gs |-> BuildAgentDependencyDict(g, d)] \in Surjection(gs, T)
        BY <2>2 DEF Surjection
      <3>2. IsFiniteSet(T) /\ Cardinality(T) <= Cardinality(gs)
        BY <3>1, <2>1, FS_Surjection
      <3>3. Cardinality(T) \in Nat /\ Cardinality(gs) \in Nat /\ d.max \in Int \cup {None}
        BY <1>1, <3>2, <2>1, FS_CardinalityType, DependencyFacts
      <3> QED
        BY <3>2, <3>3, <2>1
    <2>4. T = {} => d.min = None \/ d.min <= 0
      BY <2>1, <2>2
    <2>5. ASSUME NEW s \in T, NEW k \in DOMAIN d.demands
          PROVE  s.actions[k] \in Impls /\ Keeps(reg, anew, d, k, s.actions[k])
      <3>1. PICK g \in gs : s = BuildAgentDependencyDict(g, d)
        BY <2>2
      <3> QED
        BY <3>1, <2>1, <1>7, DictFacts
    <2>6. /\ DOMAIN slots' = DOMAIN slots \cup {d.key} /\ slots'[d.key] = T
          /\ \A k \in DOMAIN slots : slots'[k] = slots[k]
      BY <1>2, <1>7, <2>2
    <2>7. SlotMeets(reg, anew, d, T)
      BY <2>3, <2>4, <2>5 DEF SlotMeets
    <2>8. ASSUME NEW e \in read.deps, e.key \in DOMAIN slots'
          PROVE  SlotMeets(reg, anew, e, slots'[e.key])
      <3>1. CASE e.key = d.key
        <4>1. e = d
          BY <3>1 DEF ResolutionInv, SlotsInv, Distinct
        <4> QED
          BY <4>1, <2>6, <2>7
      <3>2. CASE e.key # d.key
        <4>1. e.key \in DOMAIN slots /\ slots'[e.key] = slots[e.key]
          BY <3>2, <2>6, <2>8
        <4> QED
          BY <4>1 DEF ResolutionInv, SlotsInv
      <3> QED
        BY <3>1, <3>2
    <2>9. SlotsInv'
      <3>1. task' = "resolving" /\ UNCHANGED <<reg, read, calls, anew>>
        BY <1>2, <1>7
      <3> QED
        BY <3>1, <2>8 DEF ResolutionInv, SlotsInv
    <2>10. DOMAIN slots' \subseteq {e.key : e \in read'.deps}
      BY <1>2, <2>6, AssigningTypes
    <2> QED
      BY <1>2, <1>7, <2>9, <2>10, AssigningTypes, AssigningKeeps
  <1> QED
    BY <1>5, <1>6, <1>7

LEMMA CallKeeps ==
    ASSUME ResolutionInv, NEW d \in read.deps, NEW k \in DOMAIN d.demands, Call(d, k)
    PROVE  ResolutionInv'
  <1>1. /\ task = "running"
        /\ UNCHANGED <<reg, resolving, bounds>> /\ UNCHANGED <<up, read, slots, task, anew>>
    BY DEF Call
  <1>2. SlotMeets(reg, anew, d, slots[d.key])
    BY <1>1 DEF ResolutionInv, SlotsInv
  <1>3. PICK c : calls' = calls \cup {c} /\ CallMeets(c)
    <2>1. CASE slots[d.key] = {}
      <3>1. PICK c : c = [dep |-> d, key |-> k, end |-> "empty"]
        OBVIOUS
      <3>2. calls' = calls \cup {c}
        BY <2>1, <3>1 DEF Call
      <3>3. c.dep = d /\ c.end = "empty" /\ (d.min = None \/ d.min <= 0)
        BY <2>1, <3>1, <1>2 DEF SlotMeets
      <3> QED
        BY <3>2, <3>3 DEF CallMeets
    <2>2. CASE slots[d.key] # {}
      <3>1. PICK s \in slots[d.key] :
               LET i == s.actions[k]
               IN  calls' = calls \cup
                       {IF i \notin reg.there THEN [dep |-> d, key |-> k, end |-> "gone"]
                        ELSE [dep |-> d, key |-> k, end |-> "sent", runs |-> KeyOf(i),
                              bare |-> reg.deps[i] = {}, anew |-> i \in anew]}
        BY <2>2 DEF Call
      <3>2. PICK i : i = s.actions[k]
        OBVIOUS
      <3>3. CASE i \notin reg.there
        <4>1. PICK c : c = [dep |-> d, key |-> k, end |-> "gone"]
          OBVIOUS
        <4>2. calls' = calls \cup {c} /\ c.end = "gone"
          BY <3>1, <3>2, <3>3, <4>1
        <4> QED
          BY <4>2 DEF CallMeets
      <3>4. CASE i \in reg.there
        <4>1. PICK c : c = [dep |-> d, key |-> k, end |-> "sent", runs |-> KeyOf(i),
                            bare |-> reg.deps[i] = {}, anew |-> i \in anew]
          OBVIOUS
        <4>2. calls' = calls \cup {c}
          BY <3>1, <3>2, <3>4, <4>1
        <4>3. /\ c.end = "sent" /\ c.dep = d /\ c.key = k /\ c.runs = KeyOf(i)
              /\ c.bare = (reg.deps[i] = {}) /\ c.anew = (i \in anew)
          BY <4>1
        <4>4. ASSUME i \notin anew PROVE KeyOf(i) = ActionKey(d, k) /\ reg.deps[i] = {}
          <5>1. Keeps(reg, anew, d, k, i)
            BY <1>2, <3>2 DEF SlotMeets
          <5>2. Catalogue[reg.action[i]].key = ActionKey(d, k) /\ reg.deps[i] = {}
            BY <5>1, <4>4, <3>4 DEF Keeps
          <5>3. reg.action[i] \in Names
            BY <3>4, AssigningTypes, RegistryFacts
          <5>4. KeyOf(i) = Catalogue[reg.action[i]].key
            BY <3>4, <5>3 DEF ResolutionInv, RegInv, Sound, KeyOf
          <5> QED
            BY <5>2, <5>4
        <4>5. CallMeets(c)
          BY <4>3, <4>4 DEF CallMeets
        <4> QED
          BY <4>2, <4>5
      <3> QED
        BY <3>3, <3>4
    <2> QED
      BY <2>1, <2>2
  <1>4. SlotsInv'
    BY <1>1, <1>3 DEF ResolutionInv, SlotsInv
  <1> QED
    BY <1>1, <1>4, AssigningTypes, AssigningKeeps
-----------------------------------------------------------------------------
LEMMA InitResolution == Init => ResolutionInv
  <1> SUFFICES ASSUME Init PROVE ResolutionInv
    OBVIOUS
  <1>1. /\ scenario \in Scenarios /\ up = Agents
        /\ reg = [there |-> Impls, action |-> ActionOf, deps |-> DepsOf, catalogue |-> Catalogue,
                  states |-> StatesOf]
        /\ res = <<>> /\ rows = {} /\ visited = {} /\ stack = <<>> /\ answer = "none" /\ aside = {}
        /\ read = [action |-> None, deps |-> {}]
        /\ slots = <<>> /\ task = "none" /\ calls = {} /\ anew = {} /\ edits = 0 /\ regs = 0
    BY DEF Init
  <1>2. /\ res \in Seq(Impls \cup {None}) /\ stack \in Seq(Frames) /\ Len(stack) = 0
        /\ DOMAIN stack = {} /\ DOMAIN res = {} /\ DOMAIN slots = {}
    BY <1>1
  <1>3. /\ ActionOf \in [Impls -> Names] /\ DepsOf \in [Impls -> SUBSET Dependencies]
        /\ Catalogue \in [Names -> ActionRows \cup {None}] /\ StatesOf \in [Agents -> StateSets]
        /\ \A x \in Names : Catalogue[x] # None
        /\ \A i \in Impls : Distinct(DepsOf[i])
    <2>1. DepsOf \in [Impls -> DependencySets] /\ Catalogue \in [Names -> ActionRows]
      BY ResolutionAssumption DEF ResolutionAssumption, Names
    <2>2. (\A i \in Impls : Distinct(DepsOf[i])) /\ DependencySets \subseteq SUBSET Dependencies
      BY <2>1, ResolutionAssumption DEF ResolutionAssumption, Distinct, Dependencies
    <2>3. DepsOf \in [Impls -> SUBSET Dependencies]
      BY <2>1, <2>2
    <2>4. \A x \in Names : Catalogue[x] # None
      BY <2>1, ResolutionAssumption DEF ResolutionAssumption
    <2>5. ActionOf \in [Impls -> Names]
      BY ResolutionAssumption DEF ResolutionAssumption, Names
    <2>6. {StatesOf[g] : g \in Agents} \subseteq StateSets /\ StatesOf \in [Agents -> {StatesOf[g] : g \in Agents}]
      BY ResolutionAssumption DEF ResolutionAssumption, StateSets
    <2>7. StatesOf \in [Agents -> StateSets]
      BY <2>6
    <2> QED
      BY <2>1, <2>2, <2>3, <2>4, <2>5, <2>7
  <1>4. reg \in Registry
    BY <1>1, <1>3 DEF Registry
  <1>5. RegInv
    BY <1>1, <1>3 DEF RegInv, Sound
  <1>6. TypeOK
    <2>1. edits \in 0 .. MaxEdits /\ regs \in 0 .. MaxRegs
      BY <1>1, ResolutionAssumption DEF ResolutionAssumption
    <2>2. /\ rows \subseteq Rows /\ DOMAIN slots \subseteq {d.key : d \in read.deps} /\ aside \subseteq DOMAIN res
          /\ read \in [action : Names \cup {None}, deps : SUBSET Dependencies]
      BY <1>1, <1>2
    <2> QED
      BY <1>1, <1>2, <1>4, <2>1, <2>2 DEF TypeOK
  <1>7. StackInv /\ EnterInv
    BY <1>1, <1>2 DEF StackInv, EnterInv
  <1>8. ProgressInv
    BY <1>1, <1>2 DEF ProgressInv
  <1>9. SlotsInv
    BY <1>1, <1>2 DEF SlotsInv, Distinct
  <1> QED
    BY <1>5, <1>6, <1>7, <1>8, <1>9 DEF ResolutionInv

LEMMA NextResolution == ResolutionInv /\ [Next]_vars => ResolutionInv'
  <1> SUFFICES ASSUME ResolutionInv, [Next]_vars PROVE ResolutionInv'
    OBVIOUS
  <1>1. CASE UNCHANGED vars
    <2>1. UNCHANGED <<reg, resolving, bounds>> /\ UNCHANGED assigning /\ up' = up
      BY <1>1 DEF vars
    <2>2. SlotsInv'
      BY <2>1, SlotsStay DEF ResolutionInv
    <2>3. UNCHANGED <<read, slots, task, anew>>
      BY <2>1 DEF assigning
    <2> QED
      BY <2>1, <2>2, <2>3, AssigningTypes, AssigningKeeps
  <1>2. CASE AutoResolve
    BY <1>2, AutoResolveKeeps
  <1>3. CASE Resolver
    <2>1. CASE PickDependency
      BY <2>1, PickDependencyKeeps
    <2>2. CASE PickAgent
      BY <2>2, PickAgentKeeps
    <2>3. CASE PickDemand
      BY <2>3, PickDemandKeeps
    <2>4. CASE TryImplementation
      <3>1. CASE \E i \in Top.cands \ visited : reg.deps[i] # {} /\ Descend(i)
        <4>1. Running /\ Top.key # None
          BY <2>4 DEF TryImplementation
        <4> QED
          BY <3>1, <4>1, DescendKeeps
      <3> QED
        BY <2>4, <3>1, TryImplementationTurns
    <2>5. CASE Return
      BY <2>5, ReturnKeeps
    <2> QED
      BY <1>3, <2>1, <2>2, <2>3, <2>4, <2>5 DEF Resolver
  <1>4. CASE CreateResolution
    BY <1>4, CreateResolutionKeeps
  <1>5. ASSUME NEW r \in DOMAIN res, UpdateResolution(r) \/ DeleteResolution(r) PROVE ResolutionInv'
    BY <1>5, UpdateResolutionKeeps, DeleteResolutionKeeps
  <1>6. ASSUME NEW g \in Agents, Come(g) \/ Go(g) PROVE ResolutionInv'
    BY <1>6, AgentsComeAndGo
  <1>7. ASSUME NEW i \in Impls, Drop(i) PROVE ResolutionInv'
    BY <1>7, DropKeeps
  <1>8. ASSUME NEW decl \in Declarations, Register(decl) PROVE ResolutionInv'
    BY <1>8, RegisterKeeps
  <1>9. ASSUME NEW decl \in StateDeclarations, RegisterStates(decl) PROVE ResolutionInv'
    BY <1>9, RegisterStatesKeeps
  <1>10. CASE Assign
    BY <1>10, AssignKeeps
  <1>11. CASE Dispatch
    BY <1>11, DispatchKeeps
  <1>12. ASSUME NEW d \in read.deps, NEW m, ResolveSlot(d, m) PROVE ResolutionInv'
    BY <1>12, ResolveSlotKeeps
  <1>13. ASSUME NEW d \in read.deps, NEW k \in DOMAIN d.demands, Call(d, k) PROVE ResolutionInv'
    BY <1>13, CallKeeps
  <1> QED
    BY <1>1, <1>2, <1>3, <1>4, <1>5, <1>6, <1>7, <1>8, <1>9, <1>10, <1>11, <1>12, <1>13 DEF Next

\* The invariant holds whatever the dependencies, however often they are resolved by
\* auto_resolve and by users, whatever agents come and go, and whatever registrations change
\* and drop meanwhile.
THEOREM ResolutionInvariant == Spec => []ResolutionInv
  <1> QED
    BY InitResolution, NextResolution, PTL DEF Spec

\* What is registered, rows, frames and the dependency dict keep their types.
THEOREM ResolutionTypes == Spec => []TypeOK
  <1>1. ResolutionInv => TypeOK
    BY DEF ResolutionInv
  <1> QED
    BY <1>1, ResolutionInvariant, PTL

\* What auto_resolve is through with meets every demand, on one agent for each dependency,
\* to any depth of dependencies and with rings among them, as long as no registration
\* touches what it rests on.
THEOREM ResolutionsMeetDemands == Spec => []ResolutionMeetsDemands
  <1>1. ResolutionInv => ResolutionMeetsDemands
    <2> SUFFICES ASSUME ResolutionInv, NEW r \in DOMAIN res \ (aside \cup InHand), res[r] # None,
                        NEW d \in reg.deps[res[r]]
                 PROVE  \E g \in Agents :
                           /\ \A k \in DOMAIN d.demands :
                                 /\ Chosen(r, d, k) # {}
                                 /\ Cardinality(Chosen(r, d, k)) = 1 \/ Cardinality(Chosen(r, d, k)) <= d.prefered
                                 /\ \A x \in Chosen(r, d, k) :
                                       /\ AgentOf[x.impl] = g
                                       /\ ActionDemandClauses(d.demands[k], reg.catalogue[reg.action[x.impl]])
                                       /\ (x.down # None) = (reg.deps[x.impl] # {})
                           /\ \A m \in d.states : StateMeets(reg, g, m)
      BY DEF ResolutionMeetsDemands
    <2>1. ~Framed(stack, r)
      BY DEF Framed, InHand
    <2>2. Met(reg, Of(rows, r), res[r])
      BY <2>1 DEF ResolutionInv, ProgressInv
    <2>3. PICK g \in Agents : DepMet(reg, Of(rows, r), d, g)
      BY <2>2 DEF Met
    <2>4. \A k \in DOMAIN d.demands : Chosen(r, d, k) = Picks(Of(rows, r), d, k)
      BY DEF Chosen, Picks, Of
    <2> QED
      BY <2>3, <2>4 DEF DepMet, KeyMet, Suits, Nested, StatesMet
  <1> QED
    BY <1>1, ResolutionInvariant, PTL

\* A task finds an agent in each slot that has a minimum, no more than the maximum, and
\* each call runs the action it asks for, unless its implementation was declared again.
THEOREM CallsKeepToTheirSlot == Spec => []CallsMeetTheirSlot
  <1>1. ResolutionInv => CallsMeetTheirSlot
    BY DEF ResolutionInv, SlotsInv, SlotMeets, CallMeets, CallsMeetTheirSlot
  <1> QED
    BY <1>1, ResolutionInvariant, PTL

\* auto_resolve is never inside one implementation twice at a time, other than the root
\* once more.
THEOREM EachIsEnteredOnce == Spec => []EntersOnce
  <1>1. ResolutionInv => EntersOnce
    <2> SUFFICES ASSUME ResolutionInv, NEW m \in DOMAIN stack, NEW n \in DOMAIN stack, m < n,
                        stack[m].of = stack[n].of
                 PROVE  n = Len(stack) /\ stack[m].of = Root
      BY DEF EntersOnce
    <2>1. Len(stack) \in Nat /\ DOMAIN stack = 1 .. Len(stack) /\ stack # <<>>
      BY DEF ResolutionInv, TypeOK
    <2>2. n = Len(stack)
      BY <2>1 DEF ResolutionInv, EnterInv
    <2> QED
      BY <2>1, <2>2 DEF ResolutionInv, EnterInv
  <1> QED
    BY <1>1, ResolutionInvariant, PTL
=============================================================================
