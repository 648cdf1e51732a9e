---------------------------- MODULE StateLogProofs ----------------------------
(***************************************************************************)
(* Proofs about StateLog, for any processes, states and readers and        *)
(* however many patches and snapshots there are.                           *)
(*                                                                         *)
(* What Select does to a log of any length is proved by induction.  The    *)
(* induction theorems of the library take the property as an operator,     *)
(* which no prover here can instantiate; a least element of the set of     *)
(* what is wrong, which the library has for well-founded relations, needs  *)
(* no operator.                                                            *)
(***************************************************************************)
EXTENDS StateLog, SequenceTheorems, WellFoundedInduction, TLAPS
-----------------------------------------------------------------------------
(* Induction. *)

\* A set of natural numbers has a least element.
LEMMA LeastNumber ==
    ASSUME NEW T \in SUBSET Nat, T # {}
    PROVE  \E n \in T : \A m \in T : n <= m
<1>1. IsWellFoundedOn(OpToRel(<, Nat), Nat)
  BY NatLessThanWellFounded
<1>2. \E x \in T : \A y \in T : ~(<<y, x>> \in OpToRel(<, Nat))
  BY <1>1, WFMin
<1>3. ASSUME NEW x \in Nat, NEW y \in Nat, y < x
      PROVE  <<y, x>> \in OpToRel(<, Nat)
  BY <1>3 DEF OpToRel
<1>4. \E x \in T : \A y \in T : ~(y < x)
  BY <1>2, <1>3, Zenon
<1>5. QED
  BY <1>4

\* A set that has 0, and with a number the next one, has all of them.
LEMMA NumbersFromZero ==
    ASSUME NEW T, 0 \in T, \A n \in Nat : n \in T => n + 1 \in T
    PROVE  Nat \subseteq T
<1> SUFFICES ASSUME Nat \ T # {}
             PROVE  FALSE
  OBVIOUS
<1>1. PICK n \in Nat \ T : \A m \in Nat \ T : n <= m
  BY LeastNumber
<1>2. n - 1 \in Nat /\ n - 1 \in T
  BY <1>1
<1>3. (n - 1) + 1 \in T
  BY <1>2
<1>4. QED
  BY <1>1, <1>3

\* A set that has the empty sequence, and with a sequence its extensions, has all of them.
LEMMA SequencesFromEmpty ==
    ASSUME NEW S, NEW T, <<>> \in T, \A s \in Seq(S), e \in S : s \in T => Append(s, e) \in T
    PROVE  Seq(S) \subseteq T
<1> DEFINE L == {n \in Nat : \A s \in Seq(S) : Len(s) = n => s \in T}
<1>1. 0 \in L
  BY EmptySeq
<1>2. ASSUME NEW n \in Nat, n \in L
      PROVE  n + 1 \in L
  <2> SUFFICES ASSUME NEW s \in Seq(S), Len(s) = n + 1
               PROVE  s \in T
    OBVIOUS
  <2>1. s # <<>>
    BY EmptySeq
  <2>2. PICK t \in Seq(S), e \in S : s = Append(t, e)
    BY <2>1, SequenceEmptyOrAppend
  <2>3. Len(t) = n
    BY <2>2, AppendProperties, LenProperties
  <2>4. QED
    BY <1>2, <2>2, <2>3
<1> HIDE DEF L
<1>3. Nat \subseteq L
  BY <1>1, <1>2, NumbersFromZero
<1>4. QED
  BY <1>3, LenProperties DEF L

\* A function is defined by its first value and the step to the next one.
LEMMA FunctionsFromZero ==
    ASSUME NEW T, NEW a \in T, NEW G \in [Nat -> [T -> T]]
    PROVE  \E f \in [Nat -> T] : f[0] = a /\ \A n \in Nat : f[n + 1] = G[n][f[n]]
<1> DEFINE Upto(n, g) == g[0] = a /\ \A m \in 0 .. n - 1 : g[m + 1] = G[m][g[m]]
           N == {n \in Nat : \E g \in [Nat -> T] : Upto(n, g)}
<1>1. 0 \in N
  <2>1. [m \in Nat |-> a] \in [Nat -> T] /\ Upto(0, [m \in Nat |-> a])
    OBVIOUS
  <2>2. QED
    BY <2>1
<1>2. ASSUME NEW n \in Nat, n \in N
      PROVE  n + 1 \in N
  <2>1. PICK g \in [Nat -> T] : Upto(n, g)
    BY <1>2
  <2> DEFINE h == [g EXCEPT ![n + 1] = G[n][g[n]]]
  <2>2. h \in [Nat -> T]
    OBVIOUS
  <2>3. Upto(n + 1, h)
    BY <2>1
  <2> HIDE DEF h
  <2>4. QED
    BY <2>2, <2>3
<1> HIDE DEF N
<1>3. Nat \subseteq N
  BY <1>1, <1>2, NumbersFromZero
<1> DEFINE U(n) == CHOOSE g \in [Nat -> T] : Upto(n, g)
           f == [n \in Nat |-> U(n)[n]]
<1>4. \A n \in Nat : U(n) \in [Nat -> T] /\ Upto(n, U(n))
  BY <1>3 DEF N
<1> HIDE DEF U
<1>5. ASSUME NEW n \in Nat
      PROVE  U(n + 1)[n] = U(n)[n]
  <2> DEFINE g == U(n)
             h == U(n + 1)
             M == {m \in Nat : m <= n => h[m] = g[m]}
  <2>1. Upto(n, g) /\ Upto(n + 1, h)
    BY <1>4
  <2> HIDE DEF g, h
  <2>2. 0 \in M
    BY <2>1
  <2>3. ASSUME NEW m \in Nat, m \in M
        PROVE  m + 1 \in M
    <3> SUFFICES ASSUME m + 1 <= n
                 PROVE  h[m + 1] = g[m + 1]
      OBVIOUS
    <3>1. h[m] = g[m] /\ m \in 0 .. n - 1 /\ m \in 0 .. (n + 1) - 1
      BY <2>3
    <3>2. QED
      BY <2>1, <3>1
  <2> HIDE DEF M
  <2>4. Nat \subseteq M
    BY <2>2, <2>3, NumbersFromZero
  <2>5. QED
    BY <2>4 DEF M, g, h
<1>6. f \in [Nat -> T]
  BY <1>4
<1>7. f[0] = a
  BY <1>4
<1>8. ASSUME NEW n \in Nat
      PROVE  f[n + 1] = G[n][f[n]]
  <2>1. U(n + 1)[n + 1] = G[n][U(n + 1)[n]]
    <3>1. n \in 0 .. (n + 1) - 1
      OBVIOUS
    <3>2. QED
      BY <1>4, <3>1
  <2>2. QED
    BY <1>5, <2>1
<1> HIDE DEF f
<1>9. QED
  BY <1>6, <1>7, <1>8
-----------------------------------------------------------------------------
(* Select. *)

\* The function Select is defined by.
UpTo(seq, set) ==
    CHOOSE upTo : upTo = [n \in Nat |->
        IF n = 0 THEN <<>>
        ELSE IF seq[n] \in set THEN Append(upTo[n - 1], seq[n]) ELSE upTo[n - 1]]

LEMMA SelectIsUpTo == \A seq, set : Select(seq, set) = UpTo(seq, set)[Len(seq)]
BY DEF Select, UpTo

\* It exists, whatever lies behind the end of the sequence.
LEMMA UpToUnfolds ==
    ASSUME NEW seq, NEW set
    PROVE  /\ UpTo(seq, set)[0] = <<>>
           /\ \A n \in Nat : UpTo(seq, set)[n + 1] =
                  IF seq[n + 1] \in set THEN Append(UpTo(seq, set)[n], seq[n + 1])
                  ELSE UpTo(seq, set)[n]
<1> DEFINE S == {seq[n] : n \in Nat}
           T == Seq(S)
           G == [n \in Nat |-> [t \in T |-> IF seq[n + 1] \in set THEN Append(t, seq[n + 1]) ELSE t]]
           Unfolds(f) == f = [n \in Nat |->
               IF n = 0 THEN <<>>
               ELSE IF seq[n] \in set THEN Append(f[n - 1], seq[n]) ELSE f[n - 1]]
<1>1. G \in [Nat -> [T -> T]]
  <2>1. ASSUME NEW n \in Nat, NEW t \in T
        PROVE  Append(t, seq[n + 1]) \in T
    <3>1. seq[n + 1] \in S
      OBVIOUS
    <3>2. QED
      BY <3>1, AppendProperties
  <2> HIDE DEF T
  <2>2. QED
    BY <2>1
<1>2. <<>> \in T
  BY EmptySeq
<1>3. PICK f \in [Nat -> T] : f[0] = <<>> /\ \A n \in Nat : f[n + 1] = G[n][f[n]]
  <2> HIDE DEF T, G
  <2>1. \A a \in T : \E f \in [Nat -> T] : f[0] = a /\ \A n \in Nat : f[n + 1] = G[n][f[n]]
    BY <1>1, FunctionsFromZero
  <2>2. QED
    BY <1>2, <2>1
<1>4. ASSUME NEW n \in Nat
      PROVE  f[n + 1] = IF seq[n + 1] \in set THEN Append(f[n], seq[n + 1]) ELSE f[n]
  <2>1. f[n] \in T
    BY <1>3
  <2> HIDE DEF T
  <2>2. QED
    BY <1>3, <2>1
<1>5. Unfolds(f)
  <2> DEFINE g == [n \in Nat |->
                 IF n = 0 THEN <<>>
                 ELSE IF seq[n] \in set THEN Append(f[n - 1], seq[n]) ELSE f[n - 1]]
  <2>1. ASSUME NEW n \in Nat
        PROVE  f[n] = g[n]
    <3>1. CASE n = 0
      BY <1>3, <3>1
    <3>2. CASE n # 0
      <4>1. n - 1 \in Nat /\ (n - 1) + 1 = n
        BY <3>2
      <4>2. QED
        BY <1>4, <3>2, <4>1
    <3>3. QED
      BY <3>1, <3>2
  <2>2. f = g
    <3> HIDE DEF T
    <3>1. f = [n \in Nat |-> f[n]]
      BY <1>3
    <3>2. QED
      BY <2>1, <3>1
  <2>3. QED
    BY <2>2
<1>6. Unfolds(UpTo(seq, set))
  <2> HIDE DEF T, G
  <2>1. \E g : Unfolds(g)
    BY <1>5
  <2>2. UpTo(seq, set) = CHOOSE g : Unfolds(g)
    BY DEF UpTo
  <2> HIDE DEF Unfolds
  <2>3. QED
    BY <2>1, <2>2
<1>7. PICK g : g = UpTo(seq, set)
  OBVIOUS
<1>8. ASSUME NEW n \in Nat
      PROVE  g[n] = IF n = 0 THEN <<>>
                    ELSE IF seq[n] \in set THEN Append(g[n - 1], seq[n]) ELSE g[n - 1]
  BY <1>6, <1>7
<1>9. ASSUME NEW n \in Nat
      PROVE  g[n + 1] = IF seq[n + 1] \in set THEN Append(g[n], seq[n + 1]) ELSE g[n]
  <2>1. n + 1 \in Nat /\ n + 1 # 0 /\ (n + 1) - 1 = n
    OBVIOUS
  <2>2. QED
    BY <1>8, <2>1
<1>10. QED
  BY <1>7, <1>8, <1>9

LEMMA UpToNext ==
    ASSUME NEW seq, NEW set, NEW n \in Nat
    PROVE  UpTo(seq, set)[n + 1] =
               IF seq[n + 1] \in set THEN Append(UpTo(seq, set)[n], seq[n + 1])
               ELSE UpTo(seq, set)[n]
<1>1. \A m \in Nat : UpTo(seq, set)[m + 1] =
                          IF seq[m + 1] \in set THEN Append(UpTo(seq, set)[m], seq[m + 1])
                          ELSE UpTo(seq, set)[m]
  BY UpToUnfolds
<1>2. QED
  BY <1>1

\* It depends on the part of the sequence it is asked for.
LEMMA UpToDependsOnPrefix ==
    ASSUME NEW s, NEW t, NEW set, NEW k \in Nat, \A n \in 1 .. k : s[n] = t[n]
    PROVE  UpTo(s, set)[k] = UpTo(t, set)[k]
<1> DEFINE f == UpTo(s, set)
           g == UpTo(t, set)
           M == {n \in Nat : n <= k => f[n] = g[n]}
<1>1. 0 \in M
  BY UpToUnfolds
<1>2. ASSUME NEW n \in Nat, n \in M
      PROVE  n + 1 \in M
  <2> SUFFICES ASSUME n + 1 <= k
               PROVE  f[n + 1] = g[n + 1]
    OBVIOUS
  <2>1. f[n] = g[n] /\ s[n + 1] = t[n + 1]
    BY <1>2
  <2>2. f[n + 1] = IF s[n + 1] \in set THEN Append(f[n], s[n + 1]) ELSE f[n]
    BY UpToNext
  <2>3. g[n + 1] = IF t[n + 1] \in set THEN Append(g[n], t[n + 1]) ELSE g[n]
    BY UpToNext
  <2> HIDE DEF f, g
  <2>4. QED
    BY <2>1, <2>2, <2>3
<1> HIDE DEF M
<1>3. k \in M
  BY <1>1, <1>2, NumbersFromZero
<1>4. QED
  BY <1>3 DEF M

\* Nothing is selected from nothing.
LEMMA SelectEmpty == \A set : Select(<<>>, set) = <<>>
<1> TAKE set
<1>1. Len(<<>>) = 0
  BY EmptySeq
<1>2. QED
  BY <1>1, UpToUnfolds, SelectIsUpTo

\* One more element is selected last, if at all.
OneLonger(s, t, k)  == k \in Nat /\ Len(s) = k /\ Len(t) = k + 1 /\ \A n \in 1 .. k : s[n] = t[n]
Taken(u, v, e, set) == v = IF e \in set THEN Append(u, e) ELSE u

LEMMA SelectOneMore ==
    ASSUME NEW s, NEW t, NEW set, NEW k, OneLonger(s, t, k)
    PROVE  Taken(Select(s, set), Select(t, set), t[k + 1], set)
<1>1. k \in Nat /\ Len(s) = k /\ Len(t) = k + 1 /\ \A n \in 1 .. k : s[n] = t[n]
  BY DEF OneLonger
<1>2. UpTo(s, set)[k] = UpTo(t, set)[k]
  BY <1>1, UpToDependsOnPrefix
<1>3. UpTo(t, set)[k + 1] = IF t[k + 1] \in set THEN Append(UpTo(t, set)[k], t[k + 1])
                            ELSE UpTo(t, set)[k]
  <2>1. k \in Nat
    BY <1>1
  <2>2. QED
    BY <2>1, UpToNext
<1>4. Select(t, set) = UpTo(t, set)[k + 1] /\ Select(s, set) = UpTo(s, set)[k]
  BY <1>1, SelectIsUpTo
<1>5. QED
  BY <1>2, <1>3, <1>4 DEF Taken

LEMMA SelectAppend ==
    ASSUME NEW S, NEW s \in Seq(S), NEW e \in S, NEW set
    PROVE  Select(Append(s, e), set) =
               IF e \in set THEN Append(Select(s, set), e) ELSE Select(s, set)
<1>1. PICK t, k : t = Append(s, e) /\ k = Len(s)
  OBVIOUS
<1>2. OneLonger(s, t, k) /\ t[k + 1] = e
  BY <1>1, AppendProperties, LenProperties DEF OneLonger
<1>3. Taken(Select(s, set), Select(t, set), t[k + 1], set)
  BY <1>2, SelectOneMore, Zenon
<1>4. QED
  BY <1>1, <1>2, <1>3 DEF Taken

\* What is selected is in the sequence and in the set.
LEMMA SelectIn ==
    ASSUME NEW S, NEW s \in Seq(S), NEW set
    PROVE  Select(s, set) \in Seq(S \cap set)
<1> DEFINE T == {t \in Seq(S) : Select(t, set) \in Seq(S \cap set)}
<1>1. <<>> \in T
  BY SelectEmpty, EmptySeq
<1>2. ASSUME NEW t \in Seq(S), NEW e \in S, t \in T
      PROVE  Append(t, e) \in T
  <2>1. Append(t, e) \in Seq(S)
    BY AppendProperties
  <2>2. e \in set => Append(Select(t, set), e) \in Seq(S \cap set)
    BY <1>2, AppendProperties
  <2>3. QED
    BY <1>2, <2>1, <2>2, SelectAppend
<1> HIDE DEF T
<1>3. s \in T
  BY <1>1, <1>2, SequencesFromEmpty
<1>4. QED
  BY <1>3 DEF T

\* Of two sequences in a row, what is selected is in a row.
LEMMA SelectConcat ==
    ASSUME NEW S, NEW s \in Seq(S), NEW t \in Seq(S), NEW set
    PROVE  Select(s \o t, set) = Select(s, set) \o Select(t, set)
<1> DEFINE T == {u \in Seq(S) : Select(s \o u, set) = Select(s, set) \o Select(u, set)}
           R == S \cap set
<1>1. <<>> \in T
  <2>1. s \o <<>> = s /\ Select(s, set) \o <<>> = Select(s, set)
    BY ConcatEmptySeq, SelectIn
  <2>2. QED
    BY <2>1, SelectEmpty, EmptySeq
<1>2. ASSUME NEW u \in Seq(S), NEW e \in S, u \in T
      PROVE  Append(u, e) \in T
  <2>1. Append(u, e) \in Seq(S) /\ Append(u, e) = u \o <<e>> /\ <<e>> \in Seq(S)
    BY AppendProperties, AppendIsConcat
  <2>2. s \o u \in Seq(S)
    BY ConcatProperties
  <2>3. s \o Append(u, e) = Append(s \o u, e)
    <3>1. s \o (u \o <<e>>) = (s \o u) \o <<e>>
      BY <2>1, ConcatAssociative
    <3>2. (s \o u) \o <<e>> = Append(s \o u, e)
      BY <2>2, AppendIsConcat
    <3>3. QED
      BY <2>1, <3>1, <3>2
  <2>4. Select(s \o Append(u, e), set) = IF e \in set THEN Append(Select(s \o u, set), e)
                                         ELSE Select(s \o u, set)
    BY <2>2, <2>3, SelectAppend
  <2>5. Select(Append(u, e), set) = IF e \in set THEN Append(Select(u, set), e) ELSE Select(u, set)
    BY SelectAppend
  <2>6. Select(s, set) \in Seq(R) /\ Select(u, set) \in Seq(R)
    BY SelectIn
  <2>7. CASE e \in set
    <3> DEFINE a == Select(s, set)
               b == Select(u, set)
    <3>1. a \in Seq(R) /\ b \in Seq(R) /\ e \in R /\ <<e>> \in Seq(R) /\ a \o b \in Seq(R)
      BY <2>6, <2>7, ConcatProperties
    <3> HIDE DEF a, b, R
    <3>2. (a \o b) \o <<e>> = a \o (b \o <<e>>)
      BY <3>1, ConcatAssociative
    <3>3. Append(a \o b, e) = (a \o b) \o <<e>> /\ Append(b, e) = b \o <<e>>
      BY <3>1, AppendIsConcat
    <3>4. Append(a \o b, e) = a \o Append(b, e)
      BY <3>2, <3>3
    <3>5. QED
      BY <1>2, <2>1, <2>4, <2>5, <2>7, <3>4 DEF a, b
  <2>8. CASE e \notin set
    BY <1>2, <2>1, <2>4, <2>5, <2>8
  <2>9. QED
    BY <2>7, <2>8
<1> HIDE DEF T
<1>3. t \in T
  BY <1>1, <1>2, SequencesFromEmpty
<1>4. QED
  BY <1>3 DEF T

LEMMA SelectConcatAll ==
    \A S, set : \A s, t \in Seq(S) : Select(s \o t, set) = Select(s, set) \o Select(t, set)
BY SelectConcat

\* Selecting twice is selecting what is in both sets.
LEMMA SelectSelect ==
    ASSUME NEW S, NEW s \in Seq(S), NEW set, NEW other
    PROVE  Select(Select(s, set), other) = Select(s, set \cap other)
<1> DEFINE T == {t \in Seq(S) : Select(Select(t, set), other) = Select(t, set \cap other)}
<1>1. <<>> \in T
  BY SelectEmpty, EmptySeq
<1>2. ASSUME NEW t \in Seq(S), NEW e \in S, t \in T
      PROVE  Append(t, e) \in T
  <2>1. Append(t, e) \in Seq(S)
    BY AppendProperties
  <2>2. Select(Append(t, e), set) = IF e \in set THEN Append(Select(t, set), e) ELSE Select(t, set)
    BY SelectAppend
  <2>3. Select(Append(t, e), set \cap other) =
            IF e \in set \cap other THEN Append(Select(t, set \cap other), e)
            ELSE Select(t, set \cap other)
    BY SelectAppend
  <2>4. Select(t, set) \in Seq(S \cap set)
    BY SelectIn
  <2>5. CASE e \in set
    <3> DEFINE u == Select(t, set)
    <3>1. u \in Seq(S \cap set) /\ e \in S \cap set
      BY <2>4, <2>5
    <3> HIDE DEF u
    <3>2. Select(Append(u, e), other) = IF e \in other THEN Append(Select(u, other), e)
                                        ELSE Select(u, other)
      <4>1. \A R : \A v \in Seq(R), d \in R : Select(Append(v, d), other) =
                IF d \in other THEN Append(Select(v, other), d) ELSE Select(v, other)
        BY SelectAppend
      <4>2. QED
        BY <3>1, <4>1
    <3>3. Select(u, other) = Select(t, set \cap other)
      BY <1>2 DEF u
    <3>4. Select(Append(t, e), set) = Append(u, e)
      BY <2>2, <2>5 DEF u
    <3>5. Select(Append(u, e), other) = Select(Append(t, e), set \cap other)
      BY <2>3, <2>5, <3>2, <3>3
    <3>6. QED
      BY <2>1, <3>4, <3>5
  <2>6. CASE e \notin set
    BY <1>2, <2>1, <2>2, <2>3, <2>6
  <2>7. QED
    BY <2>5, <2>6
<1> HIDE DEF T
<1>3. s \in T
  BY <1>1, <1>2, SequencesFromEmpty
<1>4. QED
  BY <1>3 DEF T

\* All of a sequence is selected if all of it is in the set.
LEMMA SelectAll ==
    ASSUME NEW S, NEW s \in Seq(S), NEW set, S \subseteq set
    PROVE  Select(s, set) = s
<1> DEFINE T == {t \in Seq(S) : Select(t, set) = t}
<1>1. <<>> \in T
  BY SelectEmpty, EmptySeq
<1>2. ASSUME NEW t \in Seq(S), NEW e \in S, t \in T
      PROVE  Append(t, e) \in T
  BY <1>2, AppendProperties, SelectAppend
<1> HIDE DEF T
<1>3. s \in T
  BY <1>1, <1>2, SequencesFromEmpty
<1>4. QED
  BY <1>3 DEF T
-----------------------------------------------------------------------------
(* Logs. *)

\* The rows of a log, and the patches of a session to a state.
OfSession(s, x, r) == Patches({s}, x, r)
AllPatches == [kind : {"patch"}, session : Sessions, state : States, rev : 1 .. Unbounded]
SessionRows == [kind : {"session"}, session : Sessions]
SnapshotRows == [kind : {"snapshot"}, session : Sessions, state : States, rev : 0 .. MaxRev,
                 value : Seq(AllPatches)]
Rows == SessionRows \cup SnapshotRows \cup AllPatches

\* What one has read of a state, v, is that of one moment of the log l since n0, or all
\* of it but one stretch.
OneMoment(l, n0, v, s, x, r) ==
    \E n \in n0 .. Len(l) :
        Select(v, OfSession(s, x, Unbounded)) = Select(SubSeq(l, 1, n), OfSession(s, x, r))

AllButStretch(u, all) ==
    \E n \in 0 .. Len(all), m \in 1 .. Len(all) + 1 :
        n < m /\ u = SubSeq(all, 1, n) \o SubSeq(all, m, Len(all))

OneStretch(l, v, s, x) ==
    AllButStretch(Select(v, OfSession(s, x, Unbounded)), Select(l, OfSession(s, x, Unbounded)))

\* A snapshot row holds the patches before it, whose revisions it covers.
Recorded(l, n) ==
    l[n].kind = "snapshot" =>
        /\ l[n].value = Select(SubSeq(l, 1, n), OfSession(l[n].session, l[n].state, Unbounded))
        /\ l[n].value \in Seq(OfSession(l[n].session, l[n].state, l[n].rev))

LEMMA UnboundedIsNat == Unbounded \in Nat /\ MaxRev \in Nat /\ MaxRev < Unbounded
BY BoundsAssumption DEF Unbounded

\* Patches of one session up to two bounds are those up to the lower one.
LEMMA PatchesMeet ==
    ASSUME NEW s \in Sessions, NEW x, NEW r \in Nat, NEW t \in Nat, r <= t
    PROVE  /\ OfSession(s, x, t) \cap OfSession(s, x, r) = OfSession(s, x, r)
           /\ Patches(Sessions, x, r) \cap OfSession(s, x, t) = OfSession(s, x, r)
           /\ OfSession(s, x, r) \subseteq OfSession(s, x, t)
<1>1. 1 .. r \subseteq 1 .. t
  OBVIOUS
<1>2. OfSession(s, x, r) \subseteq OfSession(s, x, t)
  BY <1>1 DEF OfSession, Patches
<1>3. OfSession(s, x, r) \subseteq Patches(Sessions, x, r)
  BY DEF OfSession, Patches
<1>4. ASSUME NEW p \in Patches(Sessions, x, r), p \in OfSession(s, x, t)
      PROVE  p \in OfSession(s, x, r)
  <2>1. p = [kind |-> p.kind, session |-> p.session, state |-> p.state, rev |-> p.rev]
    BY <1>4 DEF Patches
  <2>2. p.kind \in {"patch"} /\ p.state \in {x} /\ p.rev \in 1 .. r
    BY <1>4 DEF Patches
  <2>3. p.session \in {s}
    BY <1>4 DEF OfSession, Patches
  <2>4. QED
    BY <2>1, <2>2, <2>3 DEF OfSession, Patches
<1>5. QED
  BY <1>2, <1>3, <1>4

\* What was in the log stays where it was.
LEMMA PrefixStays ==
    ASSUME NEW S, NEW l \in Seq(S), NEW e \in S, NEW n \in 0 .. Len(l)
    PROVE  SubSeq(Append(l, e), 1, n) = SubSeq(l, 1, n)
<1> DEFINE k == Append(l, e)
<1>1. Len(l) \in Nat /\ n \in Int
  BY LenProperties
<1>2. \A i \in 1 .. n : l[i] \in S /\ k[i] = l[i]
  BY <1>1, AppendProperties, ElementOfSeq
<1>3. /\ SubSeq(l, 1, n) \in Seq(S)
      /\ Len(SubSeq(l, 1, n)) = IF 1 <= n THEN n - 1 + 1 ELSE 0
      /\ \A i \in 1 .. n - 1 + 1 : SubSeq(l, 1, n)[i] = l[1 + i - 1]
  BY <1>1, <1>2, SubSeqProperties
<1>4. /\ SubSeq(k, 1, n) \in Seq(S)
      /\ Len(SubSeq(k, 1, n)) = IF 1 <= n THEN n - 1 + 1 ELSE 0
      /\ \A i \in 1 .. n - 1 + 1 : SubSeq(k, 1, n)[i] = k[1 + i - 1]
  <2>1. \A i \in 1 .. n : k[i] \in S
    BY <1>2
  <2> HIDE DEF k
  <2>2. QED
    BY <1>1, <2>1, SubSeqProperties
<1> HIDE DEF k
<1>5. PICK a, b : a = SubSeq(l, 1, n) /\ b = SubSeq(k, 1, n)
  OBVIOUS
<1>6. a \in Seq(S) /\ b \in Seq(S) /\ Len(a) = Len(b)
  BY <1>3, <1>4, <1>5
<1>7. \A i \in 1 .. Len(a) : a[i] = b[i]
  BY <1>1, <1>2, <1>3, <1>4, <1>5
<1>8. a = b
  BY <1>6, <1>7, SeqEqual
<1>9. QED
  BY <1>5, <1>8 DEF k

\* A sequence of S has the part before a position and the part after it.
LEMMA SplitLog ==
    ASSUME NEW S, NEW l \in Seq(S), NEW n \in 0 .. Len(l)
    PROVE  /\ SubSeq(l, 1, n) \in Seq(S) /\ SubSeq(l, n + 1, Len(l)) \in Seq(S)
           /\ SubSeq(l, 1, n) \o SubSeq(l, n + 1, Len(l)) = l
           /\ Len(SubSeq(l, 1, n)) = n
<1>1. Len(l) \in Nat /\ n \in Nat
  BY LenProperties
<1>2. /\ \A i \in 1 .. n : l[i] \in S
      /\ \A i \in n + 1 .. Len(l) : l[i] \in S
  BY <1>1, ElementOfSeq
<1>3. SubSeq(l, 1, n) \in Seq(S) /\ Len(SubSeq(l, 1, n)) = n
  BY <1>1, <1>2, SubSeqProperties
<1>4. SubSeq(l, n + 1, Len(l)) \in Seq(S)
  BY <1>1, <1>2, SubSeqProperties
<1>5. SubSeq(l, 1, n) \o SubSeq(l, n + 1, Len(l)) = SubSeq(l, 1, Len(l))
  <2>1. 1 \in 1 .. Len(l) + 1 /\ n \in 1 - 1 .. Len(l) /\ Len(l) \in n .. Len(l)
    BY <1>1
  <2>2. QED
    BY <2>1, ConcatAdjacentSubSeq
<1>6. QED
  BY <1>3, <1>4, <1>5, SubSeqFull
\* What was of one moment of the log is so when the log has grown.
LEMMA MomentStays ==
    ASSUME NEW S, NEW l \in Seq(S), NEW e \in S, NEW n0 \in Nat,
           NEW v, NEW s, NEW x, NEW r, OneMoment(l, n0, v, s, x, r)
    PROVE  OneMoment(Append(l, e), n0, v, s, x, r)
<1>1. PICK n \in n0 .. Len(l) :
          Select(v, OfSession(s, x, Unbounded)) = Select(SubSeq(l, 1, n), OfSession(s, x, r))
  BY DEF OneMoment
<1>2. Len(l) \in Nat /\ Len(Append(l, e)) = Len(l) + 1
  BY LenProperties, AppendProperties
<1>3. n \in 0 .. Len(l) /\ n \in n0 .. Len(Append(l, e))
  BY <1>2
<1>4. SubSeq(Append(l, e), 1, n) = SubSeq(l, 1, n)
  BY <1>3, PrefixStays
<1>5. PICK k : k = Append(l, e)
  OBVIOUS
<1>6. OneMoment(k, n0, v, s, x, r)
  BY <1>1, <1>3, <1>4, <1>5, Zenon DEF OneMoment
<1>7. QED
  BY <1>5, <1>6

\* The last part of a sequence, when one element is appended.
LEMMA SuffixGrows ==
    ASSUME NEW S, NEW a \in Seq(S), NEW e \in S, NEW m \in 1 .. Len(a) + 1
    PROVE  /\ SubSeq(a, m, Len(a)) \in Seq(S)
           /\ SubSeq(Append(a, e), m, Len(a) + 1) = Append(SubSeq(a, m, Len(a)), e)
<1> DEFINE b == Append(a, e)
           L == Len(a)
<1>1. L \in Nat /\ m \in Int
  BY LenProperties
<1>2. Len(b) = L + 1 /\ b[L + 1] = e /\ (\A i \in 1 .. L : b[i] = a[i] /\ a[i] \in S)
  BY AppendProperties, ElementOfSeq
<1>3. \A i \in 1 .. L + 1 : b[i] \in S
  BY <1>1, <1>2
<1>4. /\ SubSeq(a, m, L) \in Seq(S)
      /\ Len(SubSeq(a, m, L)) = IF m <= L THEN L - m + 1 ELSE 0
      /\ \A i \in 1 .. L - m + 1 : SubSeq(a, m, L)[i] = a[m + i - 1]
  BY <1>1, <1>2, SubSeqProperties
<1>5. /\ SubSeq(b, m, L + 1) \in Seq(S)
      /\ Len(SubSeq(b, m, L + 1)) = L + 1 - m + 1
      /\ \A i \in 1 .. L + 1 - m + 1 : SubSeq(b, m, L + 1)[i] = b[m + i - 1]
  <2>1. m <= L + 1 /\ L + 1 \in Int /\ \A i \in m .. L + 1 : b[i] \in S
    BY <1>1, <1>3
  <2> HIDE DEF b, L
  <2>2. QED
    BY <1>1, <2>1, SubSeqProperties
<1>6. PICK u, w : u = SubSeq(a, m, L) /\ w = SubSeq(b, m, L + 1)
  OBVIOUS
<1>7. u \in Seq(S) /\ Len(u) = L - m + 1 /\ \A i \in 1 .. L - m + 1 : u[i] = a[m + i - 1]
  BY <1>1, <1>4, <1>6
<1>8. w \in Seq(S) /\ Len(w) = L - m + 2 /\ \A i \in 1 .. L - m + 2 : w[i] = b[m + i - 1]
  <2>1. L + 1 - m + 1 = L - m + 2
    BY <1>1
  <2> HIDE DEF b, L
  <2>2. QED
    BY <1>5, <1>6, <2>1, Zenon
<1>9. PICK z : z = Append(u, e)
  OBVIOUS
<1>10. /\ z \in Seq(S) /\ Len(z) = L - m + 2 /\ z[L - m + 2] = e
       /\ \A i \in 1 .. L - m + 1 : z[i] = u[i]
  <2>1. z \in Seq(S) /\ Len(z) = Len(u) + 1 /\ z[Len(u) + 1] = e /\ \A i \in 1 .. Len(u) : z[i] = u[i]
    <3>1. u \in Seq(S)
      BY <1>7
    <3>2. QED
      BY <3>1, <1>9, AppendProperties
  <2>2. (L - m + 1) + 1 = L - m + 2
    BY <1>1
  <2> HIDE DEF L
  <2>3. QED
    BY <1>7, <2>1, <2>2, Zenon
<1> HIDE DEF b, L
<1>11. ASSUME NEW i \in 1 .. Len(w)
       PROVE  w[i] = z[i]
  <2>1. CASE i \in 1 .. L - m + 1
    <3>1. m + i - 1 \in 1 .. L
      BY <1>1, <2>1
    <3>2. QED
      BY <1>1, <1>2, <1>7, <1>8, <1>10, <2>1, <3>1
  <2>2. CASE i = L - m + 2
    <3>1. m + i - 1 = L + 1
      BY <1>1, <2>2
    <3>2. QED
      BY <1>1, <1>2, <1>8, <1>10, <2>2, <3>1
  <2>3. QED
    BY <1>1, <1>8, <2>1, <2>2
<1>12. w = z
  <2>1. Len(w) = Len(z)
    BY <1>8, <1>10
  <2>2. QED
    BY <1>8, <1>10, <1>11, <2>1, SeqEqual
<1>13. QED
  BY <1>4, <1>6, <1>9, <1>12 DEF b, L

\* What misses one stretch of a sequence misses the same stretch when both get one more.
LEMMA AllButStretchGrows ==
    ASSUME NEW S, NEW a \in Seq(S), NEW u, NEW e \in S, AllButStretch(u, a)
    PROVE  AllButStretch(Append(u, e), Append(a, e))
<1>1. PICK n \in 0 .. Len(a), m \in 1 .. Len(a) + 1 :
          n < m /\ u = SubSeq(a, 1, n) \o SubSeq(a, m, Len(a))
  BY DEF AllButStretch
<1>2. PICK b, d : b = Append(a, e) /\ d = Append(u, e)
  OBVIOUS
<1>3. Len(a) \in Nat /\ Len(b) = Len(a) + 1
  BY <1>2, LenProperties, AppendProperties
<1>4. SubSeq(b, 1, n) = SubSeq(a, 1, n)
  BY <1>2, PrefixStays
<1>5. SubSeq(b, m, Len(b)) = Append(SubSeq(a, m, Len(a)), e)
  BY <1>2, <1>3, SuffixGrows
<1>6. PICK p, w : p = SubSeq(a, 1, n) /\ w = SubSeq(a, m, Len(a))
  OBVIOUS
<1>7. p \in Seq(S) /\ w \in Seq(S) /\ <<e>> \in Seq(S) /\ p \o w \in Seq(S)
  <2>1. p \in Seq(S)
    BY <1>6, SplitLog
  <2>2. w \in Seq(S)
    BY <1>6, SuffixGrows
  <2>3. QED
    BY <2>1, <2>2, ConcatProperties
<1>8. Append(p \o w, e) = p \o Append(w, e)
  <2>1. (p \o w) \o <<e>> = p \o (w \o <<e>>)
    BY <1>7, ConcatAssociative
  <2>2. Append(p \o w, e) = (p \o w) \o <<e>> /\ Append(w, e) = w \o <<e>>
    BY <1>7, AppendIsConcat
  <2>3. QED
    BY <2>1, <2>2
<1>9. d = SubSeq(b, 1, n) \o SubSeq(b, m, Len(b))
  BY <1>1, <1>2, <1>4, <1>5, <1>6, <1>8
<1>10. n \in 0 .. Len(b) /\ m \in 1 .. Len(b) + 1
  BY <1>3
<1>11. AllButStretch(d, b)
  BY <1>1, <1>9, <1>10 DEF AllButStretch
<1>12. QED
  BY <1>2, <1>11

\* What has the beginning of a sequence misses one stretch of it, the rest.
LEMMA BeginningIsStretch ==
    ASSUME NEW S, NEW u \in Seq(S), NEW w \in Seq(S)
    PROVE  AllButStretch(u, u \o w)
<1>1. PICK a : a = u \o w
  OBVIOUS
<1>2. /\ a \in Seq(S) /\ Len(a) = Len(u) + Len(w) /\ Len(u) \in Nat /\ Len(w) \in Nat
      /\ \A i \in 1 .. Len(u) : a[i] = u[i]
  BY <1>1, ConcatProperties, LenProperties
<1>3. Len(u) \in 0 .. Len(a) /\ Len(a) + 1 \in 1 .. Len(a) + 1 /\ Len(u) < Len(a) + 1
  BY <1>2
<1>4. SubSeq(a, 1, Len(u)) = u
  <2>1. \A i \in 1 .. Len(u) : a[i] \in S
    BY <1>2, ElementOfSeq
  <2>2. /\ SubSeq(a, 1, Len(u)) \in Seq(S)
        /\ Len(SubSeq(a, 1, Len(u))) = IF 1 <= Len(u) THEN Len(u) - 1 + 1 ELSE 0
        /\ \A i \in 1 .. Len(u) - 1 + 1 : SubSeq(a, 1, Len(u))[i] = a[1 + i - 1]
    BY <1>2, <2>1, SubSeqProperties
  <2>3. PICK p : p = SubSeq(a, 1, Len(u))
    OBVIOUS
  <2>4. p \in Seq(S) /\ Len(p) = Len(u) /\ \A i \in 1 .. Len(p) : p[i] = u[i]
    BY <1>2, <2>2, <2>3
  <2>5. p = u
    BY <2>4, SeqEqual
  <2>6. QED
    BY <2>3, <2>5
<1>5. SubSeq(a, Len(a) + 1, Len(a)) = <<>>
  <2>1. Len(a) + 1 \in Int /\ Len(a) \in Int /\ Len(a) + 1 > Len(a)
    BY <1>2
  <2>2. QED
    BY <2>1, SubSeqEmpty
<1>6. u \o <<>> = u
  BY ConcatEmptySeq
<1>7. AllButStretch(u, a)
  BY <1>3, <1>4, <1>5, <1>6 DEF AllButStretch
<1>8. QED
  BY <1>1, <1>7
\* A row that is no patch of the session to the state leaves what is selected alone, one
\* that is comes last.
LEMMA StretchGrows ==
    ASSUME NEW S, NEW l \in Seq(S), NEW v \in Seq(S), NEW e \in S, NEW s, NEW x,
           OneStretch(l, v, s, x)
    PROVE  /\ OneStretch(Append(l, e), Append(v, e), s, x)
           /\ e \notin OfSession(s, x, Unbounded) => OneStretch(Append(l, e), v, s, x)
<1> DEFINE O == OfSession(s, x, Unbounded)
           a == Select(l, O)
           u == Select(v, O)
<1>1. a \in Seq(S \cap O)
  BY SelectIn
<1>2. /\ Select(Append(l, e), O) = IF e \in O THEN Append(a, e) ELSE a
      /\ Select(Append(v, e), O) = IF e \in O THEN Append(u, e) ELSE u
  BY SelectAppend
<1>3. AllButStretch(u, a)
  BY DEF OneStretch
<1>4. e \in O => AllButStretch(Append(u, e), Append(a, e))
  <2> HIDE DEF O, a, u
  <2>1. \A R, w : \A b \in Seq(R), d \in R :
            AllButStretch(w, b) => AllButStretch(Append(w, d), Append(b, d))
    BY AllButStretchGrows
  <2>2. e \in O => e \in S \cap O
    OBVIOUS
  <2>3. QED
    BY <1>1, <1>3, <2>1, <2>2, Zenon
<1> HIDE DEF O, a, u
<1>5. /\ AllButStretch(Select(Append(v, e), O), Select(Append(l, e), O))
      /\ e \notin O => AllButStretch(u, Select(Append(l, e), O))
  BY <1>2, <1>3, <1>4
<1>6. QED
  BY <1>5, Zenon DEF OneStretch, O, u

\* What was read without a bound, as of one moment of the log, misses one stretch, the end.
LEMMA MomentIsStretch ==
    ASSUME NEW S, NEW l \in Seq(S), NEW n0 \in Nat, NEW v, NEW s, NEW x,
           OneMoment(l, n0, v, s, x, Unbounded)
    PROVE  OneStretch(l, v, s, x)
<1> DEFINE O == OfSession(s, x, Unbounded)
<1>1. PICK n \in n0 .. Len(l) : Select(v, O) = Select(SubSeq(l, 1, n), O)
  BY DEF OneMoment
<1>2. n \in 0 .. Len(l)
  BY LenProperties
<1>3. PICK b, d : b = SubSeq(l, 1, n) /\ d = SubSeq(l, n + 1, Len(l))
  OBVIOUS
<1>4. b \in Seq(S) /\ d \in Seq(S) /\ b \o d = l
  BY <1>2, <1>3, SplitLog
<1>5. Select(l, O) = Select(b, O) \o Select(d, O)
  BY <1>4, SelectConcatAll, Zenon
<1>6. Select(b, O) \in Seq(S \cap O) /\ Select(d, O) \in Seq(S \cap O)
  BY <1>4, SelectIn
<1>7. AllButStretch(Select(b, O), Select(b, O) \o Select(d, O))
  BY <1>6, BeginningIsStretch
<1> HIDE DEF O
<1>8. AllButStretch(Select(v, O), Select(l, O))
  BY <1>1, <1>3, <1>5, <1>7
<1>9. QED
  BY <1>8 DEF OneStretch, O

\* A replay from a snapshot has the patches of the session, within the bound, of the
\* moment in which it reads the patches.
LEMMA ReplayIsMoment ==
    ASSUME NEW S, NEW l \in Seq(S), NEW b \in 0 .. Len(l), NEW n0 \in 0 .. Len(l),
           NEW s \in Sessions, NEW x, NEW r0 \in Nat, NEW r \in Nat, r0 <= r, r <= Unbounded,
           NEW v, v = Select(SubSeq(l, 1, b), OfSession(s, x, Unbounded)),
           v \in Seq(OfSession(s, x, r0))
    PROVE  OneMoment(l, n0,
                     v \o Select(SubSeq(l, b + 1, Len(l)), Patches(Sessions, x, r)), s, x, r)
<1>1. PICK p, d : p = SubSeq(l, 1, b) /\ d = SubSeq(l, b + 1, Len(l))
  OBVIOUS
<1>2. p \in Seq(S) /\ d \in Seq(S) /\ p \o d = l
  BY <1>1, SplitLog
<1>3. PICK A, O, P : /\ A = Patches(Sessions, x, r) /\ O = OfSession(s, x, Unbounded)
                     /\ P = OfSession(s, x, r)
  OBVIOUS
<1>4. O \cap P = P /\ A \cap O = P /\ P \subseteq O
  <2>1. Unbounded \in Nat
    BY UnboundedIsNat
  <2>2. QED
    BY <1>3, <2>1, PatchesMeet
<1>5. v \in Seq(P)
  <2>1. OfSession(s, x, r0) \subseteq P
    BY <1>3, PatchesMeet
  <2>2. QED
    BY <2>1, SeqMonotonic
<1>6. PICK q : q = Select(d, A)
  OBVIOUS
<1>7. q \in Seq(S \cap A)
  BY <1>2, <1>6, SelectIn
<1>8. Select(v \o q, O) = Select(v, O) \o Select(q, O)
  <2>1. v \in Seq(P \cup S) /\ q \in Seq(P \cup S)
    BY <1>5, <1>7, SeqMonotonic
  <2>2. QED
    BY <2>1, SelectConcatAll, Zenon
<1>9. Select(v, O) = v
  BY <1>4, <1>5, SelectAll
<1>10. Select(q, O) = Select(d, P)
  BY <1>2, <1>4, <1>6, SelectSelect
<1>11. v = Select(p, P)
  <2>1. v = Select(v, P)
    BY <1>5, SelectAll
  <2>2. v = Select(p, O)
    BY <1>1, <1>3
  <2>3. Select(Select(p, O), P) = Select(p, O \cap P)
    BY <1>2, SelectSelect
  <2>4. QED
    BY <1>4, <2>1, <2>2, <2>3
<1>12. Select(l, P) = Select(p, P) \o Select(d, P)
  BY <1>2, SelectConcatAll, Zenon
<1>13. Select(v \o q, O) = Select(l, P)
  BY <1>8, <1>9, <1>10, <1>11, <1>12
<1>14. SubSeq(l, 1, Len(l)) = l /\ Len(l) \in n0 .. Len(l)
  BY SubSeqFull, LenProperties
<1>15. PICK w : w = v \o q
  OBVIOUS
<1>16. OneMoment(l, n0, w, s, x, r)
  BY <1>3, <1>13, <1>14, <1>15, Zenon DEF OneMoment
<1>17. QED
  BY <1>1, <1>3, <1>6, <1>15, <1>16
-----------------------------------------------------------------------------
(* The invariant. *)

Typed ==
    /\ log \in Seq(Rows)
    /\ rev \in [Sessions -> 0 .. MaxRev]
    /\ todo \in [Sessions -> SUBSET States]
    /\ snapshots \in [Sessions -> 0 .. MaxSnapshots]
    /\ alive \subseteq Sessions
    /\ pc \in [Readers -> {"idle", "reading", "over", "failed", "watching"}]
    /\ value \in [Sessions -> [States -> Seq(AllPatches)]]
    /\ sess \in [Readers -> Sessions]
    /\ bound \in [Readers -> 0 .. Unbounded]
    /\ scope \in [Readers -> SUBSET States]
    /\ left \in [Readers -> SUBSET States]
    /\ cursor \in [Readers -> States \cup {NoState}]
    /\ base \in [Readers -> Nat]
    /\ result \in [Readers -> [States -> Seq(AllPatches)]]
    /\ began \in [Readers -> Nat]

\* The log has what every process did to its states, and snapshots what was done before.
Holds(l, rv, val, s, x) ==
    /\ val[s][x] = Select(l, OfSession(s, x, Unbounded))
    /\ val[s][x] \in Seq(OfSession(s, x, rv[s]))

RecordedAll(l) == \A n \in 1 .. Len(l) : Recorded(l, n)

LogInv ==
    /\ RecordedAll(log)
    /\ \A s \in Sessions, x \in States : Holds(log, rev, value, s, x)

\* A reader has read what was in the log at one moment since it began, and starts from a
\* snapshot of its session within its bound.
Anchored(l, b, s, x, r) ==
    /\ b \in 1 .. Len(l)
    /\ l[b].kind = "snapshot" /\ l[b].session = s /\ l[b].state = x /\ l[b].rev <= r

ReaderOK(l, p, s, r, sc, lf, c, b, res, bg) ==
    /\ bg \in 0 .. Len(l)
    /\ lf \subseteq sc /\ c \in lf \cup {NoState}
    /\ p = "idle" => c = NoState
    /\ p = "over" => lf = {}
    /\ c # NoState => Anchored(l, b, s, c, r)
    /\ p \in {"reading", "over"} => \A x \in sc \ lf : OneMoment(l, bg, res[x], s, x, r)
    /\ p = "watching" => \A x \in sc : OneStretch(l, res[x], s, x)

ReaderInv ==
    \A q \in Readers : ReaderOK(log, pc[q], sess[q], bound[q], scope[q], left[q], cursor[q],
                                base[q], result[q], began[q])

StateLogInv == Typed /\ LogInv /\ ReaderInv

\* The rows that are not patches.
LEMMA RowsByKind ==
    /\ \A e \in Rows : e.kind \in {"session", "snapshot", "patch"}
    /\ \A e \in Rows : e.kind = "snapshot" =>
           /\ e.session \in Sessions /\ e.state \in States /\ e.rev \in 0 .. MaxRev
           /\ e.value \in Seq(AllPatches)
    /\ \A s \in Sessions, x \in States, r \in 0 .. Unbounded :
           /\ OfSession(s, x, r) \subseteq AllPatches
           /\ Patches(Sessions, x, r) \subseteq AllPatches
    /\ \A e \in AllPatches : e.kind = "patch"
<1>1. \A e \in SessionRows : e.kind = "session"
  BY DEF SessionRows
<1>2. \A e \in SnapshotRows : /\ e.kind = "snapshot"
                              /\ e.session \in Sessions /\ e.state \in States
                              /\ e.rev \in 0 .. MaxRev /\ e.value \in Seq(AllPatches)
  BY DEF SnapshotRows
<1>3. \A e \in AllPatches : e.kind = "patch"
  BY DEF AllPatches
<1>4. ASSUME NEW x \in States, NEW r \in 0 .. Unbounded
      PROVE  Patches(Sessions, x, r) \subseteq AllPatches
  <2>1. 1 .. r \subseteq 1 .. Unbounded
    BY UnboundedIsNat
  <2>2. QED
    BY <2>1 DEF Patches, AllPatches
<1>5. \A x, r : \A s \in Sessions : OfSession(s, x, r) \subseteq Patches(Sessions, x, r)
  BY DEF OfSession, Patches
<1>6. QED
  BY <1>1, <1>2, <1>3, <1>4, <1>5 DEF Rows

\* A row that is not a patch, or is one of another process or state, leaves alone what is
\* selected.
LEMMA OtherRow ==
    ASSUME NEW l \in Seq(Rows), NEW e \in Rows, NEW s, NEW x, NEW r, e \notin OfSession(s, x, r)
    PROVE  Select(Append(l, e), OfSession(s, x, r)) = Select(l, OfSession(s, x, r))
BY SelectAppend

\* The snapshots of a log stay what they are, and a new one is as they are.
LEMMA RecordedGrows ==
    ASSUME NEW l \in Seq(Rows), NEW e \in Rows, RecordedAll(l),
           e.kind = "snapshot" =>
               /\ e.value = Select(l, OfSession(e.session, e.state, Unbounded))
               /\ e.value \in Seq(OfSession(e.session, e.state, e.rev))
    PROVE  RecordedAll(Append(l, e))
<1>1. PICK k : k = Append(l, e)
  OBVIOUS
<1>2. /\ k \in Seq(Rows) /\ Len(k) = Len(l) + 1 /\ Len(l) \in Nat /\ k[Len(l) + 1] = e
      /\ \A n \in 1 .. Len(l) : k[n] = l[n]
  BY <1>1, AppendProperties, LenProperties
<1>3. ASSUME NEW n \in 1 .. Len(l)
      PROVE  Recorded(k, n)
  <2>1. SubSeq(k, 1, n) = SubSeq(l, 1, n)
    BY <1>1, PrefixStays
  <2>2. k[n] = l[n]
    BY <1>2
  <2>3. Recorded(l, n)
    BY DEF RecordedAll
  <2>4. QED
    BY <2>1, <2>2, <2>3, Zenon DEF Recorded
<1>4. Recorded(k, Len(k))
  <2> SUFFICES ASSUME e.kind = "snapshot"
               PROVE  /\ e.value = Select(SubSeq(k, 1, Len(k)),
                                          OfSession(e.session, e.state, Unbounded))
                      /\ e.value \in Seq(OfSession(e.session, e.state, e.rev))
    <3>1. k[Len(k)] = e
      BY <1>2
    <3>2. QED
      BY <3>1, Zenon DEF Recorded
  <2>1. SubSeq(k, 1, Len(k)) = k
    BY <1>2, SubSeqFull
  <2>2. e \notin OfSession(e.session, e.state, Unbounded)
    BY RowsByKind, UnboundedIsNat
  <2>3. Select(k, OfSession(e.session, e.state, Unbounded))
            = Select(l, OfSession(e.session, e.state, Unbounded))
    BY <1>1, <2>2, OtherRow
  <2>4. QED
    BY <2>1, <2>3
<1>5. RecordedAll(k)
  <2>1. \A n \in 1 .. Len(k) : n \in 1 .. Len(l) \/ n = Len(k)
    BY <1>2
  <2>2. QED
    BY <1>3, <1>4, <2>1, Zenon DEF RecordedAll
<1>6. QED
  BY <1>1, <1>5

\* A reader is not disturbed by a row that is not a patch.
LEMMA ReaderStays ==
    ASSUME NEW l \in Seq(Rows), NEW e \in Rows \ AllPatches, NEW p, NEW s \in Sessions, NEW r,
           NEW sc \in SUBSET States, NEW lf, NEW c, NEW b, NEW res \in [States -> Seq(AllPatches)],
           NEW bg, ReaderOK(l, p, s, r, sc, lf, c, b, res, bg)
    PROVE  ReaderOK(Append(l, e), p, s, r, sc, lf, c, b, res, bg)
<1>1. PICK k : k = Append(l, e)
  OBVIOUS
<1>2. /\ Len(k) = Len(l) + 1 /\ Len(l) \in Nat /\ bg \in 0 .. Len(l)
      /\ \A n \in 1 .. Len(l) : k[n] = l[n]
  BY <1>1, AppendProperties, LenProperties DEF ReaderOK
<1>3. bg \in 0 .. Len(k) /\ bg \in Nat
  BY <1>2
<1>4. c # NoState => Anchored(k, b, s, c, r)
  <2> SUFFICES ASSUME c # NoState
               PROVE  Anchored(k, b, s, c, r)
    OBVIOUS
  <2>1. Anchored(l, b, s, c, r)
    BY DEF ReaderOK
  <2>2. b \in 1 .. Len(l)
    BY <2>1 DEF Anchored
  <2>3. b \in 1 .. Len(k) /\ k[b] = l[b]
    BY <1>2, <2>2
  <2>4. QED
    BY <2>1, <2>3, Zenon DEF Anchored
<1>5. ASSUME NEW x \in sc \ lf, p \in {"reading", "over"}
      PROVE  OneMoment(k, bg, res[x], s, x, r)
  <2>1. OneMoment(l, bg, res[x], s, x, r)
    BY <1>5 DEF ReaderOK
  <2>2. QED
    BY <1>1, <1>3, <2>1, MomentStays
<1>6. ASSUME NEW x \in sc, p = "watching"
      PROVE  OneStretch(k, res[x], s, x)
  <2>1. OneStretch(l, res[x], s, x)
    BY <1>6 DEF ReaderOK
  <2>2. e \notin OfSession(s, x, Unbounded)
    BY RowsByKind, UnboundedIsNat
  <2>3. res[x] \in Seq(Rows)
    BY SeqMonotonic DEF Rows
  <2>4. QED
    BY <1>1, <2>1, <2>2, <2>3, StretchGrows
<1>7. ReaderOK(k, p, s, r, sc, lf, c, b, res, bg)
  BY <1>3, <1>4, <1>5, <1>6, Zenon DEF ReaderOK
<1>8. QED
  BY <1>1, <1>7

\* What a reader has after a patch.
Sent(res, p, sc, e) ==
    IF p = "watching" /\ e.state \in sc THEN [res EXCEPT ![e.state] = Append(@, e)] ELSE res

\* A patch disturbs no query, and a watcher that it is sent to misses no more than before.
LEMMA ReaderGetsPatch ==
    ASSUME NEW l \in Seq(Rows), NEW e \in AllPatches, NEW p, NEW s \in Sessions, NEW r,
           NEW sc \in SUBSET States, NEW lf, NEW c, NEW b, NEW res \in [States -> Seq(AllPatches)],
           NEW bg, ReaderOK(l, p, s, r, sc, lf, c, b, res, bg)
    PROVE  /\ ReaderOK(Append(l, e), p, s, r, sc, lf, c, b, Sent(res, p, sc, e), bg)
           /\ Sent(res, p, sc, e) \in [States -> Seq(AllPatches)]
<1>1. PICK new : new = Sent(res, p, sc, e)
  OBVIOUS
<1>2. new = IF p = "watching" /\ e.state \in sc
            THEN [res EXCEPT ![e.state] = Append(@, e)] ELSE res
  BY <1>1 DEF Sent
<1>3. PICK k : k = Append(l, e)
  OBVIOUS
<1>4. /\ e \in Rows /\ Len(k) = Len(l) + 1 /\ Len(l) \in Nat /\ bg \in 0 .. Len(l)
      /\ \A n \in 1 .. Len(l) : k[n] = l[n]
  BY <1>3, AppendProperties, LenProperties DEF ReaderOK, Rows
<1>5. bg \in 0 .. Len(k) /\ bg \in Nat
  BY <1>4
<1>6. c # NoState => Anchored(k, b, s, c, r)
  <2> SUFFICES ASSUME c # NoState
               PROVE  Anchored(k, b, s, c, r)
    OBVIOUS
  <2>1. Anchored(l, b, s, c, r)
    BY DEF ReaderOK
  <2>2. b \in 1 .. Len(l)
    BY <2>1 DEF Anchored
  <2>3. b \in 1 .. Len(k) /\ k[b] = l[b]
    BY <1>4, <2>2
  <2>4. QED
    BY <2>1, <2>3, Zenon DEF Anchored
<1>7. ASSUME NEW x \in sc \ lf, p \in {"reading", "over"}
      PROVE  OneMoment(k, bg, new[x], s, x, r)
  <2>1. OneMoment(l, bg, res[x], s, x, r) /\ new = res
    BY <1>7, <1>2 DEF ReaderOK
  <2>2. QED
    BY <1>3, <1>4, <1>5, <2>1, MomentStays
<1>8. e.state \in States
  BY DEF AllPatches
<1>9. ASSUME NEW x \in sc, p = "watching"
      PROVE  OneStretch(k, new[x], s, x)
  <2>1. OneStretch(l, res[x], s, x)
    BY <1>9 DEF ReaderOK
  <2>2. res[x] \in Seq(Rows)
    BY SeqMonotonic DEF Rows
  <2>3. /\ OneStretch(k, Append(res[x], e), s, x)
        /\ e \notin OfSession(s, x, Unbounded) => OneStretch(k, res[x], s, x)
    BY <1>3, <1>4, <2>1, <2>2, StretchGrows
  <2>4. x # e.state => e \notin OfSession(s, x, Unbounded)
    BY DEF OfSession, Patches
  <2>5. CASE x = e.state
    <3>1. new[x] = Append(res[x], e)
      BY <1>2, <1>9, <2>5
    <3>2. QED
      BY <2>3, <3>1
  <2>6. CASE x # e.state
    <3>1. new[x] = res[x]
      BY <1>2, <1>9, <2>6
    <3>2. QED
      BY <2>3, <2>4, <2>6, <3>1
  <2>7. QED
    BY <2>5, <2>6
<1>10. ReaderOK(k, p, s, r, sc, lf, c, b, new, bg)
  BY <1>5, <1>6, <1>7, <1>9, Zenon DEF ReaderOK
<1>11. new \in [States -> Seq(AllPatches)]
  <2>1. Append(res[e.state], e) \in Seq(AllPatches)
    BY <1>8, AppendProperties
  <2>2. QED
    BY <1>2, <2>1
<1>12. QED
  BY <1>1, <1>3, <1>10, <1>11

\* What a process did to its states is not disturbed by a row that is not a patch.
LEMMA LogGrows ==
    ASSUME NEW l \in Seq(Rows), NEW e \in Rows \ AllPatches, NEW rv, NEW val,
           \A s \in Sessions, x \in States : Holds(l, rv, val, s, x)
    PROVE  \A s \in Sessions, x \in States : Holds(Append(l, e), rv, val, s, x)
<1> TAKE s \in Sessions, x \in States
<1>1. e \notin OfSession(s, x, Unbounded)
  BY RowsByKind, UnboundedIsNat
<1>2. Select(Append(l, e), OfSession(s, x, Unbounded)) = Select(l, OfSession(s, x, Unbounded))
  BY <1>1, OtherRow
<1>3. Holds(l, rv, val, s, x)
  OBVIOUS
<1>4. QED
  BY <1>2, <1>3, Zenon DEF Holds
-----------------------------------------------------------------------------
(* Every step keeps the invariant. *)

LEMMA InvInit == Init => StateLogInv
<1> SUFFICES ASSUME Init
             PROVE  StateLogInv
  OBVIOUS
<1>1. Typed
  <2>1. <<>> \in Seq(Rows) /\ <<>> \in Seq(AllPatches)
    BY EmptySeq
  <2>2. Unbounded \in 0 .. Unbounded /\ 0 \in 0 .. MaxRev /\ 0 \in 0 .. MaxSnapshots
    BY UnboundedIsNat, BoundsAssumption
  <2>3. QED
    BY <2>1, <2>2 DEF Init, Typed
<1>2. LogInv
  <2>1. Len(log) = 0
    BY EmptySeq DEF Init
  <2>2. RecordedAll(log)
    BY <2>1 DEF RecordedAll
  <2>3. ASSUME NEW s \in Sessions, NEW x \in States
        PROVE  Holds(log, rev, value, s, x)
    <3>1. value[s][x] = <<>> /\ log = <<>>
      BY DEF Init
    <3>2. <<>> \in Seq(OfSession(s, x, rev[s]))
      BY EmptySeq
    <3>3. Select(<<>>, OfSession(s, x, Unbounded)) = <<>>
      BY SelectEmpty
    <3>4. QED
      BY <3>1, <3>2, <3>3 DEF Holds
  <2>4. QED
    BY <2>2, <2>3 DEF LogInv
<1>3. ReaderInv
  <2> SUFFICES ASSUME NEW q \in Readers
               PROVE  ReaderOK(log, pc[q], sess[q], bound[q], scope[q], left[q], cursor[q],
                               base[q], result[q], began[q])
    BY DEF ReaderInv
  <2>1. Len(log) = 0
    BY EmptySeq DEF Init
  <2>2. pc[q] = "idle" /\ scope[q] = {} /\ left[q] = {} /\ cursor[q] = NoState /\ began[q] = 0
    BY DEF Init
  <2>3. QED
    BY <2>1, <2>2 DEF ReaderOK
<1>4. QED
  BY <1>1, <1>2, <1>3 DEF StateLogInv

\* A row that is no patch keeps the log and the readers as they should be.
LEMMA InvGrows ==
    ASSUME StateLogInv, NEW e \in Rows \ AllPatches, log' = Append(log, e),
           UNCHANGED <<rev, value, readerVars>>,
           e.kind = "snapshot" =>
               /\ e.value = Select(log, OfSession(e.session, e.state, Unbounded))
               /\ e.value \in Seq(OfSession(e.session, e.state, e.rev))
    PROVE  log' \in Seq(Rows) /\ LogInv' /\ ReaderInv'
<1>1. Typed /\ LogInv /\ ReaderInv
  BY DEF StateLogInv
<1>2. log' \in Seq(Rows)
  BY <1>1, AppendProperties DEF Typed
<1>3. RecordedAll(log')
  BY <1>1, RecordedGrows DEF Typed, LogInv
<1>4. \A s \in Sessions, x \in States : Holds(log', rev, value, s, x)
  BY <1>1, LogGrows DEF Typed, LogInv
<1>5. ASSUME NEW q \in Readers
      PROVE  ReaderOK(log', pc[q], sess[q], bound[q], scope[q], left[q], cursor[q],
                      base[q], result[q], began[q])
  <2>1. ReaderOK(log, pc[q], sess[q], bound[q], scope[q], left[q], cursor[q],
                 base[q], result[q], began[q])
    BY <1>1 DEF ReaderInv
  <2>2. /\ log \in Seq(Rows) /\ sess[q] \in Sessions /\ scope[q] \in SUBSET States
        /\ result[q] \in [States -> Seq(AllPatches)]
    BY <1>1 DEF Typed
  <2>3. QED
    BY <2>1, <2>2, ReaderStays
<1>6. QED
  BY <1>2, <1>3, <1>4, <1>5 DEF LogInv, ReaderInv, readerVars

\* Neither the log nor the states change.
LEMMA InvLogStays ==
    ASSUME StateLogInv, UNCHANGED <<log, rev, value>>
    PROVE  LogInv'
BY DEF StateLogInv, LogInv

LEMMA InvReadersStay ==
    ASSUME StateLogInv, UNCHANGED <<log, readerVars>>
    PROVE  ReaderInv'
BY DEF StateLogInv, ReaderInv, readerVars

LEMMA InvSessionInit ==
    ASSUME StateLogInv, NEW s \in Sessions, SessionInit(s)
    PROVE  StateLogInv'
<1>1. SessionRow(s) \in Rows \ AllPatches /\ SessionRow(s).kind # "snapshot"
  BY RowsByKind DEF SessionRow, SessionRows, Rows
<1>2. log' \in Seq(Rows) /\ LogInv' /\ ReaderInv'
  <2>1. log' = Append(log, SessionRow(s)) /\ UNCHANGED <<rev, value, readerVars>>
    BY DEF SessionInit
  <2>2. QED
    BY <1>1, <2>1, InvGrows
<1>3. Typed'
  BY <1>2 DEF StateLogInv, Typed, SessionInit, readerVars
<1>4. QED
  BY <1>2, <1>3 DEF StateLogInv

LEMMA InvStateSnapshot ==
    ASSUME StateLogInv, NEW s \in Sessions, StateSnapshot(s)
    PROVE  StateLogInv'
<1>1. Typed'
  BY BoundsAssumption DEF StateLogInv, Typed, StateSnapshot, readerVars
<1>2. LogInv' /\ ReaderInv'
  BY InvLogStays, InvReadersStay DEF StateSnapshot
<1>3. QED
  BY <1>1, <1>2 DEF StateLogInv

LEMMA InvDie ==
    ASSUME StateLogInv, NEW s \in Sessions, Die(s)
    PROVE  StateLogInv'
<1>1. Typed'
  BY DEF StateLogInv, Typed, Die, readerVars
<1>2. LogInv' /\ ReaderInv'
  BY InvLogStays, InvReadersStay DEF Die
<1>3. QED
  BY <1>1, <1>2 DEF StateLogInv

LEMMA InvWriteSnapshot ==
    ASSUME StateLogInv, NEW s \in Sessions, NEW x \in States, WriteSnapshot(s, x)
    PROVE  StateLogInv'
<1>1. PICK e : e = SnapshotRow(s, x)
  OBVIOUS
<1>2. Holds(log, rev, value, s, x) /\ rev[s] \in 0 .. MaxRev /\ value[s][x] \in Seq(AllPatches)
  BY DEF StateLogInv, LogInv, Typed
<1>3. /\ e.kind = "snapshot" /\ e.session = s /\ e.state = x
      /\ e.rev = rev[s] /\ e.value = value[s][x]
  BY <1>1 DEF SnapshotRow
<1>4. e \in Rows \ AllPatches
  <2>1. e \in SnapshotRows
    BY <1>1, <1>2 DEF SnapshotRow, SnapshotRows
  <2>2. QED
    BY <1>3, <2>1, RowsByKind DEF Rows
<1>5. /\ e.value = Select(log, OfSession(e.session, e.state, Unbounded))
      /\ e.value \in Seq(OfSession(e.session, e.state, e.rev))
  BY <1>2, <1>3, Zenon DEF Holds
<1>6. log' \in Seq(Rows) /\ LogInv' /\ ReaderInv'
  <2>1. log' = Append(log, e) /\ UNCHANGED <<rev, value, readerVars>>
    BY <1>1 DEF WriteSnapshot
  <2>2. QED
    BY <1>4, <1>5, <2>1, InvGrows
<1>7. Typed'
  BY <1>6 DEF StateLogInv, Typed, WriteSnapshot, readerVars
<1>8. QED
  BY <1>6, <1>7 DEF StateLogInv

LEMMA InvStatePatch ==
    ASSUME StateLogInv, NEW s \in Sessions, NEW x \in States, StatePatch(s, x)
    PROVE  StateLogInv'
<1>1. PICK e : e = PatchRow(s, x)
  OBVIOUS
<1>2. rev[s] \in 0 .. MaxRev /\ rev[s] < MaxRev /\ rev[s] + 1 \in Nat
  BY BoundsAssumption DEF StateLogInv, Typed, StatePatch
<1>3. e \in OfSession(s, x, rev[s] + 1) /\ e \in OfSession(s, x, Unbounded)
  <2>1. rev[s] + 1 \in 1 .. rev[s] + 1 /\ rev[s] + 1 \in 1 .. Unbounded
    BY <1>2, UnboundedIsNat
  <2>2. QED
    BY <1>1, <2>1 DEF PatchRow, OfSession, Patches
<1>4. e \in AllPatches /\ e \in Rows /\ e.kind = "patch" /\ e.session = s /\ e.state = x
  <2>1. e \in AllPatches
    BY <1>3, RowsByKind, UnboundedIsNat
  <2>2. QED
    BY <1>1, <2>1 DEF PatchRow, Rows
<1>5. /\ log' = Append(log, e) /\ rev' = [rev EXCEPT ![s] = @ + 1]
      /\ value' = [value EXCEPT ![s][x] = Append(@, e)]
      /\ result' = [q \in Readers |->
             IF pc[q] = "watching" /\ x \in scope[q]
             THEN [result[q] EXCEPT ![x] = Append(@, e)] ELSE result[q]]
      /\ UNCHANGED <<todo, snapshots, alive, pc, sess, bound, scope, left, cursor, base,
                     revision, began>>
  BY <1>1 DEF StatePatch
<1>6. Typed /\ LogInv /\ ReaderInv
  BY DEF StateLogInv
<1>7. log \in Seq(Rows) /\ log' \in Seq(Rows)
  BY <1>4, <1>5, <1>6, AppendProperties DEF Typed
<1>8. ASSUME NEW q \in Readers
      PROVE  /\ ReaderOK(log', pc'[q], sess'[q], bound'[q], scope'[q], left'[q], cursor'[q],
                         base'[q], result'[q], began'[q])
             /\ result'[q] \in [States -> Seq(AllPatches)]
  <2>1. ReaderOK(log, pc[q], sess[q], bound[q], scope[q], left[q], cursor[q],
                 base[q], result[q], began[q])
    BY <1>6 DEF ReaderInv
  <2>2. /\ sess[q] \in Sessions /\ scope[q] \in SUBSET States
        /\ result[q] \in [States -> Seq(AllPatches)]
    BY <1>6 DEF Typed
  <2>3. PICK new : new = Sent(result[q], pc[q], scope[q], e)
    OBVIOUS
  <2>4. result'[q] = new
    BY <1>4, <1>5, <2>3 DEF Sent
  <2>5. /\ ReaderOK(Append(log, e), pc[q], sess[q], bound[q], scope[q], left[q], cursor[q],
                    base[q], new, began[q])
        /\ new \in [States -> Seq(AllPatches)]
    <3>1. log \in Seq(Rows) /\ e \in AllPatches
      BY <1>4, <1>7
    <3>2. QED
      BY <2>1, <2>2, <2>3, <3>1, ReaderGetsPatch
  <2>6. QED
    BY <1>5, <2>4, <2>5
<1>9. ReaderInv'
  BY <1>8 DEF ReaderInv
<1>10. ASSUME NEW t \in Sessions, NEW y \in States
       PROVE  /\ Holds(log', rev', value', t, y)
              /\ value'[t][y] \in Seq(AllPatches)
  <2>1. Holds(log, rev, value, t, y) /\ value[t][y] \in Seq(AllPatches)
    BY <1>6 DEF LogInv, Typed
  <2>2. CASE t = s /\ y = x
    <3>1. value'[t][y] = Append(value[s][x], e) /\ rev'[t] = rev[s] + 1
      BY <1>5, <1>6, <2>2 DEF Typed
    <3>2. PICK v, w : v = value[s][x] /\ w = value'[t][y]
      OBVIOUS
    <3>3. v \in Seq(AllPatches) /\ v \in Seq(OfSession(s, x, rev[s]))
      BY <2>1, <2>2, <3>2 DEF Holds
    <3>4. v \in Seq(OfSession(s, x, rev[s] + 1))
      <4>1. OfSession(s, x, rev[s]) \subseteq OfSession(s, x, rev[s] + 1)
        <5>1. rev[s] \in Nat /\ rev[s] <= rev[s] + 1
          BY <1>2
        <5>2. QED
          BY <1>2, <5>1, PatchesMeet
      <4>2. QED
        BY <3>3, <4>1, SeqMonotonic
    <3>5. w \in Seq(OfSession(s, x, rev[s] + 1)) /\ w \in Seq(AllPatches)
      BY <1>3, <1>4, <3>1, <3>2, <3>3, <3>4, AppendProperties
    <3>6. w = Select(log', OfSession(s, x, Unbounded))
      <4>1. v = Select(log, OfSession(s, x, Unbounded))
        BY <2>1, <2>2, <3>2 DEF Holds
      <4>2. Select(Append(log, e), OfSession(s, x, Unbounded))
                = Append(Select(log, OfSession(s, x, Unbounded)), e)
        BY <1>3, <1>4, <1>7, SelectAppend
      <4>3. QED
        BY <1>5, <3>1, <3>2, <4>1, <4>2
    <3>7. QED
      BY <2>2, <3>1, <3>2, <3>5, <3>6 DEF Holds
  <2>3. CASE ~(t = s /\ y = x)
    <3>1. value'[t][y] = value[t][y]
      BY <1>5, <1>6, <2>3 DEF Typed
    <3>2. value[t][y] \in Seq(OfSession(t, y, rev'[t]))
      <4>1. rev[t] \in Nat /\ rev'[t] \in Nat /\ rev[t] <= rev'[t]
        BY <1>5, <1>6 DEF Typed
      <4>2. OfSession(t, y, rev[t]) \subseteq OfSession(t, y, rev'[t])
        BY <4>1, PatchesMeet
      <4>3. value[t][y] \in Seq(OfSession(t, y, rev[t]))
        BY <2>1 DEF Holds
      <4>4. QED
        BY <4>2, <4>3, SeqMonotonic
    <3>3. e \notin OfSession(t, y, Unbounded)
      BY <1>4, <2>3 DEF OfSession, Patches
    <3>4. Select(log', OfSession(t, y, Unbounded)) = Select(log, OfSession(t, y, Unbounded))
      BY <1>4, <1>5, <1>7, <3>3, OtherRow
    <3>5. value[t][y] = Select(log, OfSession(t, y, Unbounded))
      BY <2>1 DEF Holds
    <3>6. QED
      BY <2>1, <3>1, <3>2, <3>4, <3>5 DEF Holds
  <2>4. QED
    BY <2>2, <2>3
<1>11. RecordedAll(log')
  BY <1>4, <1>5, <1>6, <1>7, RecordedGrows DEF LogInv
<1>12. LogInv'
  BY <1>10, <1>11 DEF LogInv
<1>13. Typed'
  <2>1. value' \in [Sessions -> [States -> Seq(AllPatches)]]
    <3>1. Append(value[s][x], e) \in Seq(AllPatches)
      BY <1>4, <1>6, AppendProperties DEF Typed
    <3>2. QED
      BY <1>5, <1>6, <3>1 DEF Typed
  <2>2. result' \in [Readers -> [States -> Seq(AllPatches)]]
    <3>1. result' = [q \in Readers |-> result'[q]]
      BY <1>5
    <3>2. QED
      BY <1>8, <3>1
  <2>3. rev' \in [Sessions -> 0 .. MaxRev]
    <3>1. rev[s] + 1 \in 0 .. MaxRev
      BY <1>2, BoundsAssumption
    <3>2. QED
      BY <1>5, <1>6, <3>1 DEF Typed
  <2>4. QED
    BY <1>5, <1>6, <1>7, <2>1, <2>2, <2>3 DEF Typed
<1>14. QED
  BY <1>9, <1>12, <1>13 DEF StateLogInv

LEMMA InvBeginRead ==
    ASSUME StateLogInv, NEW q \in Readers, NEW s \in Sessions, NEW r \in 0 .. Unbounded,
           NEW xs \in Scopes, BeginRead(q, s, r, xs)
    PROVE  StateLogInv'
<1>1. Typed /\ LogInv /\ ReaderInv
  BY DEF StateLogInv
<1>2. Len(log) \in Nat
  BY <1>1, LenProperties DEF Typed
<1>3. Typed'
  <2>1. xs \in SUBSET States
    BY DEF Scopes
  <2>2. UNCHANGED <<log, rev, value, todo, snapshots, alive, cursor, base, result>>
    BY DEF BeginRead, agentVars
  <2>3. pc' \in [Readers -> {"idle", "reading", "over", "failed", "watching"}]
    BY <1>1 DEF BeginRead, Typed
  <2>4. sess' \in [Readers -> Sessions] /\ bound' \in [Readers -> 0 .. Unbounded]
    BY <1>1 DEF BeginRead, Typed
  <2>5. scope' \in [Readers -> SUBSET States] /\ left' \in [Readers -> SUBSET States]
    BY <1>1, <2>1 DEF BeginRead, Typed
  <2>6. began' \in [Readers -> Nat]
    BY <1>1, <1>2 DEF BeginRead, Typed
  <2>7. QED
    BY <1>1, <2>2, <2>3, <2>4, <2>5, <2>6 DEF Typed
<1>4. LogInv'
  BY InvLogStays DEF BeginRead, agentVars
<1>5. ASSUME NEW p \in Readers
      PROVE  ReaderOK(log', pc'[p], sess'[p], bound'[p], scope'[p], left'[p], cursor'[p],
                      base'[p], result'[p], began'[p])
  <2>1. ReaderOK(log, pc[p], sess[p], bound[p], scope[p], left[p], cursor[p],
                 base[p], result[p], began[p])
    BY <1>1 DEF ReaderInv
  <2>2. CASE p # q
    <3>1. /\ pc'[p] = pc[p] /\ sess'[p] = sess[p] /\ bound'[p] = bound[p]
          /\ scope'[p] = scope[p] /\ left'[p] = left[p] /\ began'[p] = began[p]
      BY <1>1, <2>2 DEF BeginRead, Typed
    <3>2. log' = log /\ cursor' = cursor /\ base' = base /\ result' = result
      BY DEF BeginRead
    <3>3. QED
      BY <2>1, <3>1, <3>2
  <2>3. CASE p = q
    <3>1. cursor[p] = NoState
      BY <2>1, <2>3 DEF ReaderOK, BeginRead
    <3>2. /\ pc'[p] = "reading" /\ scope'[p] = xs /\ left'[p] = xs /\ began'[p] = Len(log)
          /\ cursor'[p] = NoState /\ log' = log
      BY <1>1, <2>3, <3>1 DEF BeginRead, Typed
    <3>3. QED
      BY <1>2, <3>2 DEF ReaderOK
  <2>4. QED
    BY <2>2, <2>3
<1>6. QED
  BY <1>3, <1>4, <1>5 DEF StateLogInv, ReaderInv

LEMMA InvReadSnapshot ==
    ASSUME StateLogInv, NEW q \in Readers, NEW x \in States, ReadSnapshot(q, x)
    PROVE  StateLogInv'
<1>1. Typed /\ LogInv /\ ReaderInv
  BY DEF StateLogInv
<1>2. PICK n \in Anchors(q, x) : base' = [base EXCEPT ![q] = n]
  BY DEF ReadSnapshot
<1>3. Anchored(log, n, sess[q], x, bound[q])
  <2>1. n \in DOMAIN log /\ DOMAIN log = 1 .. Len(log)
    BY <1>1, LenProperties DEF Anchors, Candidates, Typed
  <2>2. QED
    BY <2>1 DEF Anchors, Candidates, Anchored
<1>4. /\ cursor' = [cursor EXCEPT ![q] = x] /\ x \in left[q] /\ pc[q] = "reading"
      /\ UNCHANGED <<log, rev, value, todo, snapshots, alive, pc, sess, bound, scope, left,
                     result, began>>
  BY DEF ReadSnapshot, agentVars
<1>5. Typed'
  <2>1. n \in Nat
    BY <1>1, <1>3, LenProperties DEF Anchored, Typed
  <2>2. base' \in [Readers -> Nat]
    BY <1>1, <1>2, <2>1 DEF Typed
  <2>3. QED
    BY <1>1, <1>4, <2>2 DEF Typed
<1>6. LogInv'
  BY <1>4, InvLogStays
<1>7. ASSUME NEW p \in Readers
      PROVE  ReaderOK(log', pc'[p], sess'[p], bound'[p], scope'[p], left'[p], cursor'[p],
                      base'[p], result'[p], began'[p])
  <2>1. ReaderOK(log, pc[p], sess[p], bound[p], scope[p], left[p], cursor[p],
                 base[p], result[p], began[p])
    BY <1>1 DEF ReaderInv
  <2>2. CASE p # q
    <3>1. cursor'[p] = cursor[p] /\ base'[p] = base[p]
      BY <1>1, <1>2, <1>4, <2>2 DEF Typed
    <3>2. QED
      BY <1>4, <2>1, <3>1
  <2>3. CASE p = q
    <3>1. cursor'[q] = x /\ base'[q] = n
      BY <1>1, <1>2, <1>4 DEF Typed
    <3>2. ReaderOK(log, pc[q], sess[q], bound[q], scope[q], left[q], x, n, result[q], began[q])
      BY <1>3, <1>4, <2>1, <2>3 DEF ReaderOK
    <3>3. QED
      BY <1>4, <2>3, <3>1, <3>2
  <2>4. QED
    BY <2>2, <2>3
<1>8. QED
  BY <1>5, <1>6, <1>7 DEF StateLogInv, ReaderInv

LEMMA InvFailRead ==
    ASSUME StateLogInv, NEW q \in Readers, NEW x \in States, FailRead(q, x)
    PROVE  StateLogInv'
<1>1. Typed /\ LogInv /\ ReaderInv
  BY DEF StateLogInv
<1>2. /\ pc' = [pc EXCEPT ![q] = "failed"] /\ cursor[q] = NoState
      /\ UNCHANGED <<log, rev, value, todo, snapshots, alive, sess, bound, scope, left, cursor,
                     base, result, began>>
  BY DEF FailRead, agentVars
<1>3. Typed'
  BY <1>1, <1>2 DEF Typed
<1>4. LogInv'
  BY <1>2, InvLogStays
<1>5. ASSUME NEW p \in Readers
      PROVE  ReaderOK(log', pc'[p], sess'[p], bound'[p], scope'[p], left'[p], cursor'[p],
                      base'[p], result'[p], began'[p])
  <2>1. ReaderOK(log, pc[p], sess[p], bound[p], scope[p], left[p], cursor[p],
                 base[p], result[p], began[p])
    BY <1>1 DEF ReaderInv
  <2>2. pc'[p] = pc[p] \/ pc'[p] = "failed"
    BY <1>1, <1>2 DEF Typed
  <2>3. ReaderOK(log, pc'[p], sess[p], bound[p], scope[p], left[p], cursor[p],
                 base[p], result[p], began[p])
    BY <2>1, <2>2 DEF ReaderOK
  <2>4. QED
    BY <1>2, <2>3
<1>6. QED
  BY <1>3, <1>4, <1>5 DEF StateLogInv, ReaderInv

LEMMA InvReadPatches ==
    ASSUME StateLogInv, NEW q \in Readers, ReadPatches(q)
    PROVE  StateLogInv'
<1>1. Typed /\ LogInv /\ ReaderInv
  BY DEF StateLogInv
<1>2. PICK b, c, s, r, l, bg : /\ b = base[q] /\ c = cursor[q] /\ s = sess[q]
                               /\ r = bound[q] /\ l = log /\ bg = began[q]
  OBVIOUS
<1>3. PICK v, d : /\ v = l[b].value
                  /\ d = Select(SubSeq(l, b + 1, Len(l)), Patches(Sessions, c, r))
  OBVIOUS
<1>4. /\ pc[q] = "reading" /\ c # NoState
      /\ result' = [result EXCEPT ![q][c] = v \o d]
      /\ left' = [left EXCEPT ![q] = @ \ {c}]
      /\ cursor' = [cursor EXCEPT ![q] = NoState]
      /\ pc' = [pc EXCEPT ![q] = IF left[q] = {c} THEN "over" ELSE "reading"]
      /\ UNCHANGED <<log, rev, value, todo, snapshots, alive, sess, bound, scope, base, began>>
  BY <1>2, <1>3 DEF ReadPatches, Replay, Replayed, agentVars
<1>5. ReaderOK(log, pc[q], sess[q], bound[q], scope[q], left[q], cursor[q],
               base[q], result[q], began[q])
  BY <1>1 DEF ReaderInv
<1>6. Anchored(l, b, s, c, r) /\ c \in left[q] /\ left[q] \subseteq scope[q] /\ bg \in 0 .. Len(l)
  BY <1>2, <1>4, <1>5 DEF ReaderOK
<1>7. /\ l \in Seq(Rows) /\ Len(l) \in Nat /\ s \in Sessions /\ r \in 0 .. Unbounded
      /\ c \in States /\ scope[q] \subseteq States /\ RecordedAll(l)
  BY <1>1, <1>2, <1>6, LenProperties DEF Typed, LogInv
<1>8. /\ b \in 1 .. Len(l) /\ l[b] \in Rows /\ l[b].kind = "snapshot" /\ l[b].session = s
      /\ l[b].state = c /\ l[b].rev <= r
  BY <1>6, <1>7, ElementOfSeq DEF Anchored
<1>9. /\ l[b].rev \in 0 .. MaxRev /\ v \in Seq(AllPatches)
      /\ v = Select(SubSeq(l, 1, b), OfSession(s, c, Unbounded))
      /\ v \in Seq(OfSession(s, c, l[b].rev))
  <2>1. l[b].rev \in 0 .. MaxRev /\ v \in Seq(AllPatches)
    BY <1>3, <1>8, RowsByKind
  <2>2. Recorded(l, b)
    BY <1>7, <1>8 DEF RecordedAll
  <2>3. QED
    BY <1>3, <1>8, <2>1, <2>2, Zenon DEF Recorded
<1>10. OneMoment(l, bg, v \o d, s, c, r)
  <2>1. b \in 0 .. Len(l) /\ l[b].rev \in Nat /\ r \in Nat /\ l[b].rev <= r /\ r <= Unbounded
    BY <1>7, <1>8, <1>9, UnboundedIsNat
  <2>2. PICK r0 : r0 = l[b].rev
    OBVIOUS
  <2>3. QED
    BY <1>3, <1>6, <1>7, <1>9, <2>1, <2>2, ReplayIsMoment
<1>11. v \o d \in Seq(AllPatches)
  <2>1. SubSeq(l, b + 1, Len(l)) \in Seq(Rows)
    <3>1. b \in 0 .. Len(l)
      BY <1>8
    <3>2. QED
      BY <1>7, <3>1, SplitLog
  <2>2. d \in Seq(Rows \cap Patches(Sessions, c, r))
    BY <1>3, <2>1, SelectIn
  <2>3. Rows \cap Patches(Sessions, c, r) \subseteq AllPatches
    BY <1>7, RowsByKind
  <2>4. d \in Seq(AllPatches)
    BY <2>2, <2>3, SeqMonotonic
  <2>5. QED
    BY <1>9, <2>4, ConcatProperties
<1>12. PICK w : w = v \o d
  OBVIOUS
<1>13. /\ pc'[q] = IF left[q] = {c} THEN "over" ELSE "reading"
       /\ left'[q] = left[q] \ {c} /\ cursor'[q] = NoState
       /\ result'[q][c] = w /\ \A x \in States \ {c} : result'[q][x] = result[q][x]
  BY <1>1, <1>4, <1>7, <1>12 DEF Typed
<1>14. Typed'
  <2>1. result' \in [Readers -> [States -> Seq(AllPatches)]]
    BY <1>1, <1>4, <1>11, <1>12 DEF Typed
  <2>2. pc' \in [Readers -> {"idle", "reading", "over", "failed", "watching"}]
    BY <1>1, <1>4 DEF Typed
  <2>3. left' \in [Readers -> SUBSET States] /\ cursor' \in [Readers -> States \cup {NoState}]
    BY <1>1, <1>4 DEF Typed
  <2>4. QED
    BY <1>1, <1>4, <2>1, <2>2, <2>3 DEF Typed
<1>15. LogInv'
  BY <1>4, InvLogStays
<1>16. ASSUME NEW p \in Readers
       PROVE  ReaderOK(log', pc'[p], sess'[p], bound'[p], scope'[p], left'[p], cursor'[p],
                       base'[p], result'[p], began'[p])
  <2>1. CASE p # q
    <3>1. /\ pc'[p] = pc[p] /\ left'[p] = left[p] /\ cursor'[p] = cursor[p]
          /\ result'[p] = result[p]
      BY <1>1, <1>4, <2>1 DEF Typed
    <3>2. ReaderOK(log, pc[p], sess[p], bound[p], scope[p], left[p], cursor[p],
                   base[p], result[p], began[p])
      BY <1>1 DEF ReaderInv
    <3>3. QED
      BY <1>4, <3>1, <3>2
  <2>2. CASE p = q
    <3>1. ASSUME NEW x \in scope[q] \ left'[q]
          PROVE  OneMoment(l, bg, result'[q][x], s, x, r)
      <4>1. CASE x = c
        BY <1>10, <1>12, <1>13, <4>1
      <4>2. CASE x # c
        <5>1. x \in scope[q] \ left[q] /\ x \in States \ {c}
          BY <1>7, <1>13, <4>2
        <5>2. OneMoment(l, bg, result[q][x], s, x, r)
          BY <1>2, <1>4, <1>5, <5>1 DEF ReaderOK
        <5>3. QED
          BY <1>13, <5>1, <5>2
      <4>3. QED
        BY <4>1, <4>2
    <3>2. /\ left'[q] \subseteq scope[q] /\ pc'[q] \in {"reading", "over"}
          /\ pc'[q] = "over" => left'[q] = {}
      BY <1>6, <1>13
    <3>3. ReaderOK(l, pc'[q], s, r, scope[q], left'[q], cursor'[q], b, result'[q], bg)
      BY <1>6, <1>13, <3>1, <3>2 DEF ReaderOK
    <3>4. QED
      BY <1>2, <1>4, <2>2, <3>3
  <2>3. QED
    BY <2>1, <2>2
<1>17. QED
  BY <1>14, <1>15, <1>16 DEF StateLogInv, ReaderInv

LEMMA InvListen ==
    ASSUME StateLogInv, NEW q \in Readers, Listen(q)
    PROVE  StateLogInv'
<1>1. Typed /\ LogInv /\ ReaderInv
  BY DEF StateLogInv
<1>2. /\ pc' = [pc EXCEPT ![q] = "watching"] /\ pc[q] = "over" /\ bound[q] = Unbounded
      /\ UNCHANGED <<log, rev, value, todo, snapshots, alive, sess, bound, scope, left, cursor,
                     base, result, began>>
  BY DEF Listen, agentVars
<1>3. Typed'
  BY <1>1, <1>2 DEF Typed
<1>4. LogInv'
  BY <1>2, InvLogStays
<1>5. ASSUME NEW p \in Readers
      PROVE  ReaderOK(log', pc'[p], sess'[p], bound'[p], scope'[p], left'[p], cursor'[p],
                      base'[p], result'[p], began'[p])
  <2>1. ReaderOK(log, pc[p], sess[p], bound[p], scope[p], left[p], cursor[p],
                 base[p], result[p], began[p])
    BY <1>1 DEF ReaderInv
  <2>2. CASE p # q
    <3>1. pc'[p] = pc[p]
      BY <1>1, <1>2, <2>2 DEF Typed
    <3>2. QED
      BY <1>2, <2>1, <3>1
  <2>3. CASE p = q
    <3>1. ASSUME NEW x \in scope[q]
          PROVE  OneStretch(log, result[q][x], sess[q], x)
      <4>1. OneMoment(log, began[q], result[q][x], sess[q], x, Unbounded)
        BY <1>2, <2>1, <2>3 DEF ReaderOK
      <4>2. log \in Seq(Rows) /\ began[q] \in Nat
        BY <1>1 DEF Typed
      <4>3. QED
        BY <4>1, <4>2, MomentIsStretch
    <3>2. pc'[q] = "watching"
      BY <1>1, <1>2 DEF Typed
    <3>3. ReaderOK(log, pc'[q], sess[q], bound[q], scope[q], left[q], cursor[q],
                   base[q], result[q], began[q])
      BY <2>1, <2>3, <3>1, <3>2 DEF ReaderOK
    <3>4. QED
      BY <1>2, <2>3, <3>3
  <2>4. QED
    BY <2>2, <2>3
<1>6. QED
  BY <1>3, <1>4, <1>5 DEF StateLogInv, ReaderInv

LEMMA InvNext ==
    ASSUME StateLogInv, [Next]_vars
    PROVE  StateLogInv'
<1>1. ASSUME NEW s \in Sessions, SessionInit(s) \/ StateSnapshot(s) \/ Die(s)
      PROVE  StateLogInv'
  BY <1>1, InvSessionInit, InvStateSnapshot, InvDie
<1>2. ASSUME NEW s \in Sessions, NEW x \in States, WriteSnapshot(s, x) \/ StatePatch(s, x)
      PROVE  StateLogInv'
  BY <1>2, InvWriteSnapshot, InvStatePatch
<1>3. ASSUME NEW q \in Readers, NEW s \in Sessions, NEW r \in 0 .. Unbounded, NEW xs \in Scopes,
             BeginRead(q, s, r, xs)
      PROVE  StateLogInv'
  BY <1>3, InvBeginRead
<1>4. ASSUME NEW q \in Readers, NEW x \in States, ReadSnapshot(q, x) \/ FailRead(q, x)
      PROVE  StateLogInv'
  BY <1>4, InvReadSnapshot, InvFailRead
<1>5. ASSUME NEW q \in Readers, ReadPatches(q) \/ Listen(q)
      PROVE  StateLogInv'
  BY <1>5, InvReadPatches, InvListen
<1>6. CASE UNCHANGED vars
  BY <1>6 DEF vars, agentVars, readerVars, StateLogInv, Typed, LogInv, ReaderInv
<1>7. QED
  BY <1>1, <1>2, <1>3, <1>4, <1>5, <1>6 DEF Next
-----------------------------------------------------------------------------
(* The theorems. *)

\* The invariant the other theorems rest on: the log has what every process did to its
\* states, a snapshot what was done before it, and a reader what was in the log at one
\* moment of its query.
THEOREM StateLogInductive == Spec => []StateLogInv
<1>1. Init => StateLogInv
  BY InvInit
<1>2. StateLogInv /\ [Next]_vars => StateLogInv'
  BY InvNext
<1>3. QED
  BY <1>1, <1>2, PTL DEF Spec

\* A query reads patches on top of a snapshot that is in the log, of the state it reads.
THEOREM TypeCorrect == Spec => []TypeOK
<1>1. StateLogInv => TypeOK
  <2> SUFFICES ASSUME StateLogInv
               PROVE  TypeOK
    OBVIOUS
  <2>1. ASSUME NEW q \in Readers
        PROVE  /\ bound[q] \in 0 .. Unbounded
               /\ left[q] \subseteq scope[q]
               /\ cursor[q] \in left[q] \cup {NoState}
               /\ cursor[q] # NoState => /\ base[q] \in DOMAIN log
                                         /\ log[base[q]].kind = "snapshot"
                                         /\ log[base[q]].state = cursor[q]
    <3>1. ReaderOK(log, pc[q], sess[q], bound[q], scope[q], left[q], cursor[q],
                   base[q], result[q], began[q])
      BY DEF StateLogInv, ReaderInv
    <3>2. DOMAIN log = 1 .. Len(log) /\ bound[q] \in 0 .. Unbounded
      BY LenProperties DEF StateLogInv, Typed
    <3>3. QED
      BY <3>1, <3>2 DEF ReaderOK, Anchored
  <2>2. QED
    BY <2>1 DEF StateLogInv, Typed, TypeOK
<1>2. QED
  BY <1>1, StateLogInductive, PTL

\* get_latest_state loses, repeats and reorders nothing of the session it replays.
THEOREM ReplaysAreOfOneMoment == Spec => []ReplayIsOfOneMoment
<1>1. StateLogInv => ReplayIsOfOneMoment
  <2> SUFFICES ASSUME StateLogInv, NEW q \in Readers, pc[q] = "over", NEW x \in scope[q]
               PROVE  \E n \in began[q] .. Len(log) :
                          Own(q, x) = PatchesAt(n, sess[q], x, bound[q])
    BY DEF ReplayIsOfOneMoment
  <2>1. ReaderOK(log, pc[q], sess[q], bound[q], scope[q], left[q], cursor[q],
                 base[q], result[q], began[q])
    BY DEF StateLogInv, ReaderInv
  <2>2. OneMoment(log, began[q], result[q][x], sess[q], x, bound[q])
    BY <2>1 DEF ReaderOK
  <2>3. QED
    BY <2>2 DEF OneMoment, OfSession, Own, PatchesAt
<1>2. QED
  BY <1>1, StateLogInductive, PTL

\* A watcher misses one stretch of the patches of its session, the one between its query
\* and its joining of the channel.
THEOREM WatchersMissOneStretch == Spec => []WatchMissesOneStretch
<1>1. StateLogInv => WatchMissesOneStretch
  <2> SUFFICES ASSUME StateLogInv, NEW q \in Readers, pc[q] = "watching", NEW x \in scope[q]
               PROVE  AllButStretch(Own(q, x), PatchesAt(Len(log), sess[q], x, Unbounded))
    BY DEF WatchMissesOneStretch, AllButStretch
  <2>1. ReaderOK(log, pc[q], sess[q], bound[q], scope[q], left[q], cursor[q],
                 base[q], result[q], began[q])
    BY DEF StateLogInv, ReaderInv
  <2>2. OneStretch(log, result[q][x], sess[q], x)
    BY <2>1 DEF ReaderOK
  <2>3. SubSeq(log, 1, Len(log)) = log
    BY SubSeqFull DEF StateLogInv, Typed
  <2>4. QED
    BY <2>2, <2>3 DEF OneStretch, OfSession, Own, PatchesAt
<1>2. QED
  BY <1>1, StateLogInductive, PTL
=============================================================================
