---------------------------- MODULE EventsProofs ----------------------------
(***************************************************************************)
(* Proofs about the events storage and what reads it: the answers at a     *)
(* height, the status of nodes at a common height, with the storage        *)
(* changing between any two reads, the streaks of the criteria on the      *)
(* state of a node and what the criteria report of one round, for any      *)
(* nodes, heights, state hashes, differences, depths, streaks and rounds.  *)
(*                                                                         *)
(* The queries are recursive functions over the statements of a node.      *)
(* That such a function exists, and what it returns, is shown by induction *)
(* on sets of numbers (Induction).                                         *)
(***************************************************************************)
EXTENDS StatusQuery, Criteria, FiniteSetTheorems, SequenceTheorems, WellFoundedInduction,
        TLAPS

-----------------------------------------------------------------------------
(***************************************************************************)
(* What the queries find                                                   *)
(***************************************************************************)
Stored == statements \in [Nodes -> Seq(Events)]

\* The scans of LatestHeight and GetFullStatementAtHeight.
LatestScan(f, s, n) ==
    f = [i \in 0..n |->
            IF i = 0 THEN 0
            ELSE IF s[i].hash # NoHash THEN s[i].height ELSE f[i - 1]]

FullScan(f, s, h, n) ==
    f = [i \in 0..n |->
            IF i = 0 \/ (s[i].height # 0 /\ s[i].height < h) THEN Unreachable
            ELSE IF s[i].height = h /\ s[i].hash # NoHash THEN s[i]
            ELSE f[i - 1]]

LatestOf(s)  == (CHOOSE f : LatestScan(f, s, Len(s)))[Len(s)]
FullOf(s, h) == (CHOOSE f : FullScan(f, s, h, Len(s)))[Len(s)]

\* Statement i was current when k statements were stored.
CurrentAt(s, i, k) ==
    /\ s[i].hash # NoHash
    /\ \A j \in i + 1..k :
         \/ s[j].height = 0 \/ s[j].height > s[i].height
         \/ s[j].height = s[i].height /\ s[j].hash = NoHash

\* There is a current full statement at height h.
HasIn(s, h) == \E i \in 1..Len(s) : CurrentAt(s, i, Len(s)) /\ s[i].height = h
Has(n, h)   == HasIn(statements[n], h)

-----------------------------------------------------------------------------
(***************************************************************************)
(* Induction, and the functions that a recursive definition stands for     *)
(***************************************************************************)
Before == {p \in Nat \X Nat : p[1] < p[2]}

LEMMA Induction ==
  ASSUME NEW S, NEW n \in Nat, 0 \in S, \A i \in 1..n : i - 1 \in S => i \in S
  PROVE  0..n \subseteq S
<1> DEFINE U == (0..n) \ S
<1>1. U \subseteq Nat
  OBVIOUS
<1>2. IsWellFoundedOn(Before, Nat)
  BY NatLessThanWellFounded DEF OpToRel, Before
<1>3. ASSUME U # {} PROVE FALSE
  <2>1. PICK x \in U : \A y \in U : ~ (<<y, x>> \in Before)
    <3> HIDE DEF U
    <3> QED
      BY <1>1, <1>2, <1>3, WFMin
  <2>2. x \in 1..n /\ x - 1 \in 0..n
    OBVIOUS
  <2>3. <<x - 1, x>> \in Before
    BY <2>2 DEF Before
  <2>4. x - 1 \in S
    BY <2>1, <2>2, <2>3
  <2> QED
    BY <2>2, <2>4
<1> QED
  BY <1>3

\* A set of natural numbers has a least member, and a greatest if it is bounded.
LEMMA Least ==
  ASSUME NEW S, S \subseteq Nat, S # {}
  PROVE  \E x \in S : \A y \in S : x <= y
<1>1. IsWellFoundedOn(Before, Nat)
  BY NatLessThanWellFounded DEF OpToRel, Before
<1>2. \E x \in S : \A y \in S : ~ (<<y, x>> \in Before)
  BY <1>1, WFMin
<1>3. \A x, y \in Nat : ~ (<<y, x>> \in Before) => x <= y
  BY DEF Before
<1> QED
  BY <1>2, <1>3

LEMMA Greatest ==
  ASSUME NEW S, NEW n \in Nat, S \subseteq 0..n, S # {}
  PROVE  \E x \in S : \A y \in S : x >= y
<1> DEFINE T == {n - x : x \in S}
<1>1. T \subseteq Nat /\ T # {}
  <2>1. \A x \in S : n - x \in Nat
    OBVIOUS
  <2> QED
    BY <2>1
<1>2. PICK t \in T : \A y \in T : t <= y
  <2> HIDE DEF T
  <2> QED
    BY <1>1, Least
<1>3. PICK x \in S : t = n - x
  OBVIOUS
<1>4. \A y \in S : n - y \in T
  OBVIOUS
<1>5. \A y \in S : n - x <= n - y
  BY <1>2, <1>3, <1>4
<1> QED
  BY <1>5

\* A value for 0 and a step for every number up to n define a function.
Recursive(f, first, step, n) ==
    f = [i \in 0..n |-> IF i = 0 THEN first ELSE step[<<i, f[i - 1]>>]]

LEMMA Recursion ==
  ASSUME NEW n \in Nat, NEW V, NEW first \in V, NEW step \in [(1..n) \X V -> V]
  PROVE  \E f \in [0..n -> V] : Recursive(f, first, step, n)
<1> DEFINE S == {k \in Nat : \E f \in [0..k -> V] : Recursive(f, first, step, k)}
<1>1. 0 \in S
  <2>1. Recursive([i \in 0..0 |-> first], first, step, 0)
    BY DEF Recursive
  <2>2. [i \in 0..0 |-> first] \in [0..0 -> V]
    OBVIOUS
  <2> QED
    BY <2>1, <2>2
<1>2. ASSUME NEW i \in 1..n, i - 1 \in S
      PROVE  i \in S
  <2>1. PICK f \in [0..i - 1 -> V] : Recursive(f, first, step, i - 1)
    BY <1>2
  <2>2. i \in Nat /\ i - 1 \in 0..i - 1
    OBVIOUS
  <2>3. f[i - 1] \in V /\ step[<<i, f[i - 1]>>] \in V
    BY <2>2
  <2> DEFINE g == [j \in 0..i |-> IF j < i THEN f[j] ELSE step[<<i, f[i - 1]>>]]
  <2>4. g \in [0..i -> V]
    BY <2>2, <2>3
  <2>5. \A j \in 0..i : g[j] = IF j = 0 THEN first ELSE step[<<j, g[j - 1]>>]
    <3> SUFFICES ASSUME NEW j \in 0..i
                 PROVE  g[j] = IF j = 0 THEN first ELSE step[<<j, g[j - 1]>>]
      OBVIOUS
    <3>1. \A k \in 0..i - 1 : f[k] = IF k = 0 THEN first ELSE step[<<k, f[k - 1]>>]
      BY <2>1, <2>2 DEF Recursive
    <3>2. CASE j = i
      <4>1. g[j] = step[<<i, f[i - 1]>>] /\ g[j - 1] = f[i - 1] /\ j # 0
        BY <2>2, <3>2
      <4> QED
        BY <3>2, <4>1
    <3>3. CASE j # i
      <4>1. j \in 0..i - 1 /\ g[j] = f[j]
        BY <2>2, <3>3
      <4>2. j # 0 => g[j - 1] = f[j - 1]
        BY <2>2, <3>3
      <4> HIDE DEF g
      <4> QED
        BY <3>1, <4>1, <4>2
    <3> QED
      BY <3>2, <3>3
  <2>6. Recursive(g, first, step, i)
    <3> HIDE DEF g
    <3> QED
      BY <2>2, <2>4, <2>5 DEF Recursive
  <2> QED
    BY <2>2, <2>4, <2>6
<1>3. 0..n \subseteq S
  <2> HIDE DEF S
  <2> QED
    BY <1>1, <1>2, Induction
<1> QED
  BY <1>3

-----------------------------------------------------------------------------
(***************************************************************************)
(* The queries on one node                                                 *)
(***************************************************************************)
LEMMA EventFacts ==
  ASSUME NEW e \in Events
  PROVE  /\ e.height \in 0..MaxUint
         /\ e.hash # NoHash => /\ e.height \in Heights /\ e.height \in 1..MaxUint
                               /\ e.hash \in Hashes /\ e = Complete(e.height, e.hash)
         /\ e.status = "OK" <=> e.hash # NoHash
         /\ e.hash # NoHash => e # Unreachable
         /\ e # Unreachable => e.status # "unreachable"
  BY EventsAssumption DEF Events, Unreachable, InvalidHeight, Incomplete, Complete, InvalidHeights

LEMMA LatestScanExists ==
  ASSUME NEW s \in Seq(Events)
  PROVE  \E f : LatestScan(f, s, Len(s))
<1> DEFINE n    == Len(s)
           V    == 0..MaxUint
           step == [p \in (1..n) \X V |-> IF s[p[1]].hash # NoHash THEN s[p[1]].height ELSE p[2]]
<1>1. step \in [(1..n) \X V -> V]
  BY EventFacts
<1>2. n \in Nat /\ 0 \in V
  BY EventsAssumption
<1>3. PICK f \in [0..n -> V] : Recursive(f, 0, step, n)
  <2> HIDE DEF step, V, n
  <2> QED
    BY <1>1, <1>2, Recursion
<1>4. \A i \in 1..n : f[i - 1] \in V /\ <<i, f[i - 1]>> \in (1..n) \X V
  BY <1>2
<1>5. \A i \in 1..n :
         step[<<i, f[i - 1]>>] = IF s[i].hash # NoHash THEN s[i].height ELSE f[i - 1]
  BY <1>4
<1>6. LatestScan(f, s, n)
  <2> HIDE DEF step, V, n
  <2> QED
    BY <1>2, <1>3, <1>5 DEF Recursive, LatestScan
<1> QED
  BY <1>6

LEMMA FullScanExists ==
  ASSUME NEW s \in Seq(Events), NEW h
  PROVE  \E f : FullScan(f, s, h, Len(s))
<1> DEFINE n       == Len(s)
           at(i, e) == IF s[i].height # 0 /\ s[i].height < h THEN Unreachable
                       ELSE IF s[i].height = h /\ s[i].hash # NoHash THEN s[i] ELSE e
           step    == [p \in (1..n) \X Events |-> at(p[1], p[2])]
<1>1. Unreachable \in Events /\ \A i \in 1..n : s[i] \in Events
  <2>1. Unreachable \in Events
    BY DEF Events
  <2>2. \A i \in 1..n : s[i] \in Events
    OBVIOUS
  <2> QED
    BY <2>1, <2>2
<1>2. \A i \in 1..n, e \in Events : at(i, e) \in Events
  BY <1>1
<1> HIDE DEF at
<1>3. step \in [(1..n) \X Events -> Events]
  BY <1>2
<1>4. n \in Nat
  OBVIOUS
<1>5. PICK f \in [0..n -> Events] : Recursive(f, Unreachable, step, n)
  <2> HIDE DEF step, n
  <2> QED
    BY <1>1, <1>3, <1>4, Recursion
<1>6. \A i \in 1..n : f[i - 1] \in Events /\ <<i, f[i - 1]>> \in (1..n) \X Events
  BY <1>4
<1>7. \A i \in 1..n : step[<<i, f[i - 1]>>] = at(i, f[i - 1])
  BY <1>6
<1>8. \A i \in 0..n : f[i] = IF i = 0 THEN Unreachable ELSE at(i, f[i - 1])
  <2> HIDE DEF step, n
  <2>1. \A i \in 0..n : f[i] = IF i = 0 THEN Unreachable ELSE step[<<i, f[i - 1]>>]
    BY <1>5 DEF Recursive
  <2>2. \A i \in 0..n : i # 0 => i \in 1..n
    BY <1>4
  <2> QED
    BY <1>7, <2>1, <2>2
<1>9. FullScan(f, s, h, n)
  <2> HIDE DEF step, n
  <2> QED
    BY <1>4, <1>8 DEF FullScan, at
<1> QED
  BY <1>9

\* The latest height is that of the last full statement.
LEMMA LatestIs ==
  ASSUME NEW s \in Seq(Events)
  PROVE  \/ LatestOf(s) = 0 /\ \A i \in 1..Len(s) : s[i].hash = NoHash
         \/ \E i \in 1..Len(s) : /\ LatestOf(s) = s[i].height /\ s[i].hash # NoHash
                                 /\ \A j \in i + 1..Len(s) : s[j].hash = NoHash
<1> DEFINE f       == CHOOSE g : LatestScan(g, s, Len(s))
           last(k) == \/ f[k] = 0 /\ \A i \in 1..k : s[i].hash = NoHash
                      \/ \E i \in 1..k : /\ f[k] = s[i].height /\ s[i].hash # NoHash
                                         /\ \A j \in i + 1..k : s[j].hash = NoHash
           S       == {k \in 0..Len(s) : last(k)}
<1>1. LatestScan(f, s, Len(s))
  BY LatestScanExists
<1>2. LatestOf(s) = f[Len(s)]
  BY DEF LatestOf
<1> HIDE DEF f
<1>3. 0 \in S
  BY <1>1 DEF LatestScan
<1>4. ASSUME NEW k \in 1..Len(s), k - 1 \in S
      PROVE  k \in S
  <2>1. f[k] = IF s[k].hash # NoHash THEN s[k].height ELSE f[k - 1]
    BY <1>1 DEF LatestScan
  <2>2. CASE s[k].hash # NoHash
    BY <2>1, <2>2
  <2>3. CASE s[k].hash = NoHash
    BY <1>4, <2>1, <2>3
  <2> QED
    BY <2>2, <2>3
<1>5. 0..Len(s) \subseteq S
  <2>1. Len(s) \in Nat
    OBVIOUS
  <2> HIDE DEF S
  <2> QED
    BY <1>3, <1>4, <2>1, Induction
<1>6. Len(s) \in 0..Len(s)
  OBVIOUS
<1>7. last(Len(s))
  BY <1>5, <1>6
<1> QED
  BY <1>2, <1>7

\* The statement found at a height is the current one, and there is none if it
\* is Unreachable.
LEMMA FullIs ==
  ASSUME NEW s \in Seq(Events), NEW h \in 0..MaxUint
  PROVE  /\ \A i \in 1..Len(s) :
              CurrentAt(s, i, Len(s)) /\ s[i].height = h => FullOf(s, h) = s[i]
         /\ FullOf(s, h) # Unreachable =>
              \E i \in 1..Len(s) : /\ CurrentAt(s, i, Len(s)) /\ s[i].height = h
                                   /\ FullOf(s, h) = s[i]
<1> DEFINE f       == CHOOSE g : FullScan(g, s, h, Len(s))
           all(k)  == \A i \in 1..k : CurrentAt(s, i, k) /\ s[i].height = h => f[k] = s[i]
           some(k) == f[k] # Unreachable =>
                        \E i \in 1..k : CurrentAt(s, i, k) /\ s[i].height = h /\ f[k] = s[i]
           S       == {k \in 0..Len(s) : all(k) /\ some(k)}
<1>1. FullScan(f, s, h, Len(s))
  BY FullScanExists
<1>2. FullOf(s, h) = f[Len(s)]
  BY DEF FullOf
<1> HIDE DEF f
<1>3. 0 \in S
  BY <1>1 DEF FullScan
<1>4. ASSUME NEW k \in 1..Len(s), k - 1 \in S
      PROVE  k \in S
  <2>1. f[k] = IF s[k].height # 0 /\ s[k].height < h THEN Unreachable
               ELSE IF s[k].height = h /\ s[k].hash # NoHash THEN s[k]
               ELSE f[k - 1]
    BY <1>1 DEF FullScan
  <2>2. \A i \in 1..k : s[i] \in Events
    OBVIOUS
  <2>3. \A i \in 1..k : /\ s[i].height \in 0..MaxUint
                        /\ s[i].hash # NoHash => s[i].height # 0
    BY <2>2, EventFacts
  <2>4. CASE s[k].height # 0 /\ s[k].height < h
    BY <2>1, <2>3, <2>4, EventsAssumption DEF CurrentAt
  <2>5. CASE s[k].height = h /\ s[k].hash # NoHash
    <3>1. CurrentAt(s, k, k)
      BY <2>5 DEF CurrentAt
    <3>2. \A i \in 1..k - 1 : s[i].height = h => ~ CurrentAt(s, i, k)
      BY <2>3, <2>5, EventsAssumption DEF CurrentAt
    <3> QED
      BY <2>1, <2>5, <2>3, <3>1, <3>2
  <2>6. CASE ~ (s[k].height # 0 /\ s[k].height < h) /\ ~ (s[k].height = h /\ s[k].hash # NoHash)
    <3>1. f[k] = f[k - 1]
      BY <2>1, <2>6
    <3>2. \A i \in 1..k - 1 : s[i].height = h => (CurrentAt(s, i, k) <=> CurrentAt(s, i, k - 1))
      BY <2>3, <2>6, EventsAssumption DEF CurrentAt
    <3>3. ~ (CurrentAt(s, k, k) /\ s[k].height = h)
      BY <2>6 DEF CurrentAt
    <3> QED
      BY <1>4, <3>1, <3>2, <3>3
  <2> QED
    BY <2>4, <2>5, <2>6
<1>5. 0..Len(s) \subseteq S
  <2>1. Len(s) \in Nat
    OBVIOUS
  <2> HIDE DEF S
  <2> QED
    BY <1>3, <1>4, <2>1, Induction
<1>6. Len(s) \in 0..Len(s)
  OBVIOUS
<1>7. all(Len(s)) /\ some(Len(s))
  BY <1>5, <1>6
<1> QED
  BY <1>2, <1>7

\* The queries of the model are these functions of what is stored for a node.
LEMMA Queries ==
  ASSUME NEW n, NEW h
  PROVE  /\ LatestHeight(n) = LatestOf(statements[n])
         /\ LatestHeight(n)' = LatestOf(statements'[n])
         /\ GetFullStatementAtHeight(n, h) = FullOf(statements[n], h)
         /\ GetFullStatementAtHeight(n, h)' = FullOf(statements'[n], h)
<1>1. LatestHeight(n) = LatestOf(statements[n])
  BY Zenon DEF LatestHeight, LatestOf, LatestScan
<1>2. LatestHeight(n)' = LatestOf(statements'[n])
  BY Zenon DEF LatestHeight, LatestOf, LatestScan
<1>3. GetFullStatementAtHeight(n, h) = FullOf(statements[n], h)
  BY Zenon DEF GetFullStatementAtHeight, FullOf, FullScan
<1>4. GetFullStatementAtHeight(n, h)' = FullOf(statements'[n], h)
  BY Zenon DEF GetFullStatementAtHeight, FullOf, FullScan
<1> QED
  BY <1>1, <1>2, <1>3, <1>4

\* What follows for the latest height and the current statements.
LEMMA Finds ==
  ASSUME NEW s \in Seq(Events)
  PROVE  /\ LatestOf(s) \in 0..MaxUint
         /\ \A h : HasIn(s, h) => h \in Heights /\ h \in 1..MaxUint /\ h <= LatestOf(s)
         /\ \A h \in 0..MaxUint : FullOf(s, h) # Unreachable <=> HasIn(s, h)
         /\ \A h \in 0..MaxUint : HasIn(s, h) =>
              /\ FullOf(s, h).status = "OK" /\ FullOf(s, h).height = h
              /\ FullOf(s, h).hash \in Hashes
              /\ FullOf(s, h) = Complete(h, FullOf(s, h).hash)
<1>1. \A i \in 1..Len(s) : s[i] \in Events
  OBVIOUS
<1>2. \A i \in 1..Len(s) :
         /\ s[i].height \in 0..MaxUint
         /\ s[i].hash # NoHash => /\ s[i].height \in Heights /\ s[i].height \in 1..MaxUint
                                  /\ s[i].hash \in Hashes /\ s[i].status = "OK"
                                  /\ s[i] = Complete(s[i].height, s[i].hash)
                                  /\ s[i] # Unreachable
  BY <1>1, EventFacts
<1>3. LatestOf(s) \in 0..MaxUint
  BY <1>2, LatestIs, EventsAssumption
<1>4. ASSUME NEW i \in 1..Len(s), CurrentAt(s, i, Len(s))
      PROVE  s[i].hash # NoHash /\ s[i].height <= LatestOf(s)
  <2>1. s[i].hash # NoHash
    BY <1>4 DEF CurrentAt
  <2>2. PICK k \in 1..Len(s) : /\ LatestOf(s) = s[k].height /\ s[k].hash # NoHash
                               /\ \A j \in k + 1..Len(s) : s[j].hash = NoHash
    BY <2>1, LatestIs
  <2>3. CASE k = i
    BY <1>2, <2>1, <2>2, <2>3, EventsAssumption
  <2>4. CASE k # i
    <3>1. k \in i + 1..Len(s)
      BY <2>1, <2>2, <2>4
    <3>2. s[k].height > s[i].height
      BY <1>2, <1>4, <2>2, <3>1, EventsAssumption DEF CurrentAt
    <3> QED
      BY <1>2, <2>1, <2>2, <3>2, EventsAssumption
  <2> QED
    BY <2>1, <2>3, <2>4
<1>5. \A h : HasIn(s, h) => h \in Heights /\ h \in 1..MaxUint /\ h <= LatestOf(s)
  BY <1>2, <1>4 DEF HasIn
<1>6. ASSUME NEW h \in 0..MaxUint, HasIn(s, h)
      PROVE  \E i \in 1..Len(s) : /\ s[i].hash # NoHash /\ s[i].height = h
                                  /\ FullOf(s, h) = s[i]
  BY <1>4, <1>6, FullIs DEF HasIn
<1>7. \A h \in 0..MaxUint : FullOf(s, h) # Unreachable => HasIn(s, h)
  BY FullIs DEF HasIn
<1> QED
  BY <1>2, <1>3, <1>5, <1>6, <1>7

\* A node that moves up, or does not answer, keeps what it has said.
LEMMA Grows ==
  ASSUME NEW s \in Seq(Events), NEW e \in Events, LatestOf(s) # 0,
         e.height = 0 \/ e.height > LatestOf(s)
  PROVE  /\ LatestOf(Append(s, e)) >= LatestOf(s)
         /\ \A h : HasIn(s, h) => HasIn(Append(s, e), h)
         /\ HasIn(s, LatestOf(s)) => HasIn(Append(s, e), LatestOf(Append(s, e)))
<1> DEFINE t == Append(s, e)
<1>1. /\ t \in Seq(Events) /\ Len(t) = Len(s) + 1
      /\ \A i \in 1..Len(s) : t[i] = s[i]
      /\ t[Len(s) + 1] = e
  OBVIOUS
<1> HIDE DEF t
<1>2. \A i \in 1..Len(s) : s[i] \in Events
  OBVIOUS
<1>3. \A i \in 1..Len(s) :
         /\ s[i].height \in 0..MaxUint
         /\ s[i].hash # NoHash => s[i].height \in 1..MaxUint
  BY <1>2, EventFacts
<1>4. e.height \in 0..MaxUint /\ (e.hash # NoHash => e.height \in 1..MaxUint)
  BY EventFacts
<1>5. Len(s) \in Nat /\ LatestOf(s) \in 0..MaxUint
  BY Finds
<1>6. ASSUME NEW h, HasIn(s, h)
      PROVE  HasIn(t, h)
  <2>1. PICK i \in 1..Len(s) : CurrentAt(s, i, Len(s)) /\ s[i].height = h
    BY <1>6 DEF HasIn
  <2>2. h <= LatestOf(s) /\ h \in 1..MaxUint
    BY <1>6, Finds
  <2>3. e.height = 0 \/ e.height > h
    BY <1>4, <1>5, <2>2, EventsAssumption
  <2>4. i \in 1..Len(t) /\ t[i] = s[i]
    BY <1>1, <1>5
  <2>5. \A j \in i + 1..Len(t) : (j \in i + 1..Len(s) /\ t[j] = s[j]) \/ j = Len(s) + 1
    BY <1>1, <1>5
  <2>6. CurrentAt(t, i, Len(t))
    BY <1>1, <2>1, <2>3, <2>4, <2>5 DEF CurrentAt
  <2> QED
    BY <2>1, <2>4, <2>6 DEF HasIn
<1>7. CASE e.hash # NoHash
  <2>1. LatestOf(t) = e.height
    <3>1. Len(t) \in 1..Len(t) /\ t[Len(t)] = e
      BY <1>1, <1>5
    <3>2. PICK k \in 1..Len(t) : /\ LatestOf(t) = t[k].height /\ t[k].hash # NoHash
                                 /\ \A j \in k + 1..Len(t) : t[j].hash = NoHash
      BY <1>1, <1>7, <3>1, LatestIs
    <3>3. k = Len(t)
      BY <1>1, <1>5, <1>7, <3>1, <3>2
    <3> QED
      BY <3>1, <3>2, <3>3
  <2>2. HasIn(t, e.height)
    <3>1. CurrentAt(t, Len(t), Len(t)) /\ Len(t) \in 1..Len(t) /\ t[Len(t)] = e
      BY <1>1, <1>5, <1>7 DEF CurrentAt
    <3> QED
      BY <3>1 DEF HasIn
  <2>3. LatestOf(t) >= LatestOf(s)
    BY <1>4, <1>5, <1>7, <2>1, EventsAssumption
  <2> QED
    BY <1>6, <2>1, <2>2, <2>3 DEF t
<1>8. CASE e.hash = NoHash
  <2>1. LatestOf(t) = LatestOf(s)
    <3>1. PICK i \in 1..Len(s) : /\ LatestOf(s) = s[i].height /\ s[i].hash # NoHash
                                 /\ \A j \in i + 1..Len(s) : s[j].hash = NoHash
      BY LatestIs
    <3>2. i \in 1..Len(t) /\ t[i].hash # NoHash
      BY <1>1, <1>5, <3>1
    <3>3. PICK k \in 1..Len(t) : /\ LatestOf(t) = t[k].height /\ t[k].hash # NoHash
                                 /\ \A j \in k + 1..Len(t) : t[j].hash = NoHash
      BY <1>1, <3>2, LatestIs
    <3>4. k \in 1..Len(s)
      BY <1>1, <1>5, <1>8, <3>3
    <3>5. k = i
      BY <1>1, <1>5, <3>1, <3>2, <3>3, <3>4
    <3> QED
      BY <1>1, <3>1, <3>3, <3>5
  <2> QED
    BY <1>5, <1>6, <2>1 DEF t
<1> QED
  BY <1>7, <1>8

-----------------------------------------------------------------------------
(***************************************************************************)
(* The invariant of a request                                              *)
(***************************************************************************)
RequestOK ==
    /\ Stored
    /\ phase \in {"idle", "latest", "search", "read", "answered", "big"}
    /\ asked \subseteq Nodes /\ todo \subseteq asked
    /\ phase # "idle" => found \in [asked -> 0..MaxUint]
    /\ minHeight \in 0..MaxUint /\ searches \in Nat
    /\ common \subseteq Heights
    /\ calm \in BOOLEAN /\ still \in BOOLEAN
    /\ phase \in {"idle", "latest", "search"} => answer = <<>>
    /\ phase \in {"read", "answered"} => DOMAIN answer = asked \ todo
    /\ phase = "answered" => todo = {}

Judged == {"search", "read", "answered"}

\* Heights are too far apart.
FarApart ==
    \E m, n \in Reachable(asked) : LatestHeight(m) > LatestHeight(n) + heightDifference

\* While the storage does not change, what was read is what is stored.
StillInv ==
    still /\ phase # "idle" =>
        /\ common = CommonHeights(asked)
        /\ phase = "latest" => \A n \in asked \ todo : found[n] = LatestHeight(n)
        /\ phase = "big" => FarApart
        /\ phase \in Judged =>
             /\ ~ FarApart
             /\ reachable = Reachable(asked)
        /\ phase \in {"read", "answered"} =>
             \A n \in asked \ todo : answer[n] = StatementOf(n)

\* A reachable node still says what it said last, and what was in common.
UpInv ==
    \A n \in Reachable(asked) :
        /\ Has(n, LatestHeight(n))
        /\ \A h \in common : Has(n, h)

\* The heights that the first pass has come to are those of current statements
\* of the reachable nodes, and 0 for the others.
LatestInv ==
    \A n \in asked \ todo :
        IF n \in Reachable(asked)
        THEN /\ found[n] # 0 /\ Has(n, found[n])
             /\ \A h \in common : h <= found[n]
             /\ still => found[n] = LatestHeight(n)
        ELSE found[n] = 0

\* No common height has been passed over; minHeight + searches is the height at
\* which the search began.
BoundsInv ==
    /\ \A h \in common : h <= minHeight
    /\ minHeight + searches <= MaxUint
    /\ still => \A n \in reachable : minHeight + searches <= LatestHeight(n)

\* A pass at a common height finds a statement of every reachable node.
SearchInv ==
    \A n \in reachable \ todo :
        /\ found[n] = minHeight => Has(n, minHeight)
        /\ minHeight \in common => found[n] = minHeight

\* If a common height was in reach of the search, every reachable node has a
\* statement at the height it ended at, and that one is read.
ReadInv ==
    \A h \in common :
        h > minHeight + searches - depthCommonHeightSearch =>
            \A n \in reachable :
                /\ Has(n, minHeight)
                /\ n \notin todo => answer[n].status = "OK" /\ answer[n].height = minHeight

CalmInv ==
    calm =>
        /\ UpInv
        /\ phase = "latest" => LatestInv
        /\ phase \in Judged => reachable = Reachable(asked)
        /\ phase \in Judged /\ reachable # {} /\ common # {} =>
             /\ BoundsInv
             /\ phase = "search" => SearchInv
             /\ phase # "search" => ReadInv

QInv == RequestOK /\ StillInv /\ CalmInv

-----------------------------------------------------------------------------
(***************************************************************************)
(* Arithmetic of the heights                                               *)
(***************************************************************************)
vars == <<statements, queryVars, calm, still>>

LEMMA Mod ==
  ASSUME NEW m \in Nat, NEW x \in 0..m
  PROVE  x % (m + 1) = x
  OBVIOUS

LEMMA ModRange ==
  ASSUME NEW m \in Nat, NEW x \in Int
  PROVE  x % (m + 1) \in 0..m
  OBVIOUS

LEMMA ModBelow ==
  ASSUME NEW m \in Nat \ {0}
  PROVE  (0 - m) % (m + 1) = 1
  OBVIOUS

LEMMA LatestRange ==
  ASSUME Stored, NEW n \in Nodes
  PROVE  LatestHeight(n) \in 0..MaxUint
<1>1. statements[n] \in Seq(Events)
  BY DEF Stored
<1> QED
  <2>1. LatestOf(statements[n]) \in 0..MaxUint
    BY <1>1, Finds
  <2>2. LatestHeight(n) = LatestOf(statements[n])
    BY Queries
  <2> QED
    BY <2>1, <2>2

\* The lowest and the highest of the heights that were read.
LEMMA Extremes ==
  ASSUME found \in [asked -> 0..MaxUint]
  PROVE  /\ Found \subseteq 1..MaxUint
         /\ Found = {} => Lowest = MaxUint /\ Highest = 0
         /\ Found # {} => /\ Lowest \in Found /\ \A g \in Found : Lowest <= g
                          /\ Highest \in Found /\ \A g \in Found : Highest >= g
<1>1. Found \subseteq 1..MaxUint
  BY EventsAssumption DEF Found
<1>2. Found \subseteq Nat /\ Found \subseteq 0..MaxUint
  BY <1>1, EventsAssumption
<1>3. Found = {} => Lowest = MaxUint /\ Highest = 0
  BY DEF Lowest, Highest
<1>4. ASSUME Found # {}
      PROVE  Lowest \in Found /\ \A g \in Found : Lowest <= g
  <2>1. \E h \in Found : \A g \in Found : h <= g
    BY <1>2, <1>4, Least
  <2>2. Lowest = CHOOSE h \in Found : \A g \in Found : h <= g
    BY <1>4 DEF Lowest
  <2> QED
    BY <2>1, <2>2, Zenon
<1>5. ASSUME Found # {}
      PROVE  Highest \in Found /\ \A g \in Found : Highest >= g
  <2>1. \E h \in Found : \A g \in Found : h >= g
    BY <1>2, <1>5, EventsAssumption, Greatest
  <2>2. Highest = CHOOSE h \in Found : \A g \in Found : h >= g
    BY <1>5 DEF Highest
  <2> QED
    BY <2>1, <2>2, Zenon
<1> QED
  BY <1>1, <1>3, <1>4, <1>5

-----------------------------------------------------------------------------
(***************************************************************************)
(* Types                                                                   *)
(***************************************************************************)
LEMMA InitRequestOK == QueryInit => RequestOK
<1> SUFFICES ASSUME QueryInit
             PROVE  RequestOK
  OBVIOUS
<1>1. Stored
  BY DEF QueryInit, StorageInit, Stored
<1>2. minHeight \in 0..MaxUint /\ searches \in Nat
  BY EventsAssumption DEF QueryInit, Start
<1>4. calm \in BOOLEAN /\ still \in BOOLEAN
  BY Zenon DEF QueryInit
<1>3. phase = "idle" /\ asked = {} /\ todo = {} /\ common = {} /\ answer = <<>>
  BY DEF QueryInit, Start
<1> QED
  BY <1>1, <1>2, <1>3, <1>4 DEF RequestOK

LEMMA NextRequestOK ==
  ASSUME RequestOK, [QueryNext]_vars
  PROVE  RequestOK'
<1> USE EventsAssumption DEF RequestOK
<1>1. ASSUME NEW n \in Nodes, Forget(n)
      PROVE  RequestOK'
  <2>1. statements[n] \in Seq(Events) /\ statements[n] # <<>>
    BY <1>1 DEF Forget, Expire, Stored
  <2>2. Tail(statements[n]) \in Seq(Events)
    BY <2>1
  <2>3. Stored'
    BY <1>1, <2>2 DEF Forget, Expire, Stored
  <2> QED
    BY <1>1, <2>3 DEF Forget, queryVars
<1>2. ASSUME NEW n \in Nodes, NEW s \in Events, Put(n, s)
      PROVE  RequestOK'
  <2>1. Append(statements[n], s) \in Seq(Events)
    BY DEF Stored
  <2>2. Stored'
    BY <1>2, <2>1 DEF Put, PutEvent, Stored
  <2>3. calm' \in BOOLEAN
    BY <1>2, Zenon DEF Put
  <2> QED
    BY <1>2, <2>2, <2>3 DEF Put, queryVars
<1>3. ASSUME NEW ns \in SUBSET Nodes, Request(ns)
      PROVE  RequestOK'
  <2>1. Stored'
    BY <1>3 DEF Request, Stored
  <2>2. calm' \in BOOLEAN
    BY <1>3, Zenon DEF Request
  <2> QED
    BY <1>3, <2>1, <2>2 DEF Request, CommonHeights
<1>4. ASSUME NEW n \in Nodes, ReadLatest(n)
      PROVE  RequestOK'
  <2>1. LatestHeight(n) \in 0..MaxUint
    BY LatestRange
  <2> QED
    BY <1>4, <2>1 DEF ReadLatest, Stored
<1>5. ASSUME NEW n \in Nodes, Search(n)
      PROVE  RequestOK'
  BY <1>5 DEF Search, Stored
<1>6. ASSUME NEW n \in Nodes, Read(n)
      PROVE  RequestOK'
  BY <1>6 DEF Read, Stored
<1>7. ASSUME LatestRead
      PROVE  RequestOK'
  <2>1. Lowest \in 0..MaxUint
    BY <1>7, Extremes DEF LatestRead
  <2>2. DOMAIN answer = {}
    BY <1>7 DEF LatestRead
  <2> QED
    BY <1>7, <2>1, <2>2 DEF LatestRead, Stored
<1>8. ASSUME Searched
      PROVE  RequestOK'
  <2>1. minHeight' \in 0..MaxUint /\ searches' \in Nat
    <3>1. minHeight - 1 \in Int /\ MaxUint \in Nat
      OBVIOUS
    <3>2. (minHeight - 1) % (MaxUint + 1) \in 0..MaxUint
      BY <3>1, ModRange
    <3> QED
      BY <1>8, <3>2 DEF Searched
  <2>2. DOMAIN answer = {}
    BY <1>8 DEF Searched
  <2> QED
    BY <1>8, <2>1, <2>2 DEF Searched, Stored
<1>9. ASSUME Answer
      PROVE  RequestOK'
  BY <1>9 DEF Answer, Stored
<1>10. ASSUME Rest
       PROVE  RequestOK'
  <2>1. Stored'
    BY <1>10 DEF Rest, Stored
  <2>2. minHeight' \in 0..MaxUint /\ searches' \in Nat
    BY <1>10 DEF Rest
  <2>4. calm' \in BOOLEAN /\ still' \in BOOLEAN
    BY <1>10, Zenon DEF Rest
  <2>3. phase' = "idle" /\ asked' = {} /\ todo' = {} /\ common' = {} /\ answer' = <<>>
    BY <1>10 DEF Rest
  <2> QED
    BY <2>1, <2>2, <2>3, <2>4
<1>11. ASSUME UNCHANGED vars
       PROVE  RequestOK'
  BY <1>11 DEF vars, queryVars, Stored
<1> QED
  BY <1>1, <1>2, <1>3, <1>4, <1>5, <1>6, <1>7, <1>8, <1>9, <1>10, <1>11 DEF QueryNext, Query

-----------------------------------------------------------------------------
(***************************************************************************)
(* Answers at a height                                                     *)
(***************************************************************************)
\* However rounds are stored and expire, the statement found at a height is the
\* current one of the node, and none is found only if there is none (events.go
\* 153-182).
THEOREM AnswersCurrent == QuerySpec => []AnswersAreCurrent
<1>1. ASSUME Stored
      PROVE  AnswersAreCurrent
  <2> SUFFICES ASSUME NEW n \in Nodes, NEW h \in 1..MaxUint
               PROVE  {statements[n][i] : i \in {j \in 1..Len(statements[n]) :
                                            Current(n, j) /\ statements[n][j].height = h}}
                        = IF FoundStatementAtHeight(n, h)
                          THEN {GetFullStatementAtHeight(n, h)} ELSE {}
    BY Zenon DEF AnswersAreCurrent
  <2> DEFINE s == statements[n]
             I == {j \in 1..Len(s) : Current(n, j) /\ s[j].height = h}
  <2>1. s \in Seq(Events) /\ h \in 0..MaxUint
    BY <1>1, EventsAssumption DEF Stored
  <2>2. \A j : Current(n, j) <=> CurrentAt(s, j, Len(s))
    BY DEF Current, CurrentAt
  <2>3. GetFullStatementAtHeight(n, h) = FullOf(s, h)
    BY Queries
  <2>4. \A i \in I : FullOf(s, h) = s[i]
    BY <2>1, <2>2, FullIs
  <2>5. FullOf(s, h) # Unreachable => \E i \in I : FullOf(s, h) = s[i]
    BY <2>1, <2>2, FullIs
  <2>6. I # {} => FullOf(s, h) # Unreachable
    <3>1. I # {} => HasIn(s, h)
      BY <2>2 DEF HasIn
    <3> QED
      BY <2>1, <3>1, Finds
  <2> HIDE DEF I, s
  <2>7. {s[i] : i \in I} = IF FullOf(s, h) # Unreachable THEN {FullOf(s, h)} ELSE {}
    BY <2>4, <2>5, <2>6
  <2> QED
    BY <2>3, <2>7, Zenon DEF FoundStatementAtHeight, I, s
<1>2. RequestOK => AnswersAreCurrent
  BY <1>1 DEF RequestOK
<1>3. RequestOK /\ [QueryNext]_vars => RequestOK'
  BY NextRequestOK
<1> QED
  BY <1>2, <1>3, InitRequestOK, PTL DEF QuerySpec, vars

-----------------------------------------------------------------------------
(***************************************************************************)
(* Requests while the storage does not change                              *)
(***************************************************************************)
LEMMA Same ==
  ASSUME UNCHANGED statements
  PROVE  /\ \A n : LatestHeight(n)' = LatestHeight(n)
         /\ \A n, h : GetFullStatementAtHeight(n, h)' = GetFullStatementAtHeight(n, h)
         /\ asked' = asked => /\ Reachable(asked)' = Reachable(asked)
                              /\ CommonHeights(asked)' = CommonHeights(asked)
                              /\ FarApart' <=> FarApart
<1>1. \A n : LatestHeight(n)' = LatestHeight(n)
  BY Queries
<1>2. \A n, h : GetFullStatementAtHeight(n, h)' = GetFullStatementAtHeight(n, h)
  BY Queries
<1>3. asked' = asked => Reachable(asked)' = Reachable(asked)
  BY <1>1 DEF Reachable
<1>4. asked' = asked => CommonHeights(asked)' = CommonHeights(asked)
  BY <1>3 DEF CommonHeights, Current
<1>5. asked' = asked => (FarApart' <=> FarApart)
  BY <1>1, <1>3 DEF FarApart
<1> QED
  BY <1>1, <1>2, <1>3, <1>4, <1>5

LEMMA Difference ==
  ASSUME RequestOK, phase = "latest", \A n \in asked : found[n] = LatestHeight(n)
  PROVE  BigHeightDifference <=> FarApart
<1>1. found \in [asked -> 0..MaxUint]
  BY DEF RequestOK
<1>2. \A n \in asked : n \in Reachable(asked) <=> found[n] # 0
  BY DEF Reachable
<1>3. \A n \in Reachable(asked) : n \in asked /\ found[n] \in Found /\ found[n] = LatestHeight(n)
  BY <1>2 DEF Found, Reachable
<1>4. \A h \in Found : \E n \in Reachable(asked) : found[n] = h
  BY <1>1, <1>2 DEF Found
<1>5. Found \subseteq 1..MaxUint /\ MaxUint \in Nat \ {0} /\ heightDifference \in Nat \ {0}
  BY <1>1, Extremes, EventsAssumption, QueryAssumption
<1>6. CASE Found = {}
  <2>1. ~ FarApart
    BY <1>3, <1>6 DEF FarApart
  <2>2. (Highest - Lowest) % (MaxUint + 1) = 1
    <3>1. Highest = 0 /\ Lowest = MaxUint
      BY <1>1, <1>6, Extremes
    <3> QED
      BY <1>5, <3>1, ModBelow
  <2> QED
    BY <1>5, <2>1, <2>2 DEF BigHeightDifference
<1>7. CASE Found # {}
  <2>1. /\ Lowest \in Found /\ \A g \in Found : Lowest <= g
        /\ Highest \in Found /\ \A g \in Found : Highest >= g
    BY <1>1, <1>7, Extremes
  <2>2. Highest - Lowest \in 0..MaxUint
    BY <1>5, <2>1
  <2>3. (Highest - Lowest) % (MaxUint + 1) = Highest - Lowest
    BY <1>5, <2>2, Mod
  <2>4. ASSUME Highest - Lowest > heightDifference
        PROVE  FarApart
    <3>1. PICK m \in Reachable(asked), n \in Reachable(asked) :
             found[m] = Highest /\ found[n] = Lowest
      BY <1>4, <2>1
    <3>2. LatestHeight(m) = Highest /\ LatestHeight(n) = Lowest
      BY <1>3, <3>1
    <3>3. LatestHeight(m) > LatestHeight(n) + heightDifference
      BY <1>5, <2>1, <2>4, <3>2
    <3> QED
      BY <3>3 DEF FarApart
  <2>5. ASSUME FarApart
        PROVE  Highest - Lowest > heightDifference
    <3>1. PICK m \in Reachable(asked), n \in Reachable(asked) :
             LatestHeight(m) > LatestHeight(n) + heightDifference
      BY <2>5 DEF FarApart
    <3>2. LatestHeight(m) \in Found /\ LatestHeight(n) \in Found
      BY <1>3
    <3>3. Lowest <= LatestHeight(n) /\ Highest >= LatestHeight(m)
      BY <2>1, <3>2
    <3>4. /\ Lowest \in Nat /\ Highest \in Nat
          /\ LatestHeight(n) \in Nat /\ LatestHeight(m) \in Nat
      <4>1. Found \subseteq Nat
        BY <1>5
      <4> QED
        BY <2>1, <3>2, <4>1
    <3> QED
      BY <1>5, <3>1, <3>3, <3>4
  <2> QED
    BY <2>3, <2>4, <2>5 DEF BigHeightDifference
<1> QED
  BY <1>6, <1>7

LEMMA InitStillInv == QueryInit => StillInv
  BY DEF QueryInit, StillInv

LEMMA NextStillInv ==
  ASSUME RequestOK, StillInv, [QueryNext]_vars
  PROVE  StillInv'
<1> SUFFICES ASSUME still', phase' # "idle"
             PROVE  /\ common' = CommonHeights(asked)'
                    /\ phase' = "latest" =>
                         \A n \in asked' \ todo' : found'[n] = LatestHeight(n)'
                    /\ phase' = "big" => FarApart'
                    /\ phase' \in Judged => ~ FarApart' /\ reachable' = Reachable(asked)'
                    /\ phase' \in {"read", "answered"} =>
                         \A n \in asked' \ todo' : answer'[n] = StatementOf(n)'
  BY DEF StillInv, Judged
<1>1. ASSUME NEW n \in Nodes, Forget(n)
      PROVE  FALSE
  BY <1>1 DEF Forget
<1>2. ASSUME NEW n \in Nodes, NEW s \in Events, Put(n, s)
      PROVE  FALSE
  BY <1>2 DEF Put
<1>3. ASSUME NEW ns \in SUBSET Nodes, Request(ns)
      PROVE  /\ common' = CommonHeights(asked)'
             /\ phase' = "latest" /\ todo' = asked'
  <2>1. CommonHeights(ns)' = CommonHeights(ns)
    <3>1. \A n : LatestHeight(n)' = LatestHeight(n)
      BY <1>3, Same DEF Request
    <3> QED
      BY <1>3, <3>1 DEF CommonHeights, Current, Reachable, Request
  <2> QED
    BY <1>3, <2>1 DEF Request, CommonHeights, Reachable, Current
<1>4. ASSUME NEW n \in Nodes, ReadLatest(n)
      PROVE  /\ common' = CommonHeights(asked)' /\ phase' = "latest"
             /\ \A m \in asked' \ todo' : found'[m] = LatestHeight(m)'
  <2>1. common' = CommonHeights(asked)' /\ phase' = "latest" /\ UNCHANGED <<statements, asked>>
    BY <1>4, Same DEF ReadLatest, StillInv
  <2>2. \A m \in asked \ todo : found[m] = LatestHeight(m)
    BY <1>4 DEF ReadLatest, StillInv
  <2>3. \A m \in asked' \ todo' : m \in asked \ todo \/ m = n
    BY <1>4 DEF ReadLatest
  <2>4. found \in [asked -> 0..MaxUint] /\ n \in asked
    BY <1>4 DEF ReadLatest, RequestOK
  <2>5. \A m \in asked' \ todo' : found'[m] = LatestHeight(m)
    BY <1>4, <2>1, <2>2, <2>3, <2>4 DEF ReadLatest
  <2> QED
    BY <2>1, <2>5, Same
<1>5. ASSUME LatestRead
      PROVE  /\ common' = CommonHeights(asked)'
             /\ phase' \in {"big", "read", "search"}
             /\ phase' = "big" => FarApart'
             /\ phase' # "big" =>
                  ~ FarApart' /\ reachable' = Reachable(asked)' /\ todo' = asked'
  <2>1. phase = "latest" /\ still /\ todo = {} /\ UNCHANGED <<statements, asked, common>>
    BY <1>5 DEF LatestRead
  <2>2. common = CommonHeights(asked) /\ \A n \in asked : found[n] = LatestHeight(n)
    BY <2>1 DEF StillInv
  <2>3. BigHeightDifference <=> FarApart
    BY <2>1, <2>2, Difference
  <2>4. reachable' = Reachable(asked)
    BY <1>5, <2>2 DEF LatestRead, Reachable
  <2>5. /\ CommonHeights(asked)' = CommonHeights(asked)
        /\ Reachable(asked)' = Reachable(asked)
        /\ FarApart' <=> FarApart
    BY <2>1, Same
  <2>6. CASE BigHeightDifference
    <3>1. phase' = "big"
      BY <1>5, <2>6 DEF LatestRead
    <3> QED
      BY <2>1, <2>2, <2>3, <2>5, <2>6, <3>1
  <2>7. CASE ~ BigHeightDifference
    <3>1. phase' \in {"read", "search"} /\ todo' = asked
      BY <1>5, <2>7 DEF LatestRead
    <3> QED
      BY <2>1, <2>2, <2>3, <2>4, <2>5, <2>7, <3>1
  <2> QED
    BY <2>6, <2>7
\* From there on neither the heights nor the reachable nodes change.
<1>6. ASSUME phase \in Judged, still, phase' \in Judged,
             UNCHANGED <<statements, asked, common, reachable>>
      PROVE  /\ common' = CommonHeights(asked)'
             /\ ~ FarApart' /\ reachable' = Reachable(asked)'
  BY <1>6, Same DEF StillInv, Judged
<1>7. ASSUME NEW n \in Nodes, Search(n)
      PROVE  /\ common' = CommonHeights(asked)' /\ phase' = "search"
             /\ ~ FarApart' /\ reachable' = Reachable(asked)'
  <2>1. phase = "search" /\ phase' = "search" /\ still
    BY <1>7 DEF Search
  <2>2. phase \in Judged /\ phase' \in Judged
    BY <2>1 DEF Judged
  <2>3. UNCHANGED <<statements, asked, common, reachable>>
    BY <1>7 DEF Search
  <2> QED
    BY <1>6, <2>1, <2>2, <2>3
<1>8. ASSUME Searched
      PROVE  /\ common' = CommonHeights(asked)'
             /\ phase' \in {"search", "read"} /\ todo' = asked'
             /\ ~ FarApart' /\ reachable' = Reachable(asked)'
  <2>1. phase = "search" /\ phase' \in {"search", "read"} /\ still
    BY <1>8 DEF Searched
  <2>2. phase \in Judged /\ phase' \in Judged
    BY <2>1 DEF Judged
  <2>3. UNCHANGED <<statements, asked, common, reachable>> /\ todo' = asked'
    BY <1>8 DEF Searched
  <2> QED
    BY <1>6, <2>1, <2>2, <2>3
<1>9. ASSUME NEW n \in Nodes, Read(n)
      PROVE  /\ common' = CommonHeights(asked)' /\ phase' = "read"
             /\ ~ FarApart' /\ reachable' = Reachable(asked)'
             /\ \A m \in asked' \ todo' : answer'[m] = StatementOf(m)'
  <2>1. phase = "read" /\ phase' = "read" /\ still
    BY <1>9 DEF Read
  <2>2. phase \in Judged /\ phase' \in Judged
    BY <2>1 DEF Judged
  <2>3. UNCHANGED <<statements, asked, common, reachable, minHeight>>
    BY <1>9 DEF Read
  <2>4. \A m : StatementOf(m)' = StatementOf(m)
    BY <2>3, Same DEF StatementOf
  <2>5. \A m \in asked \ todo : answer[m] = StatementOf(m)
    BY <2>1 DEF StillInv
  <2>6. DOMAIN answer = asked \ todo
    BY <2>1 DEF RequestOK
  <2>7. \A m \in asked' \ todo' : m \in asked \ todo \/ m = n
    BY <1>9 DEF Read
  <2>8. \A m \in asked' \ todo' : answer'[m] = StatementOf(m)
    BY <1>9, <2>5, <2>6, <2>7 DEF Read
  <2> QED
    BY <1>6, <2>1, <2>2, <2>3, <2>4, <2>8
<1>10. ASSUME Answer
       PROVE  /\ common' = CommonHeights(asked)' /\ phase' = "answered"
              /\ ~ FarApart' /\ reachable' = Reachable(asked)'
              /\ \A m \in asked' \ todo' : answer'[m] = StatementOf(m)'
  <2>1. phase = "read" /\ phase' = "answered" /\ still
    BY <1>10 DEF Answer
  <2>2. phase \in Judged /\ phase' \in Judged
    BY <2>1 DEF Judged
  <2>3. UNCHANGED <<statements, asked, todo, answer, common, reachable, minHeight>>
    BY <1>10 DEF Answer
  <2>4. \A m : StatementOf(m)' = StatementOf(m)
    BY <2>3, Same DEF StatementOf
  <2>5. \A m \in asked \ todo : answer[m] = StatementOf(m)
    BY <2>1 DEF StillInv
  <2> QED
    BY <1>6, <2>1, <2>2, <2>3, <2>4, <2>5
<1>11. ASSUME Rest
       PROVE  FALSE
  BY <1>11 DEF Rest
<1>12. ASSUME UNCHANGED vars
       PROVE  StillInv'
  <2>1. UNCHANGED <<statements, asked, todo, answer, common, reachable, minHeight,
                    phase, found, still>>
    BY <1>12 DEF vars, queryVars
  <2>2. \A m : StatementOf(m)' = StatementOf(m)
    BY <2>1, Same DEF StatementOf
  <2> QED
    BY <2>1, <2>2, Same DEF StillInv
<1>13. ASSUME NEW n \in Nodes, ReadLatest(n) \/ Search(n) \/ Read(n)
       PROVE  StillInv'
  BY <1>4, <1>7, <1>9, <1>13 DEF StillInv, Judged
<1>14. ASSUME LatestRead \/ Searched \/ Answer
       PROVE  StillInv'
  BY <1>5, <1>8, <1>10, <1>14 DEF StillInv, Judged
<1>15. ASSUME NEW ns \in SUBSET Nodes, Request(ns)
       PROVE  StillInv'
  BY <1>3, <1>15 DEF StillInv, Judged
<1>16. StillInv'
  BY <1>1, <1>2, <1>11, <1>12, <1>13, <1>14, <1>15 DEF QueryNext, Query
<1> QED
  BY <1>16 DEF StillInv, Judged

\* While no round is stored, the difference is reported as too big exactly when
\* it is (events.go 260-274).
THEOREM DifferenceReported == QuerySpec => []DifferenceExact
<1>1. RequestOK /\ StillInv => DifferenceExact
  BY DEF StillInv, DifferenceExact, FarApart, Judged
<1>2. RequestOK /\ StillInv /\ [QueryNext]_vars => RequestOK' /\ StillInv'
  BY NextRequestOK, NextStillInv
<1> QED
  BY <1>1, <1>2, InitRequestOK, InitStillInv, PTL DEF QuerySpec, vars

-----------------------------------------------------------------------------
(***************************************************************************)
(* Requests while nodes move up                                            *)
(***************************************************************************)
\* What the queries of a stored node have to do with its statements.
LEMMA HasFacts ==
  ASSUME Stored, NEW n \in Nodes
  PROVE  /\ \A h : Has(n, h) => h \in 1..MaxUint /\ h \in Heights /\ h <= LatestHeight(n)
         /\ \A h \in 0..MaxUint : FoundStatementAtHeight(n, h) <=> Has(n, h)
         /\ \A h \in 0..MaxUint : Has(n, h) =>
              /\ GetFullStatementAtHeight(n, h).status = "OK"
              /\ GetFullStatementAtHeight(n, h).height = h
              /\ GetFullStatementAtHeight(n, h).hash \in Hashes
              /\ GetFullStatementAtHeight(n, h)
                   = Complete(h, GetFullStatementAtHeight(n, h).hash)
<1>1. statements[n] \in Seq(Events)
  BY DEF Stored
<1>2. LatestHeight(n) = LatestOf(statements[n])
  BY Queries
<1>3. \A h : GetFullStatementAtHeight(n, h) = FullOf(statements[n], h)
  BY Queries
<1> QED
  BY <1>1, <1>2, <1>3, Finds DEF Has, FoundStatementAtHeight

LEMMA ReachableNodes ==
  ASSUME RequestOK, NEW n \in Reachable(asked)
  PROVE  n \in asked /\ n \in Nodes /\ LatestHeight(n) # 0 /\ LatestHeight(n) \in 1..MaxUint
<1>1. n \in asked /\ n \in Nodes /\ LatestHeight(n) # 0 /\ Stored
  BY DEF RequestOK, Reachable
<1>2. LatestHeight(n) \in 0..MaxUint
  BY <1>1, LatestRange
<1> QED
  BY <1>1, <1>2, EventsAssumption

\* Has is kept as long as nothing is stored.
LEMMA SameHas ==
  ASSUME UNCHANGED statements
  PROVE  \A n, h : Has(n, h)' <=> Has(n, h)
  BY DEF Has

\* A step that only reads keeps what is said of the nodes.
LEMMA KeepsUp ==
  ASSUME UpInv, UNCHANGED <<statements, asked, common>>
  PROVE  UpInv'
<1>1. Reachable(asked)' = Reachable(asked) /\ \A n : LatestHeight(n)' = LatestHeight(n)
  BY Same
<1>2. \A n \in Reachable(asked) : HasIn(statements'[n], LatestHeight(n))
  BY DEF UpInv, Has
<1> QED
  BY <1>1, <1>2 DEF UpInv, Has

LEMMA InitCalmInv == QueryInit => CalmInv
  BY DEF QueryInit, CalmInv

LEMMA PutCalmInv ==
  ASSUME RequestOK, CalmInv, calm', NEW n \in Nodes, NEW s \in Events, Put(n, s)
  PROVE  CalmInv'
<1>1. calm /\ MovesUp(n, s) /\ ~ still' /\ UNCHANGED queryVars
  BY DEF Put
<1>2. statements \in [Nodes -> Seq(Events)]
  BY DEF RequestOK, Stored
<1>3. statements'[n] = Append(statements[n], s) /\ \A m \in Nodes : m # n => statements'[m] = statements[m]
  BY <1>2 DEF Put, PutEvent
<1>4. /\ LatestHeight(n) = LatestOf(statements[n])
      /\ LatestOf(statements[n]) # 0
      /\ s.height = 0 \/ s.height > LatestOf(statements[n])
  BY <1>1, Queries DEF MovesUp
<1>5. ASSUME NEW m \in Nodes
      PROVE  /\ LatestHeight(m)' >= LatestHeight(m)
             /\ LatestHeight(m)' # 0 <=> LatestHeight(m) # 0
             /\ \A h : HasIn(statements[m], h) => HasIn(statements'[m], h)
             /\ HasIn(statements[m], LatestHeight(m)) => HasIn(statements'[m], LatestHeight(m)')
  <2>1. LatestHeight(m) = LatestOf(statements[m]) /\ LatestHeight(m)' = LatestOf(statements'[m])
    BY Queries
  <2>2. statements[n] \in Seq(Events) /\ statements[m] \in Seq(Events)
    BY <1>2
  <2>3. LatestOf(statements[m]) \in 0..MaxUint
    BY <2>2, Finds
  <2>4. CASE m # n
    <3>1. statements'[m] = statements[m]
      BY <1>3, <2>4
    <3> QED
      BY <2>1, <2>3, <3>1
  <2>5. CASE m = n
    <3> DEFINE t == Append(statements[n], s)
    <3>1. /\ LatestOf(t) >= LatestOf(statements[n])
          /\ \A h : HasIn(statements[n], h) => HasIn(t, h)
          /\ HasIn(statements[n], LatestOf(statements[n])) => HasIn(t, LatestOf(t))
      BY <1>4, <2>2, Grows
    <3>2. t \in Seq(Events)
      BY <2>2
    <3>3. statements'[n] = t
      BY <1>3
    <3> HIDE DEF t
    <3>4. LatestOf(t) \in 0..MaxUint
      BY <3>2, Finds
    <3>5. LatestOf(t) # 0
      BY <1>4, <2>3, <2>5, <3>1, <3>4, EventsAssumption
    <3> QED
      BY <1>4, <2>1, <2>5, <3>1, <3>3, <3>5
  <2> QED
    BY <2>4, <2>5
<1>6. /\ UNCHANGED <<phase, asked, todo, found, reachable, minHeight, searches, answer, common>>
      /\ asked \subseteq Nodes
  BY <1>1 DEF queryVars, RequestOK
<1>7. Reachable(asked)' = Reachable(asked)
  BY <1>5, <1>6 DEF Reachable
<1>8. Reachable(asked) \subseteq Nodes
  BY <1>6 DEF Reachable
<1>9. UpInv'
  BY <1>1, <1>5, <1>6, <1>7, <1>8 DEF UpInv, CalmInv, Has
<1>10. ASSUME phase = "latest"
       PROVE  LatestInv'
  <2>1. LatestInv
    BY <1>1, <1>10 DEF CalmInv
  <2> QED
    BY <1>1, <1>5, <1>6, <1>7, <1>8, <2>1 DEF LatestInv, Has
<1>11. ASSUME phase \in Judged
       PROVE  reachable' = Reachable(asked)' /\ reachable \subseteq Nodes
  BY <1>1, <1>6, <1>7, <1>8, <1>11 DEF CalmInv
<1>12. ASSUME phase \in Judged, reachable # {}, common # {}
       PROVE  /\ BoundsInv'
              /\ phase = "search" => SearchInv'
              /\ phase # "search" => ReadInv'
  <2>1. /\ BoundsInv /\ (phase = "search" => SearchInv)
        /\ phase # "search" => ReadInv
    BY <1>1, <1>12 DEF CalmInv
  <2>2. BoundsInv'
    BY <1>1, <1>6, <2>1 DEF BoundsInv
  <2>3. SearchInv => SearchInv'
    BY <1>5, <1>6, <1>11, <1>12 DEF SearchInv, Has
  <2>4. ReadInv => ReadInv'
    BY <1>5, <1>6, <1>11, <1>12 DEF ReadInv, Has
  <2> QED
    BY <2>1, <2>2, <2>3, <2>4
<1> QED
  BY <1>6, <1>9, <1>10, <1>11, <1>12 DEF CalmInv

LEMMA RequestCalmInv ==
  ASSUME RequestOK, calm', NEW ns \in SUBSET Nodes, Request(ns)
  PROVE  CalmInv'
<1>1. /\ UNCHANGED statements /\ phase' = "latest" /\ asked' = ns /\ todo' = ns
      /\ common' = CommonHeights(ns)
      /\ \A n \in Reachable(ns) : FoundStatementAtHeight(n, LatestHeight(n))
  BY DEF Request
<1>2. \A n : LatestHeight(n)' = LatestHeight(n)
  BY <1>1, Same
<1>3. Reachable(asked)' = Reachable(ns)
  BY <1>1, <1>2 DEF Reachable
<1>4. ASSUME NEW n \in Reachable(ns)
      PROVE  /\ HasIn(statements[n], LatestHeight(n))
             /\ \A h \in CommonHeights(ns) : HasIn(statements[n], h)
  <2>1. n \in Nodes /\ Stored
    BY DEF Reachable, RequestOK
  <2>2. LatestHeight(n) \in 0..MaxUint
    BY <2>1, LatestRange
  <2>3. Has(n, LatestHeight(n))
    BY <1>1, <2>1, <2>2, HasFacts
  <2>4. \A i : Current(n, i) <=> CurrentAt(statements[n], i, Len(statements[n]))
    BY DEF Current, CurrentAt
  <2>5. \A h \in CommonHeights(ns) :
          \E i \in 1..Len(statements[n]) : Current(n, i) /\ statements[n][i].height = h
    BY DEF CommonHeights
  <2> QED
    BY <2>3, <2>4, <2>5 DEF Has, HasIn
<1>5. UpInv'
  BY <1>1, <1>2, <1>3, <1>4 DEF UpInv, Has
<1>6. LatestInv'
  BY <1>1 DEF LatestInv
<1> QED
  BY <1>1, <1>5, <1>6 DEF CalmInv, Judged

LEMMA ReadLatestCalmInv ==
  ASSUME RequestOK, CalmInv, calm', NEW n \in Nodes, ReadLatest(n)
  PROVE  CalmInv'
<1>1. /\ calm /\ phase = "latest" /\ phase' = "latest" /\ n \in todo /\ todo' = todo \ {n}
      /\ UNCHANGED <<statements, asked, common, calm, still>>
      /\ found' = [found EXCEPT ![n] = LatestHeight(n)]
  BY DEF ReadLatest
<1>2. UpInv /\ LatestInv
  BY <1>1 DEF CalmInv
<1>3. UpInv'
  BY <1>1, <1>2, KeepsUp
<1>4. found \in [asked -> 0..MaxUint] /\ n \in asked /\ Stored
  BY <1>1 DEF RequestOK
<1>5. found'[n] = LatestHeight(n) /\ \A m \in asked : m # n => found'[m] = found[m]
  BY <1>1, <1>4
<1>6. Reachable(asked)' = Reachable(asked) /\ \A m : LatestHeight(m)' = LatestHeight(m)
  BY <1>1, Same
<1>7. IF n \in Reachable(asked)
      THEN /\ found'[n] # 0 /\ Has(n, found'[n])
           /\ \A h \in common : h <= found'[n]
           /\ found'[n] = LatestHeight(n)
      ELSE found'[n] = 0
  <2>1. CASE n \in Reachable(asked)
    <3>1. Has(n, LatestHeight(n)) /\ \A h \in common : Has(n, h)
      BY <1>2, <2>1 DEF UpInv
    <3>2. \A h \in common : h <= LatestHeight(n)
      BY <1>4, <3>1, HasFacts
    <3>3. LatestHeight(n) # 0
      BY <2>1 DEF Reachable
    <3> QED
      BY <1>5, <2>1, <3>1, <3>2, <3>3
  <2>2. CASE n \notin Reachable(asked)
    BY <1>4, <1>5, <2>2 DEF Reachable
  <2> QED
    BY <2>1, <2>2
<1>8. \A m \in asked' \ todo' : m = n \/ m \in asked \ todo
  BY <1>1
<1>9. LatestInv'
  BY <1>1, <1>2, <1>4, <1>5, <1>6, <1>7, <1>8 DEF LatestInv, Has
<1> QED
  BY <1>1, <1>3, <1>9 DEF CalmInv, Judged

LEMMA LatestReadCalmInv ==
  ASSUME RequestOK, CalmInv, calm', LatestRead
  PROVE  CalmInv'
<1>1. /\ calm /\ phase = "latest" /\ todo = {} /\ phase' # "latest"
      /\ UNCHANGED <<statements, asked, common, found, calm, still>>
      /\ reachable' = {n \in asked : found[n] # 0} /\ minHeight' = Lowest /\ searches' = 0
      /\ phase' \in Judged => todo' = asked
      /\ phase' = "read" => AllAt(reachable', Lowest)
      /\ phase' # "answered"
  BY DEF LatestRead, Judged
<1>2. UpInv /\ LatestInv
  BY <1>1 DEF CalmInv
<1>3. UpInv'
  BY <1>1, <1>2, KeepsUp
<1>4. \A n \in asked : n \in Reachable(asked) <=> found[n] # 0
  BY <1>1, <1>2 DEF LatestInv
<1>5. reachable' = Reachable(asked) /\ Reachable(asked)' = Reachable(asked)
  BY <1>1, <1>4, Same DEF Reachable
<1>6. found \in [asked -> 0..MaxUint] /\ common \subseteq 1..MaxUint /\ MaxUint \in Nat \ {0}
  BY <1>1, EventsAssumption DEF RequestOK
<1>7. ASSUME reachable' # {}, common # {}, phase' \in Judged
      PROVE  /\ BoundsInv'
             /\ phase' = "search" => SearchInv'
             /\ phase' # "search" => ReadInv'
  <2>1. \A n \in reachable' : found[n] \in Found
    BY <1>1 DEF Found
  <2>2. Found # {}
    BY <1>7, <2>1
  <2>3. Lowest \in Found /\ (\A g \in Found : Lowest <= g) /\ Found \subseteq 1..MaxUint
    BY <1>6, <2>2, Extremes
  <2>4. PICK m \in asked : found[m] = Lowest /\ found[m] # 0
    BY <2>3 DEF Found
  <2>5. \A h \in common : h <= Lowest
    BY <1>1, <1>2, <1>4, <2>4 DEF LatestInv
  <2>6. still => \A n \in reachable' : found[n] = LatestHeight(n)
    BY <1>1, <1>2, <1>5 DEF LatestInv, Reachable
  <2>7. \A n \in reachable' : Lowest <= found[n]
    BY <2>1, <2>3
  <2>8. \A n : LatestHeight(n)' = LatestHeight(n)
    BY <1>1, Same
  <2>9. Lowest \in Nat /\ Lowest <= MaxUint
    BY <1>6, <2>3
  <2>10. BoundsInv'
    BY <1>1, <1>6, <2>5, <2>6, <2>7, <2>8, <2>9 DEF BoundsInv
  <2>11. reachable' \ todo' = {}
    BY <1>1, <1>7
  <2>12. SearchInv'
    BY <2>11 DEF SearchInv
  <2>13. ASSUME phase' # "search"
         PROVE  ReadInv'
    <3>1. AllAt(reachable', Lowest)
      BY <1>1, <1>7, <2>13 DEF Judged
    <3>2. \A n \in reachable' : Has(n, Lowest)
      BY <1>1, <1>2, <1>5, <3>1 DEF AllAt, LatestInv, Reachable
    <3> QED
      BY <1>1, <2>11, <3>2 DEF ReadInv, Has
  <2> QED
    BY <2>10, <2>12, <2>13
<1> QED
  BY <1>1, <1>3, <1>5, <1>7 DEF CalmInv

LEMMA SearchCalmInv ==
  ASSUME RequestOK, CalmInv, calm', NEW n \in Nodes, Search(n)
  PROVE  CalmInv'
<1>1. /\ calm /\ phase = "search" /\ phase' = "search" /\ n \in todo /\ todo' = todo \ {n}
      /\ UNCHANGED <<statements, asked, reachable, minHeight, searches, common, calm, still>>
      /\ found' = [found EXCEPT ![n] = IF FoundStatementAtHeight(n, minHeight)
                                       THEN minHeight ELSE 0]
  BY DEF Search
<1>2. phase \in Judged /\ phase' \in Judged
  BY <1>1 DEF Judged
<1>3. UpInv /\ reachable = Reachable(asked)
  BY <1>1, <1>2 DEF CalmInv
<1>4. UpInv' /\ reachable' = Reachable(asked)'
  BY <1>1, <1>3, KeepsUp, Same
<1>5. /\ found \in [asked -> 0..MaxUint] /\ n \in asked /\ Stored
      /\ minHeight \in 0..MaxUint /\ common \subseteq 1..MaxUint
  BY <1>1, EventsAssumption DEF RequestOK
<1>6. found'[n] = (IF FoundStatementAtHeight(n, minHeight) THEN minHeight ELSE 0)
      /\ \A m \in asked : m # n => found'[m] = found[m]
  BY <1>1, <1>5
<1>7. ASSUME reachable # {}, common # {}
      PROVE  BoundsInv' /\ SearchInv'
  <2>1. BoundsInv /\ SearchInv
    BY <1>1, <1>2, <1>7 DEF CalmInv
  <2>2. BoundsInv'
    BY <1>1, <2>1, Same DEF BoundsInv
  <2>3. minHeight # 0
    <3>1. PICK h \in common : h \in 1..MaxUint
      BY <1>5, <1>7
    <3>2. h <= minHeight
      BY <2>1 DEF BoundsInv
    <3> QED
      BY <1>5, <3>1, <3>2
  <2>4. found'[n] = minHeight => Has(n, minHeight)
    BY <1>5, <1>6, <2>3, HasFacts
  <2>5. n \in reachable /\ minHeight \in common => found'[n] = minHeight
    BY <1>3, <1>5, <1>6, HasFacts DEF UpInv
  <2>6. \A m \in reachable \ todo' : m = n \/ m \in reachable \ todo
    BY <1>1
  <2>7. \A m \in reachable : m \in asked
    BY <1>3 DEF Reachable
  <2>8. ASSUME NEW m \in reachable \ todo'
        PROVE  /\ found'[m] = minHeight => Has(m, minHeight)
               /\ minHeight \in common => found'[m] = minHeight
    BY <1>6, <2>1, <2>4, <2>5, <2>6, <2>7, <2>8 DEF SearchInv
  <2>9. SearchInv'
    BY <1>1, <2>8 DEF SearchInv, Has
  <2> QED
    BY <2>2, <2>9
<1> QED
  BY <1>1, <1>4, <1>7 DEF CalmInv

LEMMA SearchedCalmInv ==
  ASSUME RequestOK, CalmInv, calm', Searched
  PROVE  CalmInv'
<1>1. /\ calm /\ phase = "search" /\ todo = {} /\ todo' = asked
      /\ UNCHANGED <<statements, asked, found, reachable, answer, common, calm, still>>
  BY DEF Searched
<1>2. phase \in Judged /\ phase' \in {"search", "read"} /\ phase' \in Judged
  BY <1>1 DEF Judged, Searched
<1>3. UpInv /\ reachable = Reachable(asked)
  BY <1>1, <1>2 DEF CalmInv
<1>4. UpInv' /\ reachable' = Reachable(asked)'
  BY <1>1, <1>3, KeepsUp, Same
<1>5. /\ minHeight \in 0..MaxUint /\ searches \in Nat /\ common \subseteq 1..MaxUint
      /\ MaxUint \in Nat \ {0} /\ depthCommonHeightSearch \in Nat \ {0}
  BY EventsAssumption, QueryAssumption DEF RequestOK
<1>6. reachable' \ todo' = {}
  BY <1>1, <1>3 DEF Reachable
<1>7. ASSUME reachable # {}, common # {}
      PROVE  /\ BoundsInv'
             /\ phase' = "search" => SearchInv'
             /\ phase' # "search" => ReadInv'
  <2>1. BoundsInv /\ SearchInv
    BY <1>1, <1>2, <1>7 DEF CalmInv
  <2>2. SearchInv'
    BY <1>6 DEF SearchInv
  <2>3. CASE AllAt(reachable, minHeight) \/ searches >= depthCommonHeightSearch - 1
    <3>1. phase' = "read" /\ UNCHANGED <<minHeight, searches>>
      BY <2>3 DEF Searched
    <3>2. BoundsInv'
      BY <1>1, <2>1, <3>1, Same DEF BoundsInv
    <3>3. ASSUME NEW h \in common, h > minHeight + searches - depthCommonHeightSearch,
                 NEW n \in reachable
          PROVE  Has(n, minHeight)
      <4>1. CASE AllAt(reachable, minHeight)
        BY <1>1, <2>1, <3>3, <4>1 DEF AllAt, SearchInv
      <4>2. CASE searches >= depthCommonHeightSearch - 1
        <5>1. h <= minHeight
          BY <2>1 DEF BoundsInv
        <5>2. h \in 1..MaxUint
          BY <1>5
        <5>3. h = minHeight
          BY <1>5, <3>3, <4>2, <5>1, <5>2
        <5> QED
          BY <1>3, <3>3, <5>3 DEF UpInv
      <4> QED
        BY <2>3, <4>1, <4>2
    <3>4. ReadInv'
      BY <1>1, <1>6, <3>1, <3>3 DEF ReadInv, Has
    <3> QED
      BY <3>1, <3>2, <3>4
  <2>4. CASE ~ (AllAt(reachable, minHeight) \/ searches >= depthCommonHeightSearch - 1)
    <3>1. /\ phase' = "search" /\ searches' = searches + 1
          /\ minHeight' = (minHeight - 1) % (MaxUint + 1)
      BY <1>1, <2>4 DEF Searched
    <3>2. minHeight \notin common
      BY <1>1, <2>1, <2>4 DEF AllAt, SearchInv
    <3>3. \A h \in common : h <= minHeight - 1
      BY <1>5, <2>1, <3>2 DEF BoundsInv
    <3>4. minHeight - 1 \in 0..MaxUint
      <4>1. PICK h \in common : h \in 1..MaxUint
        BY <1>5, <1>7
      <4>2. h <= minHeight - 1
        BY <3>3
      <4> QED
        BY <1>5, <4>1, <4>2
    <3>5. minHeight' = minHeight - 1
      BY <1>5, <3>1, <3>4, Mod
    <3>6. minHeight' + searches' = minHeight + searches
      BY <1>5, <3>1, <3>5
    <3>7. BoundsInv'
      BY <1>1, <2>1, <3>3, <3>5, <3>6, Same DEF BoundsInv
    <3> QED
      BY <2>2, <3>1, <3>7
  <2> QED
    BY <2>3, <2>4
<1> QED
  BY <1>1, <1>2, <1>4, <1>7 DEF CalmInv

LEMMA ReadCalmInv ==
  ASSUME RequestOK, CalmInv, calm', NEW n \in Nodes, Read(n)
  PROVE  CalmInv'
<1>1. /\ calm /\ phase = "read" /\ phase' = "read" /\ n \in todo /\ todo' = todo \ {n}
      /\ UNCHANGED <<statements, asked, reachable, minHeight, searches, common, calm, still>>
      /\ answer' = [m \in DOMAIN answer \cup {n} |-> IF m = n THEN StatementOf(n) ELSE answer[m]]
  BY DEF Read
<1>2. phase \in Judged /\ phase' \in Judged
  BY <1>1 DEF Judged
<1>3. UpInv /\ reachable = Reachable(asked)
  BY <1>1, <1>2 DEF CalmInv
<1>4. UpInv' /\ reachable' = Reachable(asked)'
  BY <1>1, <1>3, KeepsUp, Same
<1>5. Stored /\ minHeight \in 0..MaxUint /\ DOMAIN answer = asked \ todo
  BY <1>1 DEF RequestOK
<1>6. answer'[n] = StatementOf(n) /\ \A m \in asked \ todo : m # n => answer'[m] = answer[m]
  BY <1>1, <1>5
<1>7. ASSUME reachable # {}, common # {}
      PROVE  BoundsInv' /\ ReadInv'
  <2>1. BoundsInv /\ ReadInv
    BY <1>1, <1>2, <1>7 DEF CalmInv
  <2>2. BoundsInv'
    BY <1>1, <2>1, Same DEF BoundsInv
  <2>3. ASSUME n \in reachable, Has(n, minHeight)
        PROVE  answer'[n].status = "OK" /\ answer'[n].height = minHeight
    BY <1>5, <1>6, <2>3, HasFacts DEF StatementOf
  <2>4. \A m \in reachable : m \in asked /\ (m \notin todo' => m = n \/ m \in asked \ todo)
    BY <1>1, <1>3 DEF Reachable
  <2>5. ASSUME NEW h \in common, h > minHeight + searches - depthCommonHeightSearch,
               NEW m \in reachable
        PROVE  /\ Has(m, minHeight)
               /\ m \notin todo' => answer'[m].status = "OK" /\ answer'[m].height = minHeight
    <3>1. /\ Has(m, minHeight)
          /\ m \notin todo => answer[m].status = "OK" /\ answer[m].height = minHeight
      BY <2>1, <2>5 DEF ReadInv
    <3>2. CASE m = n
      BY <2>3, <2>5, <3>1, <3>2
    <3>3. CASE m # n
      BY <1>6, <2>4, <3>1, <3>3
    <3> QED
      BY <3>2, <3>3
  <2>6. ReadInv'
    BY <1>1, <2>5 DEF ReadInv, Has
  <2> QED
    BY <2>2, <2>6
<1> QED
  BY <1>1, <1>4, <1>7 DEF CalmInv

\* The steps that change nothing that the invariant depends on.
LEMMA OtherCalmInv ==
  ASSUME RequestOK, CalmInv, calm', Answer \/ UNCHANGED vars
  PROVE  CalmInv'
<1>1. UNCHANGED <<statements, asked, todo, found, reachable, minHeight, searches, answer,
                  common, calm, still>>
  BY DEF Answer, vars, queryVars
<1>2. phase' = phase \/ (phase = "read" /\ phase' = "answered")
  BY DEF Answer, vars, queryVars
<1>3. calm /\ UpInv
  BY <1>1 DEF CalmInv
<1>4. UpInv'
  BY <1>1, <1>3, KeepsUp
<1>5. /\ Reachable(asked)' = Reachable(asked) /\ \A n : LatestHeight(n)' = LatestHeight(n)
  BY <1>1, Same
<1>6. LatestInv => LatestInv'
  BY <1>1, <1>5 DEF LatestInv, Has
<1>7. (BoundsInv => BoundsInv') /\ (SearchInv => SearchInv') /\ (ReadInv => ReadInv')
  BY <1>1, <1>5 DEF BoundsInv, SearchInv, ReadInv, Has
<1> QED
  BY <1>1, <1>2, <1>3, <1>4, <1>5, <1>6, <1>7 DEF CalmInv, Judged

LEMMA NextCalmInv ==
  ASSUME RequestOK, CalmInv, [QueryNext]_vars
  PROVE  CalmInv'
<1>1. CASE ~ calm'
  BY <1>1 DEF CalmInv
<1>2. CASE calm'
  <2>1. ASSUME NEW n \in Nodes, Forget(n)
        PROVE  FALSE
    BY <1>2, <2>1 DEF Forget
  <2>2. ASSUME Rest
        PROVE  FALSE
    BY <1>2, <2>2 DEF Rest
  <2> QED
    BY <1>2, <2>1, <2>2, PutCalmInv, RequestCalmInv, ReadLatestCalmInv, LatestReadCalmInv,
       SearchCalmInv, SearchedCalmInv, ReadCalmInv, OtherCalmInv DEF QueryNext, Query
<1> QED
  BY <1>1, <1>2

LEMMA Inductive ==
  /\ QueryInit => QInv
  /\ QInv /\ [QueryNext]_vars => QInv'
<1>1. QueryInit => QInv
  BY InitRequestOK, InitStillInv, InitCalmInv DEF QInv
<1>2. QInv /\ [QueryNext]_vars => QInv'
  BY NextRequestOK, NextStillInv, NextCalmInv DEF QInv
<1> QED
  BY <1>1, <1>2

\* Whatever rounds are stored between the reads of a request, if nodes only move
\* up or miss them, all that were reachable are compared at a common height or
\* a higher one (events.go 160-168 and 276-294).
THEOREM RoundsHideNothing == QuerySpec => []RoundHidesNothing
<1>1. ASSUME QInv
      PROVE  RoundHidesNothing
  <2> SUFFICES ASSUME calm, phase = "answered", NEW h \in common,
                      h > ((minHeight + searches) % (MaxUint + 1)) - depthCommonHeightSearch,
                      reachable # {}, NEW n \in reachable
               PROVE  answer[n].status = "OK" /\ answer[n].height >= h
    BY DEF RoundHidesNothing
  <2>1. RequestOK /\ CalmInv
    BY <1>1 DEF QInv
  <2>2. phase \in Judged /\ common # {}
    BY DEF Judged
  <2>3. BoundsInv /\ ReadInv
    BY <2>1, <2>2 DEF CalmInv
  <2>4. /\ minHeight \in 0..MaxUint /\ searches \in Nat /\ todo = {} /\ MaxUint \in Nat
        /\ h \in 1..MaxUint
    BY <2>1, EventsAssumption DEF RequestOK
  <2>5. minHeight + searches \in 0..MaxUint
    BY <2>3, <2>4 DEF BoundsInv
  <2>6. (minHeight + searches) % (MaxUint + 1) = minHeight + searches
    BY <2>4, <2>5, Mod
  <2>7. answer[n].status = "OK" /\ answer[n].height = minHeight
    <3>1. h > minHeight + searches - depthCommonHeightSearch
      BY <2>4, <2>6, QueryAssumption
    <3>2. n \notin todo
      BY <2>4
    <3> QED
      BY <2>3, <3>1, <3>2 DEF ReadInv
  <2>8. h <= minHeight
    BY <2>3 DEF BoundsInv
  <2> QED
    BY <2>4, <2>7, <2>8
<1> QED
  BY <1>1, Inductive, PTL DEF QuerySpec, vars

\* While nothing is stored, the nodes are compared at the greatest height they
\* have in common if the search comes to it, and are said to be fine exactly when
\* all of them are reachable and agree there (events.go 259-296, environment.go
\* 1060-1109).
THEOREM StatusIsExact == QuerySpec => []StatusExact
<1>1. ASSUME QInv
      PROVE  StatusExact
  <2> SUFFICES ASSUME still, calm, phase = "answered", NEW h \in common,
                      \A g \in common : g <= h,
                      NEW l \in Reachable(asked), h > LatestHeight(l) - depthCommonHeightSearch
               PROVE  /\ \A n \in Reachable(asked) : answer[n].height = h
                      /\ AllNodesAreOk <=>
                           \E x \in Hashes : \A n \in asked :
                             GetFullStatementAtHeight(n, h) = Complete(h, x)
    BY DEF StatusExact
  <2>1. RequestOK /\ StillInv /\ CalmInv /\ phase \in Judged
    BY <1>1 DEF QInv, Judged
  <2>2. /\ reachable = Reachable(asked) /\ common = CommonHeights(asked)
        /\ \A n \in asked \ todo : answer[n] = StatementOf(n)
    BY <2>1 DEF StillInv
  <2>3. BoundsInv /\ ReadInv
    BY <2>1, <2>2 DEF CalmInv
  <2>4. /\ Stored /\ todo = {} /\ DOMAIN answer = asked /\ asked \subseteq Nodes
        /\ minHeight \in 0..MaxUint /\ searches \in Nat /\ MaxUint \in Nat \ {0}
        /\ h \in 1..MaxUint /\ h \in Heights /\ depthCommonHeightSearch \in Nat \ {0}
    BY <2>1, EventsAssumption, QueryAssumption DEF RequestOK
  \* The search began at the lowest of the latest heights, so it came to h.
  <2>5. h > minHeight + searches - depthCommonHeightSearch
    <3>1. minHeight + searches <= LatestHeight(l)
      BY <2>2, <2>3 DEF BoundsInv
    <3>2. LatestHeight(l) \in 1..MaxUint
      BY <2>1, ReachableNodes
    <3> QED
      BY <2>4, <3>1, <3>2
  <2>6. \A n \in reachable : Has(n, minHeight)
    BY <2>3, <2>5 DEF ReadInv
  <2>7. \A n \in reachable : n \in asked /\ n \in Nodes
    BY <2>2, <2>4 DEF Reachable
  <2>8. minHeight = h
    <3>1. minHeight \in Heights
      BY <2>2, <2>4, <2>6, <2>7, HasFacts
    <3>2. \A n, i : CurrentAt(statements[n], i, Len(statements[n])) <=> Current(n, i)
      BY DEF Current, CurrentAt
    <3>3. \A n \in Reachable(asked) : \E i \in 1..Len(statements[n]) :
             Current(n, i) /\ statements[n][i].height = minHeight
      BY <2>2, <2>6, <3>2 DEF Has, HasIn
    <3>4. minHeight \in common
      BY <2>2, <3>1, <3>3 DEF CommonHeights
    <3>5. h <= minHeight /\ minHeight <= h
      BY <2>3, <3>4 DEF BoundsInv
    <3> QED
      BY <2>4, <3>5
  <2>9. \A n \in Reachable(asked) : answer[n].height = h
    BY <2>2, <2>3, <2>4, <2>5, <2>8 DEF ReadInv
  \* What every node is said to have, and what it has.
  <2>10. \A n \in asked : answer[n] = IF n \in Reachable(asked)
                                      THEN GetFullStatementAtHeight(n, h) ELSE Unreachable
    BY <2>2, <2>4, <2>8 DEF StatementOf
  <2>11. \A n \in asked : /\ FoundStatementAtHeight(n, h) <=> Has(n, h)
                          /\ Has(n, h) => n \in Reachable(asked)
    <3>1. ASSUME NEW n \in asked
          PROVE  /\ FoundStatementAtHeight(n, h) <=> Has(n, h)
                 /\ Has(n, h) => n \in Reachable(asked)
      <4>1. n \in Nodes /\ h \in 0..MaxUint /\ LatestHeight(n) \in 0..MaxUint
        BY <2>4, LatestRange
      <4>2. FoundStatementAtHeight(n, h) <=> Has(n, h)
        BY <2>4, <4>1, HasFacts
      <4>3. Has(n, h) => h <= LatestHeight(n)
        BY <2>4, <4>1, HasFacts
      <4>4. Has(n, h) => LatestHeight(n) # 0
        BY <2>4, <4>1, <4>3
      <4> QED
        BY <4>2, <4>4 DEF Reachable
    <3> QED
      BY <3>1
  <2>12. \A n \in Reachable(asked) :
           /\ GetFullStatementAtHeight(n, h).status = "OK"
           /\ GetFullStatementAtHeight(n, h).hash \in Hashes
           /\ GetFullStatementAtHeight(n, h) = Complete(h, GetFullStatementAtHeight(n, h).hash)
    BY <2>2, <2>4, <2>6, <2>7, <2>8, HasFacts
  <2>13. Unreachable.status # "OK"
    BY DEF Unreachable
  <2>14. ASSUME AllNodesAreOk
         PROVE  \E x \in Hashes : \A n \in asked :
                  GetFullStatementAtHeight(n, h) = Complete(h, x)
    <3>1. /\ \A n \in asked : answer[n].status = "OK"
          /\ \A m, n \in asked : answer[m].hash = answer[n].hash
      BY <2>4, <2>14 DEF AllNodesAreOk, unavailableNodes, okNodes, areStateHashesEqual
    <3>2. \A n \in asked : n \in Reachable(asked) /\ answer[n] = GetFullStatementAtHeight(n, h)
      BY <2>10, <2>13, <3>1
    <3>3. l \in asked
      BY <2>2, <2>7
    <3>4. \A n \in asked : GetFullStatementAtHeight(n, h) = Complete(h, answer[l].hash)
      BY <2>12, <3>1, <3>2, <3>3
    <3> QED
      BY <2>12, <3>2, <3>3, <3>4
  <2>15. ASSUME NEW x \in Hashes,
                \A n \in asked : GetFullStatementAtHeight(n, h) = Complete(h, x)
         PROVE  AllNodesAreOk
    <3>1. Complete(h, x).status = "OK" /\ Complete(h, x).hash = x /\ Complete(h, x) # Unreachable
      BY DEF Complete, Unreachable
    <3>2. \A n \in asked : n \in Reachable(asked)
      BY <2>11, <2>15, <3>1 DEF FoundStatementAtHeight
    <3>3. \A n \in asked : answer[n] = Complete(h, x)
      BY <2>10, <2>15, <3>2
    <3>4. l \in asked
      BY <2>2, <2>7
    <3>5. okNodes = asked
      BY <2>4, <3>1, <3>3 DEF okNodes
    <3> QED
      BY <2>4, <3>1, <3>3, <3>4, <3>5 DEF AllNodesAreOk, unavailableNodes, areStateHashesEqual
  <2> QED
    BY <2>9, <2>14, <2>15
<1> QED
  BY <1>1, Inductive, PTL DEF QuerySpec, vars

-----------------------------------------------------------------------------
(***************************************************************************)
(* Streaks                                                                 *)
(***************************************************************************)
\* The walk of StreakOf, from the newest of the statements s to older ones.
Walk(f, s, bad, n) ==
    f = [d \in 0..n |->
            IF d = 0 THEN 0
            ELSE IF f[d - 1] >= Streak \/ d > Depth THEN f[d - 1]
            ELSE IF s[Len(s) + 1 - d].status \in bad THEN f[d - 1] + 1 ELSE 0]

StreakIn(s, bad) == (CHOOSE f : Walk(f, s, bad, Len(s)))[Len(s)]

LEMMA WalkExists ==
  ASSUME NEW s, Len(s) \in Nat, NEW bad
  PROVE  \E f : Walk(f, s, bad, Len(s))
<1> DEFINE n       == Len(s)
           at(d, w) == IF w >= Streak \/ d > Depth THEN w
                       ELSE IF s[Len(s) + 1 - d].status \in bad THEN w + 1 ELSE 0
           step    == [p \in (1..n) \X Nat |-> at(p[1], p[2])]
<1>1. \A d \in 1..n, w \in Nat : at(d, w) \in Nat
  OBVIOUS
<1> HIDE DEF at
<1>2. step \in [(1..n) \X Nat -> Nat]
  BY <1>1
<1>3. PICK f \in [0..n -> Nat] : Recursive(f, 0, step, n)
  <2> HIDE DEF step
  <2> QED
    BY <1>2, Recursion
<1>4. \A d \in 1..n : f[d - 1] \in Nat /\ <<d, f[d - 1]>> \in (1..n) \X Nat
  OBVIOUS
<1>5. \A d \in 1..n : step[<<d, f[d - 1]>>] = at(d, f[d - 1])
  BY <1>4
<1>6. \A d \in 0..n : f[d] = IF d = 0 THEN 0 ELSE at(d, f[d - 1])
  <2> HIDE DEF step, n
  <2>1. \A d \in 0..n : f[d] = IF d = 0 THEN 0 ELSE step[<<d, f[d - 1]>>]
    BY <1>3 DEF Recursive
  <2>2. \A d \in 0..n : d # 0 => d \in 1..n
    BY DEF n
  <2> QED
    BY <1>5, <2>1, <2>2
<1>7. Walk(f, s, bad, n)
  <2> HIDE DEF n
  <2>1. f = [d \in 0..n |-> f[d]]
    OBVIOUS
  <2> QED
    BY <1>6, <2>1 DEF Walk, at
<1> QED
  BY <1>7

\* The streak is complete exactly when Streak statements in a row are bad, the
\* oldest of them at most Depth back.
LEMMA StreakIs ==
  ASSUME NEW s, Len(s) \in Nat, NEW bad
  PROVE  StreakIn(s, bad) >= Streak <=>
           \E i \in 1..Len(s) : /\ i > Len(s) - Depth
                                /\ i + Streak - 1 <= Len(s)
                                /\ \A j \in i..i + Streak - 1 : s[j].status \in bad
<1> DEFINE n         == Len(s)
           f         == CHOOSE g : Walk(g, s, bad, n)
           isBad(p)  == s[n + 1 - p].status \in bad
           window(e) == \A p \in e - Streak + 1..e : isBad(p)
           bound(d)  == f[d] \in 0..Streak /\ f[d] <= d
           some(d)   == f[d] = Streak => \E e \in Streak..d : e <= Depth /\ window(e)
           none(d)   == f[d] < Streak => \A e \in Streak..d : e <= Depth => ~ window(e)
           last(d)   == d <= Depth /\ f[d] < Streak =>
                          /\ \A p \in d - f[d] + 1..d : isBad(p)
                          /\ f[d] < d => ~ isBad(d - f[d])
           S         == {d \in 0..n : bound(d) /\ some(d) /\ none(d) /\ last(d)}
<1>1. Walk(f, s, bad, n)
  BY WalkExists
<1>2. StreakIn(s, bad) = f[n]
  BY DEF StreakIn
<1>3. n \in Nat /\ Streak \in Nat \ {0} /\ Depth \in Nat \ {0}
  BY CriteriaAssumption
<1> HIDE DEF f, n, isBad
<1>4. 0 \in S
  <2>1. f[0] = 0
    BY <1>1, <1>3 DEF Walk
  <2> QED
    BY <1>3, <2>1
<1>5. ASSUME NEW d \in 1..n, d - 1 \in S
      PROVE  d \in S
  <2>1. f[d] = IF f[d - 1] >= Streak \/ d > Depth THEN f[d - 1]
               ELSE IF isBad(d) THEN f[d - 1] + 1 ELSE 0
    <3>1. d \in 0..n /\ d # 0
      BY <1>3
    <3>2. f[d] = IF d = 0 THEN 0
                 ELSE IF f[d - 1] >= Streak \/ d > Depth THEN f[d - 1]
                 ELSE IF s[Len(s) + 1 - d].status \in bad THEN f[d - 1] + 1 ELSE 0
      BY <1>1, <3>1 DEF Walk
    <3> QED
      BY <3>1, <3>2 DEF isBad, n
  <2>2. bound(d - 1) /\ some(d - 1) /\ none(d - 1) /\ last(d - 1)
    BY <1>5
  <2>3. d \in Nat /\ d \in 0..n /\ d - 1 \in Nat /\ f[d - 1] \in Nat
    BY <1>3, <2>2
  <2>4. CASE f[d - 1] >= Streak
    <3>1. f[d] = Streak /\ f[d - 1] = Streak
      BY <1>3, <2>1, <2>2, <2>4
    <3> HIDE DEF window
    <3>2. some(d)
      <4>1. PICK e \in Streak..d - 1 : e <= Depth /\ window(e)
        BY <2>2, <3>1
      <4>2. e \in Streak..d
        BY <1>3, <2>3
      <4> QED
        BY <4>1, <4>2
    <3> QED
      BY <1>3, <2>2, <2>3, <3>1, <3>2
  <2>5. CASE f[d - 1] < Streak /\ d > Depth
    <3>1. f[d] = f[d - 1]
      BY <2>1, <2>5
    <3> HIDE DEF window
    <3>2. none(d)
      <4> SUFFICES ASSUME NEW e \in Streak..d, e <= Depth, window(e)
                   PROVE  FALSE
        OBVIOUS
      <4>1. e \in Streak..d - 1
        BY <1>3, <2>3, <2>5
      <4> QED
        BY <2>2, <2>5, <4>1
    <3> QED
      BY <1>3, <2>2, <2>3, <2>5, <3>1, <3>2
  <2>6. CASE f[d - 1] < Streak /\ d <= Depth /\ isBad(d)
    <3>1. f[d] = f[d - 1] + 1
      BY <1>3, <2>1, <2>3, <2>6
    <3>2. /\ \A p \in d - f[d - 1]..d - 1 : isBad(p)
          /\ f[d - 1] < d - 1 => ~ isBad(d - 1 - f[d - 1])
      BY <1>3, <2>2, <2>3, <2>6
    <3>3. \A p \in d - f[d] + 1..d : isBad(p)
      BY <2>3, <2>6, <3>1, <3>2
    <3>4. f[d] < d => ~ isBad(d - f[d])
      <4>1. d - f[d] = d - 1 - f[d - 1]
        BY <2>3, <3>1
      <4> QED
        BY <2>3, <3>1, <3>2, <4>1
    <3>5. some(d)
      <4> SUFFICES ASSUME f[d] = Streak
                   PROVE  \E e \in Streak..d : e <= Depth /\ window(e)
        OBVIOUS
      <4>1. d \in Streak..d /\ window(d)
        BY <1>3, <2>2, <2>3, <3>1, <3>3
      <4> QED
        BY <2>6, <4>1
    <3>6. none(d)
      <4> SUFFICES ASSUME f[d] < Streak, NEW e \in Streak..d, e <= Depth, window(e)
                   PROVE  FALSE
        OBVIOUS
      <4>1. CASE e = d
        <5>1. f[d] < d /\ d - f[d] \in e - Streak + 1..e
          BY <1>3, <2>3, <3>1, <4>1
        <5> QED
          BY <3>4, <5>1
      <4>2. CASE e # d
        <5>1. e \in Streak..d - 1
          BY <1>3, <2>3, <4>2
        <5> QED
          BY <2>2, <2>6, <5>1
      <4> QED
        BY <4>1, <4>2
    <3>7. bound(d)
      BY <1>3, <2>2, <2>3, <2>6, <3>1
    <3> QED
      BY <2>3, <3>3, <3>4, <3>5, <3>6, <3>7
  <2>7. CASE f[d - 1] < Streak /\ d <= Depth /\ ~ isBad(d)
    <3>1. f[d] = 0
      BY <1>3, <2>1, <2>3, <2>7
    <3>2. none(d)
      <4> SUFFICES ASSUME NEW e \in Streak..d, e <= Depth, window(e)
                   PROVE  FALSE
        OBVIOUS
      <4>1. CASE e = d
        <5>1. d \in e - Streak + 1..e
          BY <1>3, <2>3, <4>1
        <5> QED
          BY <2>7, <5>1
      <4>2. CASE e # d
        <5>1. e \in Streak..d - 1
          BY <1>3, <2>3, <4>2
        <5> QED
          BY <2>2, <2>7, <5>1
      <4> QED
        BY <4>1, <4>2
    <3>3. last(d)
      <4>1. d - f[d] = d /\ \A p \in d - f[d] + 1..d : FALSE
        BY <2>3, <3>1
      <4> QED
        BY <2>7, <4>1
    <3>4. bound(d) /\ some(d)
      BY <1>3, <2>3, <3>1
    <3> QED
      BY <2>3, <3>2, <3>3, <3>4
  <2> QED
    BY <1>3, <2>3, <2>4, <2>5, <2>6, <2>7
<1>6. 0..n \subseteq S
  <2> HIDE DEF S
  <2> QED
    BY <1>3, <1>4, <1>5, Induction
<1>7. bound(n) /\ some(n) /\ none(n)
  <2>1. n \in S
    <3> HIDE DEF S
    <3> QED
      BY <1>3, <1>6
  <2> QED
    BY <2>1
<1>8. f[n] >= Streak <=> \E e \in Streak..n : e <= Depth /\ window(e)
  <2> HIDE DEF window
  <2> QED
    BY <1>3, <1>7
<1>9. ASSUME NEW e \in Streak..n, e <= Depth, window(e)
      PROVE  \E i \in 1..n : /\ i > n - Depth
                             /\ i + Streak - 1 <= n
                             /\ \A j \in i..i + Streak - 1 : s[j].status \in bad
  <2> DEFINE i == n + 1 - e
  <2>1. i \in 1..n /\ i > n - Depth /\ i + Streak - 1 <= n
    BY <1>3, <1>9
  <2>2. ASSUME NEW j \in i..i + Streak - 1
        PROVE  s[j].status \in bad
    <3>1. n + 1 - j \in e - Streak + 1..e /\ n + 1 - (n + 1 - j) = j
      BY <1>3
    <3>2. isBad(n + 1 - j)
      BY <1>9, <3>1
    <3> QED
      BY <3>1, <3>2 DEF isBad
  <2> QED
    BY <2>1, <2>2
<1>10. ASSUME NEW i \in 1..n, i > n - Depth, i + Streak - 1 <= n,
              \A j \in i..i + Streak - 1 : s[j].status \in bad
       PROVE  \E e \in Streak..n : e <= Depth /\ window(e)
  <2> DEFINE e == n + 1 - i
  <2>1. e \in Streak..n /\ e <= Depth
    BY <1>3, <1>10
  <2>2. ASSUME NEW p \in e - Streak + 1..e
        PROVE  isBad(p)
    <3>1. n + 1 - p \in i..i + Streak - 1
      BY <1>3
    <3> QED
      BY <1>10, <3>1 DEF isBad
  <2> QED
    BY <2>1, <2>2
<1> QED
  BY <1>2, <1>8, <1>9, <1>10 DEF n

\* A node is reported exactly when it is in the state now and was in it, or in a
\* worse one, often enough in a row, whatever rounds were stored and have expired
\* (unreachable.go 55-87, incomplete.go 54-84).
THEOREM StreaksAreExact == QuerySpec => []StreakExact
<1>1. ASSUME Stored
      PROVE  StreakExact
  <2>1. ASSUME NEW n \in Nodes, NEW bad
        PROVE  StreakOf(n, bad) >= Streak <=> InARow(n, bad)
    <3>1. StreakOf(n, bad) = StreakIn(statements[n], bad)
      BY Zenon DEF StreakOf, StreakIn, Walk
    <3>2. Len(statements[n]) \in Nat
      BY <1>1 DEF Stored
    <3> QED
      BY <3>1, <3>2, StreakIs DEF InARow
  <2>2. \A n \in Group("unreachable") \cup Group("incomplete") : n \in Nodes
    BY DEF Group
  <2>3. Group("unreachable") \cap Group("incomplete") = {}
    BY DEF Group
  <2>4. UnreachableNodes \cap IncompleteNodes = {}
    BY <2>3 DEF UnreachableNodes, IncompleteNodes
  <2>5. \A n \in Nodes :
          n \in UnreachableNodes <=> n \in Group("unreachable") /\ InARow(n, {"unreachable"})
    BY <2>1 DEF UnreachableNodes
  <2>6. \A n \in Nodes :
          n \in IncompleteNodes <=> n \in Group("incomplete") /\ InARow(n, ConsideredIncomplete)
    BY <2>1 DEF IncompleteNodes
  <2> QED
    BY <2>4, <2>5, <2>6 DEF StreakExact
<1>2. RequestOK => StreakExact
  BY <1>1 DEF RequestOK
<1>3. RequestOK /\ [QueryNext]_vars => RequestOK'
  BY NextRequestOK
<1> QED
  BY <1>2, <1>3, InitRequestOK, PTL DEF QuerySpec, vars

-----------------------------------------------------------------------------
(***************************************************************************)
(* Comparisons of one round                                                *)
(***************************************************************************)
RoundOK == round \in {<<>>} \cup Rounds

\* The greatest and the least value of a round.
LEMMA Largest ==
  ASSUME NEW S \in SUBSET (0..MaxUint), S # {}
  PROVE  Max(S) \in S /\ \A v \in S : v <= Max(S)
<1>1. \E m \in S : \A v \in S : m >= v
  BY Greatest, EventsAssumption
<1>2. Max(S) \in S /\ \A v \in S : Max(S) >= v
  BY <1>1 DEF Max
<1>3. \A v, w \in 0..MaxUint : v >= w => w <= v
  OBVIOUS
<1> QED
  BY <1>2, <1>3

\* A node is named by the alert of its group, if there is one.
LEMMA HeightsExact ==
  ASSUME NEW f \in Rounds, NEW n \in DOMAIN f
  PROVE  Cardinality({alert \in HeightAlerts(f) : n \in alert.other}) =
             IF \E m \in DOMAIN f : f[m] > f[n] + MaxHeightDiff THEN 1 ELSE 0
<1> DEFINE top      == TopHeight(f)
           named(h) == [max |-> SplitBy(f)[top], other |-> SplitBy(f)[h]]
           A        == {alert \in HeightAlerts(f) : n \in alert.other}
<1>1. /\ DOMAIN f = 1..RoundSize /\ \A m \in DOMAIN f : f[m] \in 0..MaxUint
      /\ MaxHeightDiff \in Nat /\ MaxUint \in Nat
  BY CriteriaAssumption, EventsAssumption DEF Rounds
<1>2. /\ Range(f) \in SUBSET (0..MaxUint) /\ f[n] \in Range(f)
      /\ \A h : h \in Range(f) <=> \E m \in DOMAIN f : f[m] = h
  BY <1>1 DEF Range
<1>3. top \in Range(f) /\ \A h \in Range(f) : h <= top
  BY <1>2, Largest DEF TopHeight
<1>4. \A h \in Range(f) : n \in SplitBy(f)[h] <=> f[n] = h
  BY DEF SplitBy
<1>5. \A h : named(h).other = SplitBy(f)[h]
  OBVIOUS
<1>6. HeightAlerts(f) = {named(h) : h \in {g \in Range(f) : top - g > MaxHeightDiff}}
  BY DEF HeightAlerts
<1> HIDE DEF named, top
<1>7. A = IF top - f[n] > MaxHeightDiff THEN {named(f[n])} ELSE {}
  BY <1>2, <1>4, <1>5, <1>6
<1>8. top - f[n] > MaxHeightDiff <=> \E m \in DOMAIN f : f[m] > f[n] + MaxHeightDiff
  <2>1. PICK m \in DOMAIN f : f[m] = top
    BY <1>2, <1>3
  <2>2. \A k \in DOMAIN f : f[k] <= top
    BY <1>2, <1>3
  <2>3. \A k \in DOMAIN f : f[k] \in Nat
    BY <1>1
  <2> QED
    BY <1>1, <2>1, <2>2, <2>3
<1> QED
  BY <1>7, <1>8, FS_EmptySet, FS_Singleton

\* How often a value is among the first i.
CountOf(f, i, v) == Cardinality({j \in 1..i : f[j] = v})

LEMMA Counts ==
  ASSUME NEW f, NEW v
  PROVE  /\ CountOf(f, 0, v) = 0
         /\ \A i \in Nat : CountOf(f, i, v) \in Nat
         /\ \A i \in Nat \ {0} :
              CountOf(f, i, v) = CountOf(f, i - 1, v) + (IF f[i] = v THEN 1 ELSE 0)
<1> DEFINE C(i) == {j \in 1..i : f[j] = v}
<1>1. \A i \in Nat : IsFiniteSet(C(i)) /\ Cardinality(C(i)) \in Nat
  <2> SUFFICES ASSUME NEW i \in Nat PROVE IsFiniteSet(C(i)) /\ Cardinality(C(i)) \in Nat
    OBVIOUS
  <2>1. IsFiniteSet(1..i)
    BY FS_Interval
  <2>2. C(i) \in SUBSET (1..i)
    OBVIOUS
  <2> HIDE DEF C
  <2> QED
    BY <2>1, <2>2, FS_Subset, FS_CardinalityType
<1>2. Cardinality(C(0)) = 0
  <2>1. C(0) = {}
    OBVIOUS
  <2> QED
    BY <2>1, FS_EmptySet
<1>3. ASSUME NEW i \in Nat \ {0}
      PROVE  Cardinality(C(i)) = Cardinality(C(i - 1)) + (IF f[i] = v THEN 1 ELSE 0)
  <2>1. i - 1 \in Nat /\ IsFiniteSet(C(i - 1)) /\ Cardinality(C(i - 1)) \in Nat
    BY <1>1
  <2>2. CASE f[i] = v
    <3>1. C(i) = C(i - 1) \cup {i} /\ i \notin C(i - 1)
      BY <2>2
    <3> HIDE DEF C
    <3> QED
      BY <2>1, <2>2, <3>1, FS_AddElement
  <2>3. CASE f[i] # v
    <3>1. C(i) = C(i - 1)
      BY <2>3
    <3> HIDE DEF C
    <3> QED
      BY <2>1, <2>3, <3>1
  <2> QED
    BY <2>2, <2>3
<1> QED
  BY <1>1, <1>2, <1>3 DEF CountOf

\* The walk of mostFrequentBaseTarget over the first n of the values f.
Election(w, f, n) ==
    w = [i \in 0..n |->
            IF i = 0 THEN [key |-> 0, count |-> 0]
            ELSE IF f[i] # 0 /\ CountOf(f, i, f[i]) > w[i - 1].count
            THEN [key |-> f[i], count |-> CountOf(f, i, f[i])]
            ELSE w[i - 1]]

ElectedOf(f) == (CHOOSE w : Election(w, f, Len(f)))[Len(f)].key

LEMMA ElectionExists ==
  ASSUME NEW f, NEW n \in Nat, \A i \in 1..n : f[i] \in 0..MaxUint
  PROVE  \E w : Election(w, f, n)
<1> DEFINE V        == [key : 0..MaxUint, count : Nat]
           at(i, e) == IF f[i] # 0 /\ CountOf(f, i, f[i]) > e.count
                       THEN [key |-> f[i], count |-> CountOf(f, i, f[i])] ELSE e
           step     == [p \in (1..n) \X V |-> at(p[1], p[2])]
<1>1. \A i \in 1..n, e \in V : at(i, e) \in V
  <2> SUFFICES ASSUME NEW i \in 1..n, NEW e \in V PROVE at(i, e) \in V
    OBVIOUS
  <2>1. i \in Nat /\ f[i] \in 0..MaxUint
    OBVIOUS
  <2>2. CountOf(f, i, f[i]) \in Nat
    BY <2>1, Counts
  <2> QED
    BY <2>1, <2>2
<1>2. [key |-> 0, count |-> 0] \in V
  BY EventsAssumption
<1> HIDE DEF at, V
<1>3. step \in [(1..n) \X V -> V]
  BY <1>1
<1>4. PICK w \in [0..n -> V] : Recursive(w, [key |-> 0, count |-> 0], step, n)
  <2> HIDE DEF step
  <2> QED
    BY <1>2, <1>3, Recursion
<1>5. \A i \in 1..n : w[i - 1] \in V /\ <<i, w[i - 1]>> \in (1..n) \X V
  OBVIOUS
<1>6. \A i \in 1..n : step[<<i, w[i - 1]>>] = at(i, w[i - 1])
  BY <1>5
<1>7. \A i \in 0..n : w[i] = IF i = 0 THEN [key |-> 0, count |-> 0] ELSE at(i, w[i - 1])
  <2> HIDE DEF step
  <2>1. \A i \in 0..n : w[i] = IF i = 0 THEN [key |-> 0, count |-> 0]
                               ELSE step[<<i, w[i - 1]>>]
    BY <1>4 DEF Recursive
  <2>2. \A i \in 0..n : i # 0 => i \in 1..n
    OBVIOUS
  <2> QED
    BY <1>6, <2>1, <2>2
<1>8. Election(w, f, n)
  <2>1. w = [i \in 0..n |-> w[i]]
    OBVIOUS
  <2> QED
    BY <1>7, <2>1 DEF Election, at
<1> QED
  BY <1>8

\* The value elected is one of the most frequent, or 0 if all are.
LEMMA ElectedIs ==
  ASSUME NEW f, Len(f) \in Nat, \A i \in 1..Len(f) : f[i] \in 0..MaxUint
  PROVE  \/ ElectedOf(f) = 0 /\ \A i \in 1..Len(f) : f[i] = 0
         \/ /\ ElectedOf(f) # 0 /\ \E i \in 1..Len(f) : f[i] = ElectedOf(f)
            /\ \A v \in 1..MaxUint : CountOf(f, Len(f), v) <= CountOf(f, Len(f), ElectedOf(f))
<1> DEFINE n       == Len(f)
           w       == CHOOSE e : Election(e, f, n)
           none(i) == w[i].key = 0 /\ w[i].count = 0 /\ \A j \in 1..i : f[j] = 0
           some(i) == /\ w[i].key # 0 /\ \E j \in 1..i : f[j] = w[i].key
                      /\ w[i].count = CountOf(f, i, w[i].key)
                      /\ w[i].count \in Nat
           most(i) == \A v \in 1..MaxUint : CountOf(f, i, v) <= w[i].count
           S       == {i \in 0..n : (none(i) \/ some(i)) /\ most(i)}
<1>1. Election(w, f, n)
  BY ElectionExists
<1>2. ElectedOf(f) = w[n].key
  BY DEF ElectedOf
<1>3. n \in Nat
  OBVIOUS
<1> HIDE DEF w, n
<1>4. 0 \in S
  <2>1. w[0] = [key |-> 0, count |-> 0]
    BY <1>1, <1>3 DEF Election
  <2> QED
    BY <1>3, <2>1, Counts
<1>5. ASSUME NEW i \in 1..n, i - 1 \in S
      PROVE  i \in S
  <2>1. /\ w[i] = IF f[i] # 0 /\ CountOf(f, i, f[i]) > w[i - 1].count
                  THEN [key |-> f[i], count |-> CountOf(f, i, f[i])] ELSE w[i - 1]
        /\ i \in Nat \ {0} /\ i - 1 \in Nat
    BY <1>1, <1>3 DEF Election
  <2>2. (none(i - 1) \/ some(i - 1)) /\ most(i - 1) /\ w[i - 1].count \in Nat
    BY <1>5
  <2>3. f[i] \in 0..MaxUint
    BY DEF n
  <2>4. \A v : /\ CountOf(f, i, v) \in Nat /\ CountOf(f, i - 1, v) \in Nat
               /\ CountOf(f, i, v) = CountOf(f, i - 1, v) + (IF f[i] = v THEN 1 ELSE 0)
    BY <2>1, Counts
  <2>5. CASE f[i] # 0 /\ CountOf(f, i, f[i]) > w[i - 1].count
    <3>1. w[i].key = f[i] /\ w[i].count = CountOf(f, i, f[i])
      BY <2>1, <2>5
    <3>2. some(i)
      BY <2>1, <2>4, <2>5, <3>1
    <3>3. most(i)
      <4> SUFFICES ASSUME NEW v \in 1..MaxUint PROVE CountOf(f, i, v) <= w[i].count
        OBVIOUS
      <4>1. CASE v = f[i]
        BY <2>4, <3>1, <4>1
      <4>2. CASE v # f[i]
        BY <2>2, <2>4, <2>5, <3>1, <4>2
      <4> QED
        BY <4>1, <4>2
    <3> QED
      BY <3>2, <3>3
  <2>6. CASE ~ (f[i] # 0 /\ CountOf(f, i, f[i]) > w[i - 1].count)
    <3>1. w[i] = w[i - 1]
      BY <2>1, <2>6
    <3>2. f[i] # 0 => CountOf(f, i, f[i]) <= w[i - 1].count
      BY <2>2, <2>4, <2>6
    <3>3. most(i)
      <4> SUFFICES ASSUME NEW v \in 1..MaxUint PROVE CountOf(f, i, v) <= w[i].count
        OBVIOUS
      <4>1. CASE v = f[i]
        BY <3>1, <3>2, <4>1
      <4>2. CASE v # f[i]
        BY <2>2, <2>4, <3>1, <4>2
      <4> QED
        BY <4>1, <4>2
    <3>4. CASE none(i - 1)
      <4>1. f[i] = 0
        <5>1. CASE f[i] # 0
          <6>1. CountOf(f, i, f[i]) = CountOf(f, i - 1, f[i]) + 1
            BY <2>4
          <6> QED
            BY <2>4, <3>2, <3>4, <5>1, <6>1
        <5> QED
          BY <5>1
      <4>2. \A j \in 1..i : j \in 1..i - 1 \/ j = i
        BY <2>1
      <4> QED
        BY <3>1, <3>3, <3>4, <4>1, <4>2
    <3>5. CASE some(i - 1)
      <4> DEFINE k == w[i - 1].key
      <4>1. f[i] # k
        <5>1. CASE f[i] = k
          <6>1. CountOf(f, i, k) = CountOf(f, i - 1, k) + 1
            BY <2>4, <5>1
          <6>2. CountOf(f, i, k) <= CountOf(f, i - 1, k)
            BY <3>2, <3>5, <5>1
          <6> QED
            BY <2>4, <6>1, <6>2
        <5> QED
          BY <5>1
      <4>2. CountOf(f, i, k) = CountOf(f, i - 1, k)
        BY <2>4, <4>1
      <4>3. \E j \in 1..i : f[j] = k
        BY <2>1, <3>5
      <4> QED
        BY <3>1, <3>3, <3>5, <4>2, <4>3
    <3> QED
      BY <2>2, <3>4, <3>5
  <2> QED
    BY <2>5, <2>6
<1>6. 0..n \subseteq S
  <2> HIDE DEF S
  <2> QED
    BY <1>3, <1>4, <1>5, Induction
<1>7. (none(n) \/ some(n)) /\ most(n)
  <2>1. n \in S
    <3> HIDE DEF S
    <3> QED
      BY <1>3, <1>6
  <2> QED
    BY <2>1
<1> QED
  BY <1>2, <1>7 DEF n

\* The base target that is compared with the threshold.
LEMMA BaseTargetExact ==
  ASSUME NEW f \in Rounds
  PROVE  /\ BaseTargetAlerted(f) => \E v \in MostFrequent(f) : v > Threshold
         /\ MostFrequent(f) # {} /\ (\A v \in MostFrequent(f) : v > Threshold)
              => BaseTargetAlerted(f)
<1> DEFINE k == ElectedOf(f)
<1>1. MostFrequentBaseTarget(f) = k
  BY Zenon DEF MostFrequentBaseTarget, ElectedOf, Election, CountOf
<1> HIDE DEF k
<1>2. /\ DOMAIN f = 1..RoundSize /\ \A i \in 1..RoundSize : f[i] \in 0..MaxUint
      /\ RoundSize \in Nat /\ Threshold \in Nat
  BY CriteriaAssumption DEF Rounds
<1>3. Len(f) = RoundSize
  <2>1. f \in Seq(0..MaxUint)
    BY <1>2, SeqDef DEF Rounds
  <2> QED
    BY <1>2, <2>1
<1>4. \A v : Frequency(f, v) = CountOf(f, RoundSize, v)
  BY <1>2 DEF Frequency, CountOf
<1>5. \A v : v \in Range(f) <=> \E i \in 1..RoundSize : f[i] = v
  BY <1>2 DEF Range
<1>6. \A v : CountOf(f, RoundSize, v) \in Nat
  BY <1>2, Counts
<1>7. MostFrequent(f) = {v \in Range(f) \ {0} : \A w \in Range(f) \ {0} :
                            CountOf(f, RoundSize, v) >= CountOf(f, RoundSize, w)}
  BY <1>4 DEF MostFrequent
<1>8. CASE k = 0
  <2>1. \A i \in 1..RoundSize : f[i] = 0
    BY <1>2, <1>3, <1>8, ElectedIs DEF k
  <2>2. MostFrequent(f) = {}
    BY <1>5, <1>7, <2>1
  <2>3. ~ BaseTargetAlerted(f)
    BY <1>1, <1>2, <1>8 DEF BaseTargetAlerted
  <2> QED
    BY <2>2, <2>3
<1>9. CASE k # 0
  <2>1. /\ \E i \in 1..RoundSize : f[i] = k
        /\ \A v \in 1..MaxUint : CountOf(f, RoundSize, v) <= CountOf(f, RoundSize, k)
    BY <1>2, <1>3, <1>9, ElectedIs DEF k
  <2>2. \A v \in Range(f) \ {0} : v \in 1..MaxUint
    BY <1>2, <1>5, EventsAssumption
  <2>3. \A v \in Range(f) \ {0} : CountOf(f, RoundSize, k) >= CountOf(f, RoundSize, v)
    BY <1>6, <2>1, <2>2
  <2>4. k \in MostFrequent(f)
    BY <1>5, <1>7, <1>9, <2>1, <2>3
  <2> QED
    BY <1>1, <2>4 DEF BaseTargetAlerted
<1> QED
  BY <1>8, <1>9

\* With no node to compare nothing is reported.
LEMMA NothingToCompare ==
  /\ \A n \in DOMAIN << >> : FALSE
  /\ MostFrequent(<< >>) = {} /\ ~ BaseTargetAlerted(<< >>)
<1> DEFINE f == << >>
<1>1. DOMAIN f = {} /\ Len(f) = 0
  OBVIOUS
<1>2. Range(f) = {}
  BY <1>1 DEF Range
<1>3. MostFrequentBaseTarget(f) = ElectedOf(f)
  BY Zenon DEF MostFrequentBaseTarget, ElectedOf, Election, CountOf
<1>4. ElectedOf(f) = 0
  BY <1>1, ElectedIs
<1> QED
  BY <1>1, <1>2, <1>3, <1>4, CriteriaAssumption DEF MostFrequent, BaseTargetAlerted

LEMMA RoundStep == RoundOK /\ [CompareNext]_round => RoundOK'
  BY DEF RoundOK, CompareNext, Compare, Compared

\* In every round every node too far behind the highest is named by exactly one
\* height alert and no other node is, and the base target that is compared with
\* the threshold is one of the most frequent (height.go 32-64, base_target.go
\* 24-59).
THEOREM ComparisonsCorrect == CompareSpec => []ComparisonsExact
<1>1. CriteriaInit => RoundOK
  BY DEF CriteriaInit, RoundOK
<1>2. ASSUME RoundOK
      PROVE  ComparisonsExact
  <2>1. CASE round = << >>
    BY <2>1, NothingToCompare DEF ComparisonsExact
  <2>2. CASE round \in Rounds
    BY <2>2, HeightsExact, BaseTargetExact DEF ComparisonsExact
  <2> QED
    BY <1>2, <2>1, <2>2 DEF RoundOK
<1> QED
  BY <1>1, <1>2, RoundStep, PTL DEF CompareSpec

-----------------------------------------------------------------------------
(***************************************************************************)
(* Identifiers of the alerts of one round                                  *)
(***************************************************************************)
\* s is the set T in order.
InOrder(s, T) ==
    /\ s \in [1..Cardinality(T) -> T]
    /\ \A i, j \in DOMAIN s : i < j => s[i] < s[j]

LEMMA FiniteGroups ==
  ASSUME NEW n \in Nat, NEW T \in SUBSET (0..n)
  PROVE  IsFiniteSet(T) /\ Cardinality(T) \in Nat
<1>1. IsFiniteSet(0..n)
  BY FS_Interval
<1> QED
  BY <1>1, FS_Subset, FS_CardinalityType

\* Every set of numbers can be put in order.
LEMMA OrderExists ==
  ASSUME NEW n \in Nat, NEW T \in SUBSET (0..n)
  PROVE  \E s : InOrder(s, T)
<1> DEFINE S == {k \in Nat : \A U \in SUBSET (0..n) : Cardinality(U) = k => \E s : InOrder(s, U)}
<1>1. 0 \in S
  <2> SUFFICES ASSUME NEW U \in SUBSET (0..n), Cardinality(U) = 0 PROVE \E s : InOrder(s, U)
    OBVIOUS
  <2>1. [i \in 1..0 |-> 0] \in [1..0 -> U] /\ \A i \in 1..0 : FALSE
    OBVIOUS
  <2>2. InOrder([i \in 1..0 |-> 0], U)
    BY <2>1 DEF InOrder
  <2> QED
    BY <2>2
<1>2. ASSUME NEW k \in Nat \ {0}, k - 1 \in S
      PROVE  k \in S
  <2> SUFFICES ASSUME NEW U \in SUBSET (0..n), Cardinality(U) = k PROVE \E s : InOrder(s, U)
    OBVIOUS
  <2>1. IsFiniteSet(U) /\ U # {}
    BY FiniteGroups, FS_EmptySet
  <2>2. PICK x \in U : \A y \in U : x >= y
    BY <2>1, Greatest
  <2>3. U \ {x} \in SUBSET (0..n) /\ Cardinality(U \ {x}) = k - 1
    BY <2>1, FS_RemoveElement
  <2>4. PICK s : InOrder(s, U \ {x})
    BY <1>2, <2>3
  <2>5. /\ s \in [1..k - 1 -> U \ {x}]
        /\ \A i, j \in 1..k - 1 : i < j => s[i] < s[j]
    BY <2>3, <2>4 DEF InOrder
  <2>6. \A i \in 1..k - 1 : s[i] \in U /\ s[i] \in Nat /\ x \in Nat /\ s[i] < x
    <3> SUFFICES ASSUME NEW i \in 1..k - 1
                 PROVE  s[i] \in U /\ s[i] \in Nat /\ x \in Nat /\ s[i] < x
      OBVIOUS
    <3>1. s[i] \in U \ {x}
      BY <2>5
    <3>2. s[i] \in 0..n /\ x \in 0..n /\ s[i] # x /\ x >= s[i]
      BY <2>2, <3>1
    <3> QED
      BY <3>1, <3>2
  <2> DEFINE t == [i \in 1..k |-> IF i < k THEN s[i] ELSE x]
  <2>7. t \in [1..k -> U]
    BY <2>6
  <2>8. \A i, j \in 1..k : i < j => t[i] < t[j]
    <3> SUFFICES ASSUME NEW i \in 1..k, NEW j \in 1..k, i < j PROVE t[i] < t[j]
      OBVIOUS
    <3>1. i \in 1..k - 1 /\ t[i] = s[i]
      OBVIOUS
    <3>2. CASE j = k
      BY <2>6, <3>1, <3>2
    <3>3. CASE j # k
      <4>1. j \in 1..k - 1 /\ t[j] = s[j]
        BY <3>3
      <4> QED
        BY <2>5, <3>1, <4>1
    <3> QED
      BY <3>2, <3>3
  <2>9. InOrder(t, U)
    <3> HIDE DEF t
    <3> QED
      BY <2>7, <2>8 DEF InOrder
  <2> QED
    BY <2>9
<1>3. Cardinality(T) \in Nat
  BY FiniteGroups
<1>4. 0..Cardinality(T) \subseteq S
  <2>1. \A i \in 1..Cardinality(T) : i \in Nat \ {0}
    OBVIOUS
  <2> HIDE DEF S
  <2> QED
    BY <1>1, <1>2, <1>3, <2>1, Induction
<1>5. Cardinality(T) \in S
  <2> HIDE DEF S
  <2> QED
    BY <1>3, <1>4
<1> QED
  BY <1>5

\* A group in order has its elements and no other.
LEMMA SortedIs ==
  ASSUME NEW n \in Nat, NEW T \in SUBSET (0..n)
  PROVE  /\ Sorted(T) \in Seq(T)
         /\ \A x : x \in T <=> \E i \in 1..Len(Sorted(T)) : Sorted(T)[i] = x
<1> DEFINE s == Sorted(T)
           k == Cardinality(T)
<1>1. \E r \in [1..k -> T] : \A i, j \in DOMAIN r : i < j => r[i] < r[j]
  BY OrderExists DEF InOrder
<1>2. s \in [1..k -> T] /\ \A i, j \in DOMAIN s : i < j => s[i] < s[j]
  BY <1>1 DEF Sorted
<1>3. k \in Nat /\ IsFiniteSet(T) /\ \A x \in T : x \in Nat
  <2>1. \A x \in 0..n : x \in Nat
    OBVIOUS
  <2>2. \A x \in T : x \in 0..n
    OBVIOUS
  <2> QED
    BY <2>1, <2>2, FiniteGroups
<1> HIDE DEF s
<1>4. s \in Injection(1..k, T)
  <2>1. ASSUME NEW i \in 1..k, NEW j \in 1..k, s[i] = s[j]
        PROVE  i = j
    <3>1. s[i] \in Nat
      <4>1. s[i] \in T
        BY <1>2
      <4> QED
        BY <1>3, <4>1
    <3>2. \A l, m \in 1..k : l < m => s[l] < s[m]
      BY <1>2
    <3>3. ~ s[i] < s[j] /\ ~ s[j] < s[i]
      BY <2>1, <3>1
    <3>4. ~ i < j /\ ~ j < i
      BY <3>2, <3>3
    <3> QED
      BY <1>3, <3>4
  <2> QED
    BY <1>2, <2>1 DEF Injection, IsInjective
<1>5. s \in Surjection(1..k, T)
  <2>1. IsFiniteSet(1..k) /\ Cardinality(1..k) = k
    BY <1>3, FS_Interval
  <2> QED
    BY <1>3, <1>4, <2>1, FS_Injection
<1>6. s \in Seq(T) /\ Len(s) = k
  <2>1. s \in Seq(T)
    BY <1>2, <1>3, SeqDef
  <2> QED
    BY <1>2, <1>3, <2>1
<1>7. \A x : x \in T <=> \E i \in 1..k : s[i] = x
  BY <1>2, <1>5 DEF Surjection
<1> QED
  BY <1>6, <1>7 DEF s

LEMMA SortedOnce ==
  ASSUME NEW n \in Nat, NEW T \in SUBSET (0..n), NEW U \in SUBSET (0..n), Sorted(T) = Sorted(U)
  PROVE  T = U
BY SortedIs

LEMMA Cancel ==
  ASSUME NEW S, NEW a \in Seq(S), NEW s \in Seq(S), NEW t \in Seq(S), a \o s = a \o t
  PROVE  s = t
<1>1. Len(s) = Len(t)
  <2>1. Len(a \o s) = Len(a) + Len(s) /\ Len(a \o t) = Len(a) + Len(t)
    OBVIOUS
  <2>2. Len(a) \in Nat /\ Len(s) \in Nat /\ Len(t) \in Nat
    OBVIOUS
  <2> QED
    BY <2>1, <2>2
<1>2. ASSUME NEW i \in 1..Len(s)
      PROVE  s[i] = t[i]
  <2>1. (a \o s)[Len(a) + i] = s[i] /\ (a \o t)[Len(a) + i] = t[i]
    BY <1>1
  <2> QED
    BY <2>1
<1> QED
  BY <1>1, <1>2, SeqEqual

LEMMA Wider ==
  ASSUME NEW S, NEW U \in SUBSET S, NEW s \in Seq(U)
  PROVE  s \in Seq(S)
<1>1. Len(s) \in Nat /\ s \in [1..Len(s) -> S]
  OBVIOUS
<1> QED
  BY <1>1, SeqDef

LEMMA Third ==
  ASSUME NEW S, NEW a \in Seq(S), NEW s \in Seq(S), NEW t \in Seq(S), Len(a) = 2, Len(s) # 0
  PROVE  (a \o s \o t)[3] = s[1]
<1>1. \A q, r \in Seq(S) :
        /\ q \o r \in Seq(S) /\ Len(q \o r) = Len(q) + Len(r)
        /\ \A i \in 1..Len(q) + Len(r) : (q \o r)[i] = IF i <= Len(q) THEN q[i] ELSE r[i - Len(q)]
  BY ConcatProperties
<1>2. Len(s) \in Nat \ {0} /\ Len(t) \in Nat
  OBVIOUS
<1> DEFINE u == a \o s
<1>3. u \in Seq(S) /\ Len(u) = 2 + Len(s)
  <2>1. u \in Seq(S) /\ Len(u) = Len(a) + Len(s)
    BY <1>1
  <2> QED
    BY <2>1
<1>4. u[3] = s[1]
  <2>1. 3 \in 1..Len(a) + Len(s) /\ ~ 3 <= Len(a) /\ 3 - Len(a) = 1
    BY <1>2
  <2>2. u[3] = s[3 - Len(a)]
    BY <1>1, <2>1
  <2> QED
    BY <2>1, <2>2
<1> HIDE DEF u
<1>5. (u \o t)[3] = u[3]
  <2>1. 3 \in 1..Len(u) + Len(t) /\ 3 <= Len(u)
    BY <1>2, <1>3
  <2> QED
    BY <1>1, <1>3, <2>1
<1> QED
  BY <1>4, <1>5 DEF u

\* The groups of nodes with equal values.
LEMMA Groups ==
  ASSUME NEW f \in Rounds
  PROVE  /\ \A v \in Range(f) : SplitBy(f)[v] \in SUBSET (0..RoundSize) /\ SplitBy(f)[v] # {}
         /\ \A v, w \in Range(f) : \A n \in SplitBy(f)[v] : n \in SplitBy(f)[w] => v = w
         /\ RoundSize \in Nat
<1>1. RoundSize \in Nat /\ DOMAIN f = 1..RoundSize
  BY CriteriaAssumption DEF Rounds
<1>2. \A v \in Range(f) : SplitBy(f)[v] = {n \in 1..RoundSize : f[n] = v}
  BY <1>1 DEF SplitBy
<1>3. \A v \in Range(f) : \E n \in 1..RoundSize : f[n] = v
  BY <1>1 DEF Range
<1> QED
  BY <1>1, <1>2, <1>3

LEMMA HeightAlertsDiffer ==
  ASSUME NEW f \in Rounds, NEW p \in HeightAlerts(f), NEW q \in HeightAlerts(f),
         HeightAlertID(p) = HeightAlertID(q)
  PROVE  p = q
<1>1. /\ \E h \in Range(f) : p = [max |-> SplitBy(f)[TopHeight(f)], other |-> SplitBy(f)[h]]
      /\ \E h \in Range(f) : q = [max |-> SplitBy(f)[TopHeight(f)], other |-> SplitBy(f)[h]]
  BY DEF HeightAlerts
<1>2. p.other \in SUBSET (0..RoundSize) /\ q.other \in SUBSET (0..RoundSize) /\ RoundSize \in Nat
  BY <1>1, Groups
<1>3. Sorted(p.other) \in Seq(p.other) /\ Sorted(q.other) \in Seq(q.other)
  BY <1>2, SortedIs
<1> DEFINE S == {"HeightAlert"} \cup p.other \cup q.other
           a == <<"HeightAlert">>
<1>4. Sorted(p.other) \in Seq(S) /\ Sorted(q.other) \in Seq(S)
  BY <1>3
<1>5. a \in Seq(S)
  OBVIOUS
<1>6. a \o Sorted(p.other) = a \o Sorted(q.other)
  BY DEF HeightAlertID
<1>7. Sorted(p.other) = Sorted(q.other)
  <2> HIDE DEF S, a
  <2> QED
    BY <1>4, <1>5, <1>6, Cancel
<1>8. p.other = q.other
  BY <1>2, <1>7, SortedOnce
<1> QED
  BY <1>1, <1>8

LEMMA ChallengedBlockAlertsDiffer ==
  ASSUME NEW f, NEW p \in ChallengedBlockAlerts(f), NEW q \in ChallengedBlockAlerts(f),
         ChallengedBlockAlertID(p) = ChallengedBlockAlertID(q)
  PROVE  p = q
<1>1. /\ \E b \in Range(f) : p = [block |-> b, nodes |-> SplitBy(f)[b]]
      /\ \E b \in Range(f) : q = [block |-> b, nodes |-> SplitBy(f)[b]]
  BY DEF ChallengedBlockAlerts
<1>2. p.block = q.block
  BY DEF ChallengedBlockAlertID
<1> QED
  BY <1>1, <1>2

\* The first nodes of the identifiers are of the same group, which therefore
\* takes as many places in both.
LEMMA StateHashAlertsDiffer ==
  ASSUME NEW f \in Rounds, NEW p \in StateHashPairs(f), NEW q \in StateHashPairs(f), NEW last,
         StateHashAlertID(p, last) = StateHashAlertID(q, last)
  PROVE  p = q
<1>1. PICK v \in Range(f), w \in Range(f) : p = <<SplitBy(f)[v], SplitBy(f)[w]>>
  BY DEF StateHashPairs
<1>2. PICK x \in Range(f), y \in Range(f) : q = <<SplitBy(f)[x], SplitBy(f)[y]>>
  BY DEF StateHashPairs
<1> DEFINE a == <<"StateHashAlert", last>>
           T == 0..RoundSize
           S == {"StateHashAlert", last} \cup T
<1>3. /\ RoundSize \in Nat /\ p[1] \in SUBSET T /\ p[2] \in SUBSET T
      /\ q[1] \in SUBSET T /\ q[2] \in SUBSET T /\ p[1] # {} /\ q[1] # {}
  BY <1>1, <1>2, Groups
<1>4. \A U \in SUBSET T : Sorted(U) \in Seq(U)
  BY <1>3, SortedIs
<1>5. /\ Sorted(p[1]) \in Seq(S) /\ Sorted(p[2]) \in Seq(S)
      /\ Sorted(q[1]) \in Seq(S) /\ Sorted(q[2]) \in Seq(S)
  <2>1. T \subseteq S
    OBVIOUS
  <2> HIDE DEF S, T
  <2>2. \A U \in SUBSET T : Sorted(U) \in Seq(S)
    BY <1>4, <2>1, Wider
  <2> QED
    BY <1>3, <2>2
<1>6. a \in Seq(S) /\ Len(a) = 2
  OBVIOUS
<1>7. a \o Sorted(p[1]) \o Sorted(p[2]) = a \o Sorted(q[1]) \o Sorted(q[2])
  BY DEF StateHashAlertID
<1> HIDE DEF S, a, T
<1>8. /\ \E n \in p[1] : Sorted(p[1])[1] = n /\ Len(Sorted(p[1])) # 0
      /\ \E n \in q[1] : Sorted(q[1])[1] = n /\ Len(Sorted(q[1])) # 0
  <2>1. ASSUME NEW U \in SUBSET T, U # {}
        PROVE  \E n \in U : Sorted(U)[1] = n /\ Len(Sorted(U)) # 0
    <3>1. /\ Sorted(U) \in Seq(U)
          /\ \A n : n \in U <=> \E i \in 1..Len(Sorted(U)) : Sorted(U)[i] = n
      BY <1>3, SortedIs DEF T
    <3>2. Len(Sorted(U)) \in Nat /\ Len(Sorted(U)) # 0
      BY <2>1, <3>1
    <3> QED
      BY <3>1, <3>2
  <2> QED
    BY <1>3, <2>1
<1>9. Sorted(p[1])[1] = Sorted(q[1])[1]
  <2>1. /\ (a \o Sorted(p[1]) \o Sorted(p[2]))[3] = Sorted(p[1])[1]
        /\ (a \o Sorted(q[1]) \o Sorted(q[2]))[3] = Sorted(q[1])[1]
    <3>1. \A s, t \in Seq(S) : Len(s) # 0 => (a \o s \o t)[3] = s[1]
      BY <1>6, Third
    <3> QED
      BY <1>5, <1>8, <3>1
  <2> QED
    BY <1>7, <2>1
<1>10. \E n \in p[1] : n \in q[1]
  BY <1>8, <1>9
<1>11. v = x
  BY <1>1, <1>2, <1>10, Groups
<1>12. p[1] = q[1]
  BY <1>1, <1>2, <1>11
<1>13. Sorted(p[2]) = Sorted(q[2])
  <2>1. a \o Sorted(p[1]) \in Seq(S)
    BY <1>5, <1>6
  <2>2. (a \o Sorted(p[1])) \o Sorted(p[2]) = (a \o Sorted(p[1])) \o Sorted(q[2])
    BY <1>7, <1>12
  <2> QED
    BY <1>5, <2>1, <2>2, Cancel
<1>14. p[2] = q[2]
  <2>1. p[2] \in SUBSET (0..RoundSize) /\ q[2] \in SUBSET (0..RoundSize)
    BY <1>3 DEF T
  <2>2. \A U, W \in SUBSET (0..RoundSize) : Sorted(U) = Sorted(W) => U = W
    BY <1>3, SortedOnce
  <2> QED
    BY <1>13, <2>1, <2>2
<1> QED
  BY <1>1, <1>2, <1>12, <1>14

\* The identifiers of the alerts of one round differ: of groups too far behind,
\* of challenged blocks and of pairs of branches, whatever nodes make them up
\* (alerts.go 324-334, 406-424 and 624-627).
THEOREM IdentifiersDiffer == CompareSpec => []OneReportPerIdentifier
<1>1. CriteriaInit => RoundOK
  BY DEF CriteriaInit, RoundOK
<1>2. ASSUME RoundOK
      PROVE  OneReportPerIdentifier
  <2>1. CASE round = << >>
    <3>1. Range(round) = {}
      BY <2>1 DEF Range
    <3>2. HeightAlerts(round) = {} /\ ChallengedBlockAlerts(round) = {} /\ StateHashPairs(round) = {}
      BY <3>1 DEF HeightAlerts, ChallengedBlockAlerts, StateHashPairs
    <3> QED
      BY <3>2 DEF OneReportPerIdentifier
  <2>2. CASE round \in Rounds
    BY <2>2, HeightAlertsDiffer, ChallengedBlockAlertsDiffer, StateHashAlertsDiffer
    DEF OneReportPerIdentifier
  <2> QED
    BY <1>2, <2>1, <2>2 DEF RoundOK
<1> QED
  BY <1>1, <1>2, RoundStep, PTL DEF CompareSpec
=============================================================================
