--------------------------- MODULE NodeListProofs ---------------------------
(***************************************************************************)
(* A crash loses no change that was written, for any nodes and any lists.  *)
(* A reader of a list misses no node that stays, while it is changed.      *)
(***************************************************************************)
EXTENDS NodeList, WellFoundedInduction, TLAPS

\* The file is a record, one that was never created is the same as Absent, and
\* there is nothing to remember of an earlier run of the program then.
FileOK ==
    /\ file = [state |-> file.state, lists |-> file.lists]
    /\ file.state = "absent" => file = Absent /\ before = Empty

\* A change that is not written yet is never taken for one that is.
CleanWhenIdle == clean => op \in {"none", "down"}

IInv == FileOK /\ CleanWhenIdle /\ WrittenSurvives

\* The program has not run yet.
LEMMA InitIInv == Init => IInv
  BY DEF Init, IInv, FileOK, CleanWhenIdle, WrittenSurvives, Absent

\* A program that creates its file starts from nothing.
LEMMA CreateFileKeeps ==
  ASSUME IInv, NEW complete \in BOOLEAN, CreateFile(complete)
  PROVE  IInv'
<1>1. before = Empty /\ op = "down"
  BY DEF CreateFile, IInv, FileOK, Absent
<1>2. CASE complete
  BY <1>1, <1>2 DEF CreateFile, IInv, FileOK, CleanWhenIdle, WrittenSurvives, Holding
<1>3. CASE ~ complete
  BY <1>1, <1>3 DEF CreateFile, IInv, FileOK, CleanWhenIdle, WrittenSurvives, TornFile
<1> QED
  BY <1>2, <1>3

\* What is loaded counts as written only if nothing had to be added to it.
LEMMA StartKeeps ==
  ASSUME IInv, Start
  PROVE  IInv'
<1>1. FileOK'
  BY DEF Start, IInv, FileOK
<1>2. clean' => op' = "none" /\ lists' = file.lists /\ file.state = "ok" /\ file' = file
  BY DEF Start
<1>3. clean' => file' = Holding(lists')
  BY <1>2 DEF Holding, IInv, FileOK
<1> QED
  BY <1>1, <1>2, <1>3 DEF IInv, CleanWhenIdle, WrittenSurvives

\* A crash outside of a change leaves in the file what was in memory.
LEMMA CrashKeeps ==
  ASSUME IInv, Crash
  PROVE  IInv'
<1>1. clean => file = Holding(lists) /\ before' = lists
  BY DEF Crash, IInv, CleanWhenIdle, WrittenSurvives
<1>2. ~ clean => before' = Empty
  BY DEF Crash
<1>3. FileOK'
  BY <1>1, <1>2 DEF Crash, IInv, FileOK, Holding, Absent
<1> QED
  BY <1>1, <1>3 DEF Crash, IInv, CleanWhenIdle, WrittenSurvives

\* Every change of the lists is unwritten until syncDB is done with it.
LEMMA ChangeKeeps ==
  ASSUME IInv, NEW l \in ListNames, NEW u \in Urls, Insert(l, u) \/ Delete(u) \/ Update(u)
  PROVE  IInv'
<1>1. ~ clean' /\ op' = "sync" /\ file' = file /\ before' = before
  BY DEF Insert, Delete, Update
<1> QED
  BY <1>1 DEF IInv, FileOK, CleanWhenIdle, WrittenSurvives

LEMMA SyncKeeps ==
  ASSUME IInv, SyncTruncate \/ SyncDone \/ SyncFail
  PROVE  IInv'
<1>1. CASE SyncTruncate
  BY <1>1 DEF SyncTruncate, historyVars, IInv, FileOK, CleanWhenIdle, WrittenSurvives, TornFile
<1>2. CASE SyncDone
  BY <1>2 DEF SyncDone, IInv, FileOK, CleanWhenIdle, WrittenSurvives, Holding
<1>3. CASE SyncFail
  <2>1. ~ clean /\ UNCHANGED <<clean, before>>
    BY <1>3 DEF SyncFail, historyVars, IInv, CleanWhenIdle
  <2>2. file' = file \/ file' = Holding(lists)
    BY <1>3 DEF SyncFail
  <2>3. FileOK'
    BY <2>1, <2>2 DEF IInv, FileOK, Holding
  <2> QED
    BY <2>1, <2>3 DEF IInv, CleanWhenIdle, WrittenSurvives
<1> QED
  BY <1>1, <1>2, <1>3

\* A reader changes nothing that is written.
LEMMA ReaderKeeps ==
  ASSUME IInv,
         (\E l \in ListNames : Nodes(l)) \/ SerializeNext \/ SerializeDone \/ StartRefused
  PROVE  IInv'
<1>1. UNCHANGED <<file, lists, op, clean, before>>
  BY DEF Nodes, SerializeNext, SerializeDone, StartRefused, vars, historyVars
<1> QED
  BY <1>1 DEF IInv, FileOK, CleanWhenIdle, WrittenSurvives

LEMMA NextKeeps == IInv /\ [Next]_vars => IInv'
<1> SUFFICES ASSUME IInv, [Next]_vars PROVE IInv'
  OBVIOUS
<1>1. CASE UNCHANGED vars
  BY <1>1 DEF vars, historyVars, IInv, FileOK, CleanWhenIdle, WrittenSurvives
<1>2. CASE \E u \in Urls : Delete(u) \/ Update(u)
  BY <1>2, ChangeKeeps DEF ListNames
<1> QED
  BY <1>1, <1>2, CreateFileKeeps, StartKeeps, CrashKeeps, ChangeKeeps, SyncKeeps,
     ReaderKeeps DEF Next

\* For any URLs, configuration and lengths of the lists, for the file and for
\* Vault: what was written last is what the program has in memory, and it is
\* still there after a crash at any point outside of a change, whatever changes
\* failed before (nodes_json.go 104-113 and 220-278).
THEOREM WrittenChangesSurvive == Spec => []WrittenSurvives
<1>1. IInv => WrittenSurvives
  BY DEF IInv
<1> QED
  BY <1>1, InitIInv, NextKeeps, PTL DEF Spec

-----------------------------------------------------------------------------
\* Natural numbers are well-founded, and sets of them are closed under induction.
Before == {p \in Nat \X Nat : p[1] < p[2]}

LEMMA Induction ==
  ASSUME NEW S, NEW n \in Nat, 0 \in S, \A i \in 1..n : i - 1 \in S => i \in S
  PROVE  0..n \subseteq S
<1> DEFINE U == (0..n) \ S
<1>1. U \subseteq Nat
  OBVIOUS
<1>2. IsWellFoundedOn(Before, Nat)
  BY NatLessThanWellFounded DEF OpToRel, Before
<1>3. ASSUME U # {} PROVE FALSE
  <2>1. PICK x \in U : \A y \in U : ~ (<<y, x>> \in Before)
    <3> HIDE DEF U
    <3> QED
      BY <1>1, <1>2, <1>3, WFMin
  <2>2. x \in 1..n /\ x - 1 \in 0..n
    OBVIOUS
  <2>3. <<x - 1, x>> \in Before
    BY <2>2 DEF Before
  <2>4. x - 1 \in S
    BY <2>1, <2>2, <2>3
  <2> QED
    BY <2>2, <2>4
<1> QED
  BY <1>3

LEMMA AppendUnique ==
  ASSUME NEW s \in UniqueSeq, NEW u \in Urls
  PROVE  appendIfNew(s, u) \in UniqueSeq
<1>1. CASE u \in Elements(s)
  BY <1>1 DEF appendIfNew
<1>2. CASE u \notin Elements(s)
  <2> DEFINE t == Append(s, u)
  <2>1. t \in Seq(Urls) /\ Len(t) = Len(s) + 1 /\ s \in Seq(Urls)
    BY DEF UniqueSeq
  <2>2. \A i \in 1..Len(t) : t[i] = IF i = Len(s) + 1 THEN u ELSE s[i]
    BY <2>1
  <2>3. \A i \in 1..Len(s) : s[i] # u
    BY <1>2 DEF Elements
  <2>4. \A i, j \in 1..Len(t) : t[i] = t[j] => i = j
    <3> HIDE DEF t
    <3> QED
    BY <2>1, <2>2, <2>3 DEF UniqueSeq
  <2> QED
    BY <1>2, <2>1, <2>4 DEF appendIfNew, UniqueSeq
<1> QED
  BY <1>1, <1>2

Adds(f, s, n) ==
    f = [i \in 0..n |-> IF i = 0 THEN s ELSE appendIfNew(f[i - 1], Configured[i])]

LEMMA AddsExists ==
  ASSUME NEW s, NEW n \in Nat
  PROVE  \E f : Adds(f, s, n)
<1> DEFINE T == {k \in Nat : \E f : Adds(f, s, k)}
<1>1. 0 \in T
  <2>1. Adds([i \in 0..0 |-> s], s, 0)
    BY DEF Adds
  <2> QED
    BY <2>1
<1>2. ASSUME NEW k \in 1..n, k - 1 \in T
      PROVE  k \in T
  <2>1. PICK f : Adds(f, s, k - 1)
    BY <1>2
  <2> DEFINE g == [i \in 0..k |-> IF i < k THEN f[i]
                                  ELSE appendIfNew(f[k - 1], Configured[k])]
  <2>2. Adds(g, s, k)
    BY <2>1 DEF Adds
  <2> QED
    BY <2>2
<1>3. 0..n \subseteq T
  <2> HIDE DEF T
  <2> QED
    BY <1>1, <1>2, Induction
<1> QED
  BY <1>3

LEMMA PopulatedUnique ==
  ASSUME NEW s \in UniqueSeq
  PROVE  Populated(s) \in UniqueSeq
<1> DEFINE add == CHOOSE f : Adds(f, s, Len(Configured))
           T   == {k \in 0..Len(Configured) : add[k] \in UniqueSeq}
<1>1. Len(Configured) \in Nat /\ \A k \in 1..Len(Configured) : Configured[k] \in Urls
  BY NodeListAssumption
<1>2. Adds(add, s, Len(Configured))
  BY <1>1, AddsExists
<1>3. Populated(s) = add[Len(Configured)]
  BY DEF Populated, Adds
<1> HIDE DEF add
<1>4. 0 \in T
  BY <1>1, <1>2 DEF Adds
<1>5. ASSUME NEW k \in 1..Len(Configured), k - 1 \in T
      PROVE  k \in T
  <2>1. add[k] = appendIfNew(add[k - 1], Configured[k])
    BY <1>1, <1>2 DEF Adds
  <2> QED
    BY <1>1, <1>5, <2>1, AppendUnique
<1>6. 0..Len(Configured) \subseteq T
  <2> HIDE DEF T
  <2> QED
    BY <1>1, <1>4, <1>5, Induction
<1> QED
  BY <1>1, <1>3, <1>6


-----------------------------------------------------------------------------
(***************************************************************************)
(* The lists and their readers                                             *)
(***************************************************************************)
Entries == [url : Urls \cup {Torn}, alias : {"whole", Torn}]

ReaderOK ==
    /\ slots \in Seq(Urls)
    /\ shown \in Seq(Entries)

\* Nothing is read before the program has started.
StartsUnread == op = "down" \/ starting => reading = "none"
StartsWriting == starting => op \in {"sync", "write"}

\* As long as no node is added the reader's slots begin with the list, and a
\* node that stayed was shown or is in a slot the reader has yet to come to.
StayInv ==
    (reading # "none" /\ ~ grown) =>
        /\ shared
        /\ Len(lists[reading]) <= Len(slots)
        /\ \A k \in 1..Len(lists[reading]) : slots[k] = lists[reading][k]
        /\ \A u \in stayed :
             \/ IsShown(u)
             \/ \E k \in Len(shown) + 1..Len(slots) : slots[k] = u

ListsInv ==
    /\ lists \in [ListNames -> UniqueSeq]
    /\ file.lists \in [ListNames -> UniqueSeq]

RInv == TypeOK /\ ListsInv /\ ReaderOK /\ StartsUnread /\ StartsWriting /\ StayInv

\* deleteIfFound leaves the other elements where they are, except for the last,
\* which takes the place of the deleted one.
DeletedAt(s, u, i) ==
    /\ i \in 1..Len(s) /\ s[i] = u
    /\ Len(deleteFound(s, u)) = Len(s) - 1
    /\ \A k \in 1..Len(s) - 1 :
         deleteFound(s, u)[k] = IF k = i THEN s[Len(s)] ELSE s[k]
    /\ deleteFound(s, u) \in UniqueSeq

LEMMA DeleteIs ==
  ASSUME NEW s \in UniqueSeq, NEW u \in Elements(s)
  PROVE  DeletedAt(s, u, CHOOSE k \in 1..Len(s) : s[k] = u)
<1> DEFINE i == CHOOSE k \in 1..Len(s) : s[k] = u
           t == [s EXCEPT ![i] = s[Len(s)]]
           d == deleteFound(s, u)
<1>1. i \in 1..Len(s) /\ s[i] = u
  BY DEF Elements
<1>2. s \in Seq(Urls) /\ Len(s) \in Nat
  BY DEF UniqueSeq
<1>3. d = SubSeq(t, 1, Len(s) - 1)
  BY DEF deleteFound
<1>4. t \in Seq(Urls) /\ Len(t) = Len(s)
  BY <1>1, <1>2
<1>5. \A k \in 1..Len(s) : t[k] = IF k = i THEN s[Len(s)] ELSE s[k]
  BY <1>1, <1>2
<1>6. d \in Seq(Urls) /\ Len(d) = Len(s) - 1 /\ \A k \in 1..Len(s) - 1 : d[k] = t[k]
  <2> HIDE DEF t, d
  <2> QED
    BY <1>1, <1>2, <1>3, <1>4
<1>7. \A k, l \in 1..Len(d) : d[k] = d[l] => k = l
  <2> HIDE DEF t, d, i
  <2>1. \A k, l \in 1..Len(s) : s[k] = s[l] => k = l
    BY DEF UniqueSeq
  <2>2. \A k \in 1..Len(d) : k \in 1..Len(s) - 1
    BY <1>6
  <2>3. \A k \in 1..Len(s) - 1 : d[k] = IF k = i THEN s[Len(s)] ELSE s[k]
    BY <1>2, <1>5, <1>6
  <2>4. ASSUME NEW k \in 1..Len(s) - 1, NEW l \in 1..Len(s) - 1, d[k] = d[l]
        PROVE  k = l
    <3>1. /\ k \in 1..Len(s) /\ l \in 1..Len(s) /\ Len(s) \in 1..Len(s)
          /\ k # Len(s) /\ l # Len(s)
      BY <1>2
    <3> QED
      BY <2>1, <2>3, <2>4, <3>1
  <2> QED
    BY <2>2, <2>4
<1>8. d \in UniqueSeq
  BY <1>6, <1>7 DEF UniqueSeq
<1>9. DeletedAt(s, u, i)
  <2> HIDE DEF t, i
  <2> QED
    BY <1>1, <1>2, <1>5, <1>6, <1>8 DEF DeletedAt
<1> QED
  BY <1>9

LEMMA RInit == Init => RInv
<1> SUFFICES ASSUME Init PROVE RInv
  OBVIOUS
<1>1. Empty \in [ListNames -> UniqueSeq]
  BY DEF Empty, UniqueSeq
<1>2. ListsInv
  BY <1>1 DEF Init, ListsInv, Absent
<1>3. ReaderOK /\ Len(shown) = 0 /\ Len(slots) = 0
  BY DEF Init, ReaderOK
<1>4. /\ {starting, shared, clean, grown} \subseteq BOOLEAN /\ Len(shown) <= Len(slots)
      /\ file.state = "absent" /\ stayed \subseteq Urls /\ renamed \subseteq Urls
  <2>1. starting = FALSE /\ shared = FALSE /\ clean = FALSE /\ grown = FALSE
    BY DEF Init
  <2>2. file.state = "absent" /\ stayed \subseteq Urls /\ renamed \subseteq Urls
    BY DEF Init, Absent
  <2>3. {starting, shared, clean, grown} \subseteq BOOLEAN
    BY <2>1
  <2>4. Len(shown) <= Len(slots)
    BY <1>3
  <2> QED
    BY <2>2, <2>3, <2>4
<1>5. TypeOK
  <2> HIDE DEF ReaderOK
  <2>1. backend \in {"file", "vault"} /\ op = "down" /\ reading = "none"
    BY DEF Init
  <2> QED
    BY <1>2, <1>4, <2>1 DEF TypeOK, ListsInv
<1> QED
  BY <1>2, <1>3, <1>5 DEF Init, RInv, StartsUnread, StartsWriting, StayInv

\* A step that leaves the lists and the reader alone.
LEMMA UnreadKeeps ==
  ASSUME RInv,
         \/ \E complete \in BOOLEAN : CreateFile(complete)
         \/ SyncTruncate \/ SyncDone \/ UNCHANGED vars
  PROVE  RInv'
<1>1. UNCHANGED <<lists, readerVars>>
  BY DEF CreateFile, SyncTruncate, SyncDone, vars
<1>2. Empty \in [ListNames -> UniqueSeq]
  BY DEF Empty, UniqueSeq
<1>3. file'.state \in {"absent", "torn", "ok"} /\ file'.lists \in [ListNames -> UniqueSeq]
  BY <1>2 DEF CreateFile, SyncTruncate, SyncDone, vars, Holding, TornFile, RInv,
              TypeOK, ListsInv
<1>4. TypeOK'
  BY <1>1, <1>3 DEF CreateFile, SyncTruncate, SyncDone, vars, RInv, TypeOK, ListsInv,
              readerVars, historyVars, ListNames
<1>5. StartsUnread' /\ StartsWriting'
  BY <1>1 DEF CreateFile, SyncTruncate, SyncDone, vars, RInv, TypeOK, StartsUnread,
              StartsWriting, readerVars
<1> QED
  BY <1>1, <1>3, <1>4, <1>5 DEF RInv, ListsInv, ReaderOK, StayInv, IsShown, readerVars

\* The lists begin with what was stored, and nobody reads them yet.
LEMMA StartKeepsLists ==
  ASSUME RInv, Start \/ Crash \/ SyncFail
  PROVE  RInv'
<1>1. Empty \in [ListNames -> UniqueSeq]
  BY DEF Empty, UniqueSeq
<1>2. CASE Start
  <2>1. Populated(file.lists["common"]) \in UniqueSeq
    BY PopulatedUnique DEF RInv, ListsInv, ListNames
  <2>2. lists' \in [ListNames -> UniqueSeq]
    BY <1>2, <2>1 DEF Start, RInv, ListsInv
  <2>3. reading' = "none" /\ UNCHANGED <<file, readerVars, backend>>
    BY <1>2 DEF Start, RInv, StartsUnread, readerVars
  <2>4. /\ op' \in {"none", "sync"} /\ starting' \in BOOLEAN /\ clean' \in BOOLEAN
        /\ starting' => op' = "sync"
    BY <1>2 DEF Start
  <2> QED
    BY <2>2, <2>3, <2>4 DEF RInv, TypeOK, ListsInv, ReaderOK, StartsUnread, StartsWriting,
                           StayInv, IsShown, readerVars
<1>3. CASE Crash
  <2>1. ListsInv'
    BY <1>1, <1>3 DEF Crash, RInv, ListsInv
  <2>2. ReaderOK' /\ Len(shown') = 0 /\ Len(slots') = 0
    BY <1>3 DEF Crash, ReaderOK
  <2>3. /\ {starting', shared', clean', grown'} \subseteq BOOLEAN
        /\ Len(shown') <= Len(slots') /\ stayed' \subseteq Urls /\ renamed' \subseteq Urls
    <3>1. starting' = FALSE /\ shared' = FALSE /\ clean' = clean /\ grown' = FALSE
          /\ stayed' = {} /\ renamed' = {}
      BY <1>3 DEF Crash
    <3>2. clean \in BOOLEAN
      BY DEF RInv, TypeOK
    <3>3. {starting', shared', clean', grown'} \subseteq BOOLEAN
      BY <3>1, <3>2
    <3>4. Len(shown') <= Len(slots')
      BY <2>2
    <3> QED
      BY <3>1, <3>3, <3>4
  <2>4. /\ backend' \in {"file", "vault"} /\ op' = "down" /\ reading' = "none"
        /\ file'.state \in {"absent", "torn", "ok"}
    BY <1>3 DEF Crash, RInv, TypeOK
  <2>5. TypeOK'
    BY <2>1, <2>3, <2>4 DEF TypeOK, ListsInv
  <2> QED
    BY <1>3, <2>1, <2>2, <2>5 DEF Crash, RInv, StartsUnread, StartsWriting, StayInv
<1>4. CASE SyncFail
  <2>1. lists' \in [ListNames -> UniqueSeq] /\ file'.lists \in [ListNames -> UniqueSeq]
    BY <1>1, <1>4 DEF SyncFail, RInv, ListsInv, Holding
  <2>2. file'.state \in {"absent", "torn", "ok"}
    BY <1>4 DEF SyncFail, RInv, TypeOK, Holding
  <2>3. starting => reading = "none"
    BY DEF RInv, StartsUnread
  <2>4. op' \in {"none", "down"} /\ starting' = FALSE /\ (op' = "down" => starting)
    BY <1>4 DEF SyncFail
  <2>5. ~ starting => lists' = lists
    BY <1>4 DEF SyncFail
  <2>6. UNCHANGED <<backend, readerVars, clean>>
    BY <1>4 DEF SyncFail, historyVars
  <2>7. StayInv'
    BY <2>3, <2>5, <2>6 DEF RInv, StayInv, IsShown, readerVars
  <2> QED
    BY <2>1, <2>2, <2>3, <2>4, <2>6, <2>7
       DEF RInv, TypeOK, ListsInv, ReaderOK, StartsUnread, StartsWriting, readerVars
<1> QED
  BY <1>2, <1>3, <1>4

\* What a reader may be shown of an element that is being written.
LEMMA ShownIs ==
  ASSUME RInv, NEW l, NEW k, NEW u \in Urls \cup {Torn}, NEW s \in ShownDuringWrite(l, k, u)
  PROVE  /\ s \in Seq(Entries)
         /\ Len(s) <= Len(slots)
         /\ Elements(shown) \subseteq Elements(s)
         /\ \/ s = shown
            \/ k = Len(shown) + 1 /\ Len(s) = k /\ Racing(u) \in Elements(s)
<1>1. shown \in Seq(Entries) /\ Len(shown) <= Len(slots)
  BY DEF RInv, ReaderOK, TypeOK
<1>2. CASE s = shown
  BY <1>1, <1>2
<1>3. CASE s = Append(shown, Racing(u)) /\ k = Len(shown) + 1 /\ k <= Len(slots)
  <2>1. Racing(u) \in Entries
    BY DEF Racing, Entries
  <2> HIDE DEF Entries
  <2>2. Len(s) = Len(shown) + 1 /\ s \in Seq(Entries)
    BY <1>1, <1>3, <2>1
  <2>3. s[Len(shown) + 1] = Racing(u) /\ \A j \in 1..Len(shown) : s[j] = shown[j]
    BY <1>1, <1>3, <2>1
  <2>4. Elements(shown) \subseteq Elements(s) /\ Racing(u) \in Elements(s)
    BY <1>1, <2>2, <2>3 DEF Elements
  <2> QED
    BY <1>1, <1>3, <2>2, <2>4
<1> QED
  BY <1>2, <1>3 DEF ShownDuringWrite

\* A list that grows while it is read is not promised anything.
LEMMA InsertKeeps ==
  ASSUME RInv, NEW l \in ListNames, NEW u \in Urls, Insert(l, u)
  PROVE  RInv'
<1>1. lists[l] \in UniqueSeq /\ lists[l] \in Seq(Urls)
  BY DEF RInv, ListsInv, UniqueSeq
<1>2. ListsInv'
  BY <1>1, AppendUnique DEF Insert, RInv, ListsInv
<1>3. slots' \in Seq(Urls) /\ Len(slots') = Len(slots)
  <2>1. slots \in Seq(Urls)
    BY DEF RInv, ReaderOK
  <2>2. \/ slots' = slots
        \/ \E k \in Nat : slots' = [slots EXCEPT ![k] = u]
    <3>1. Len(lists[l]) + 1 \in Nat
      BY <1>1
    <3> QED
      BY <3>1 DEF Insert
  <2> QED
    BY <2>1, <2>2
<1>4. shown' \in Seq(Entries) /\ Len(shown') <= Len(slots)
  BY ShownIs DEF Insert
<1>5. TypeOK'
  BY <1>2, <1>3, <1>4 DEF Insert, RInv, TypeOK, ListsInv
<1>6. ReaderOK' /\ StartsUnread' /\ StartsWriting'
  BY <1>3, <1>4 DEF Insert, RInv, ReaderOK, StartsUnread, StartsWriting
<1>7. StayInv'
  <2>1. CASE reading = l
    BY <2>1 DEF Insert, StayInv
  <2>2. CASE reading # l
    <3>1. lists'[reading] = lists[reading] /\ slots' = slots /\ shown' = shown
      BY <2>2 DEF Insert, ShownDuringWrite, RInv, ListsInv
    <3>2. shared' = shared /\ UNCHANGED <<reading, stayed, renamed>> /\ (~ grown' => ~ grown)
      BY <2>2 DEF Insert
    <3> QED
      BY <3>1, <3>2 DEF RInv, StayInv, IsShown
  <2> QED
    BY <2>1, <2>2
<1> QED
  BY <1>2, <1>5, <1>6, <1>7 DEF RInv

\* The slot that is overwritten is the deleted node's, and the element that is
\* moved into it is still where it was.
LEMMA DeleteKeeps ==
  ASSUME RInv, NEW u \in Urls, Delete(u)
  PROVE  RInv'
<1> DEFINE l == IF u \in Elements(lists["common"]) THEN "common" ELSE "specific"
           s == lists[l]
           i == CHOOSE k \in 1..Len(s) : s[k] = u
<1>1. l \in ListNames /\ u \in Elements(s) /\ lists' = [lists EXCEPT ![l] = deleteFound(s, u)]
  BY DEF Delete, ListNames, RInv, ListsInv
<1>2. s \in UniqueSeq /\ s \in Seq(Urls)
  BY <1>1 DEF RInv, ListsInv, UniqueSeq
<1>3. /\ slots' = IF reading = l /\ shared THEN slotsAfterDelete(s, u, slots) ELSE slots
      /\ shown' \in ShownDuringWrite(l, i, Torn)
      /\ stayed' = IF reading = l THEN stayed \ {u} ELSE stayed
      /\ UNCHANGED <<backend, file, starting, reading, shared, renamed, grown, before>>
      /\ op' = "sync" /\ clean' = FALSE /\ op = "none"
  BY DEF Delete
<1> HIDE DEF l, s
<1>13. i = CHOOSE k \in 1..Len(s) : s[k] = u
  OBVIOUS
<1>14. DeletedAt(s, u, i)
  BY <1>1, <1>2, DeleteIs
<1> HIDE DEF i
<1>4. /\ i \in 1..Len(s) /\ s[i] = u
      /\ Len(deleteFound(s, u)) = Len(s) - 1
      /\ \A k \in 1..Len(s) - 1 :
           deleteFound(s, u)[k] = IF k = i THEN s[Len(s)] ELSE s[k]
      /\ deleteFound(s, u) \in UniqueSeq
  BY <1>14 DEF DeletedAt
<1>5. slotsAfterDelete(s, u, slots)
        = [k \in 1..Len(slots) |-> IF k = i THEN s[Len(s)] ELSE slots[k]]
  BY <1>13 DEF slotsAfterDelete
<1>6. s[Len(s)] \in Urls
  BY <1>2, <1>4
<1>7. slots' \in Seq(Urls) /\ Len(slots') = Len(slots)
  BY <1>3, <1>5, <1>6 DEF RInv, ReaderOK
<1>8. /\ shown' \in Seq(Entries) /\ Len(shown') <= Len(slots)
      /\ Elements(shown) \subseteq Elements(shown')
      /\ shown' = shown \/ (i = Len(shown) + 1 /\ Len(shown') = i)
  BY <1>3, ShownIs
<1>9. ListsInv'
  BY <1>1, <1>3, <1>4 DEF RInv, ListsInv
<1>10. TypeOK'
  BY <1>3, <1>7, <1>8, <1>9 DEF RInv, TypeOK, ListsInv
<1>11. ReaderOK' /\ StartsUnread' /\ StartsWriting'
  BY <1>3, <1>7, <1>8 DEF RInv, ReaderOK, StartsUnread, StartsWriting
<1>12. StayInv'
  <2> SUFFICES ASSUME reading # "none", ~ grown PROVE StayInv'
    BY <1>3 DEF StayInv
  <2>1. CASE reading # l
    <3>1. lists'[reading] = lists[reading] /\ slots' = slots /\ shown' = shown
      BY <1>1, <1>3, <2>1 DEF ShownDuringWrite, RInv, ListsInv
    <3> QED
      BY <1>3, <2>1, <3>1 DEF RInv, StayInv, IsShown
  <2>2. CASE reading = l
    <3>1. /\ shared /\ Len(s) <= Len(slots)
          /\ \A k \in 1..Len(s) : slots[k] = s[k]
      BY <2>2 DEF RInv, StayInv, s
    <3>2. \A k \in 1..Len(slots) : slots'[k] = IF k = i THEN s[Len(s)] ELSE slots[k]
      BY <1>3, <1>5, <2>2, <3>1
    <3>3. lists'[reading] = deleteFound(s, u)
      BY <1>1, <2>2 DEF RInv, ListsInv, s
    <3>4. \A k \in 1..Len(lists'[reading]) : slots'[k] = lists'[reading][k]
      BY <1>2, <1>4, <3>1, <3>2, <3>3
    <3>5. ASSUME NEW v \in stayed'
          PROVE  IsShown(v)' \/ \E k \in Len(shown') + 1..Len(slots') : slots'[k] = v
      <4>1. v \in stayed /\ v # u
        BY <1>3, <2>2, <3>5
      <4>2. CASE IsShown(v)
        BY <1>3, <1>8, <4>2 DEF IsShown
      <4>3. CASE \E k \in Len(shown) + 1..Len(slots) : slots[k] = v
        <5>1. PICK k \in Len(shown) + 1..Len(slots) : slots[k] = v
          BY <4>3
        <5>2. k # i
          BY <1>4, <3>1, <4>1, <5>1
        <5>3. Len(shown) \in Nat /\ Len(slots) \in Nat
          BY DEF RInv, ReaderOK
        <5>4. k \in Len(shown') + 1..Len(slots) /\ slots'[k] = v
          BY <1>8, <3>2, <5>1, <5>2, <5>3
        <5> QED
          BY <1>7, <5>4
      <4> QED
        BY <4>1, <4>2, <4>3 DEF RInv, StayInv
    <3> QED
      BY <1>2, <1>3, <1>4, <1>7, <3>1, <3>3, <3>4, <3>5 DEF StayInv
  <2> QED
    BY <2>1, <2>2
<1> QED
  BY <1>9, <1>10, <1>11, <1>12 DEF RInv

\* What is overwritten is the element of the node whose alias is changed.
LEMMA UpdateKeeps ==
  ASSUME RInv, NEW u \in Urls, Update(u)
  PROVE  RInv'
<1> DEFINE l == IF u \in Elements(lists["common"]) THEN "common" ELSE "specific"
           s == lists[l]
           i == CHOOSE k \in 1..Len(s) : s[k] = u
<1>1. l \in ListNames /\ u \in Elements(s)
  BY DEF Update, ListNames
<1>2. /\ shown' \in ShownDuringWrite(l, i, u)
      /\ renamed' = IF reading = l THEN renamed \cup {u} ELSE renamed
      /\ UNCHANGED <<backend, file, lists, starting, reading, slots, shared, stayed, grown,
                     before>>
      /\ op' = "sync" /\ clean' = FALSE /\ op = "none"
  BY DEF Update
<1> HIDE DEF l, s
<1>3. i \in 1..Len(s) /\ s[i] = u
  BY <1>1 DEF Elements
<1> HIDE DEF i
<1>4. /\ shown' \in Seq(Entries) /\ Len(shown') <= Len(slots)
      /\ Elements(shown) \subseteq Elements(shown')
      /\ \/ shown' = shown
         \/ i = Len(shown) + 1 /\ Len(shown') = i /\ Racing(u) \in Elements(shown')
  BY <1>2, ShownIs
<1>5. ListsInv'
  BY <1>2 DEF RInv, ListsInv
<1>6. renamed' \subseteq Urls
  BY <1>2 DEF RInv, TypeOK
<1>7. TypeOK'
  BY <1>2, <1>4, <1>5, <1>6 DEF RInv, TypeOK, ListsInv
<1>8. ReaderOK' /\ StartsUnread' /\ StartsWriting'
  BY <1>2, <1>4 DEF RInv, ReaderOK, StartsUnread, StartsWriting
<1>9. StayInv'
  <2> SUFFICES ASSUME reading # "none", ~ grown PROVE StayInv'
    BY <1>2 DEF StayInv
  <2>1. CASE reading # l
    <3>1. shown' = shown
      BY <1>2, <2>1 DEF ShownDuringWrite
    <3> QED
      BY <1>2, <2>1, <3>1 DEF RInv, StayInv, IsShown
  <2>2. CASE reading = l
    <3>1. ASSUME NEW v \in stayed
          PROVE  IsShown(v)' \/ \E k \in Len(shown') + 1..Len(slots) : slots[k] = v
      <4>1. CASE IsShown(v)
        BY <1>2, <1>4, <4>1 DEF IsShown
      <4>2. CASE \E k \in Len(shown) + 1..Len(slots) : slots[k] = v
        <5>1. PICK k \in Len(shown) + 1..Len(slots) : slots[k] = v
          BY <4>2
        <5>2. CASE shown' = shown
          BY <5>1, <5>2
        <5>3. CASE i = Len(shown) + 1 /\ Len(shown') = i /\ Racing(u) \in Elements(shown')
          <6>1. slots[i] = u
            BY <1>3, <2>2 DEF RInv, StayInv, s
          <6>2. CASE k = i
            BY <1>2, <2>2, <5>1, <5>3, <6>1, <6>2 DEF IsShown
          <6>3. CASE k # i
            <7>1. Len(shown) \in Nat /\ Len(slots) \in Nat
              BY DEF RInv, ReaderOK
            <7> QED
              BY <5>1, <5>3, <6>3, <7>1
          <6> QED
            BY <6>2, <6>3
        <5> QED
          BY <1>4, <5>2, <5>3
      <4> QED
        BY <4>1, <4>2, <2>2 DEF RInv, StayInv
    <3> QED
      BY <1>2, <3>1 DEF RInv, StayInv
  <2> QED
    BY <2>1, <2>2
<1> QED
  BY <1>5, <1>7, <1>8, <1>9 DEF RInv

LEMMA ReadingKeeps ==
  ASSUME RInv, (\E l \in ListNames : Nodes(l)) \/ SerializeNext \/ SerializeDone
  PROVE  RInv'
<1>1. CASE \E l \in ListNames : Nodes(l)
  <2>1. PICK l \in ListNames : Nodes(l)
    BY <1>1
  <2>2. lists[l] \in Seq(Urls)
    BY DEF RInv, ListsInv, UniqueSeq
  <2>3. /\ reading' = l /\ slots' = lists[l] /\ shown' = <<>> /\ shared' /\ shared' \in BOOLEAN
        /\ stayed' = Elements(lists[l]) /\ renamed' = {} /\ grown' = FALSE /\ op = "none"
        /\ UNCHANGED <<backend, file, lists, op, starting, historyVars>>
    BY <2>1 DEF Nodes
  <2>4. Len(shown') = 0 /\ ReaderOK'
    BY <2>2, <2>3 DEF ReaderOK
  <2>5. \A u \in Elements(lists[l]) : u \in Urls /\ \E k \in 1..Len(lists[l]) : lists[l][k] = u
    BY <2>2 DEF Elements
  <2>6. TypeOK'
    <3>1. /\ {starting', shared', clean', grown'} \subseteq BOOLEAN
          /\ stayed' \subseteq Urls /\ renamed' \subseteq Urls /\ reading' \in ListNames
      BY <2>3, <2>5 DEF RInv, TypeOK, historyVars
    <3>2. Len(shown') <= Len(slots')
      BY <2>2, <2>3, <2>4
    <3> QED
      BY <2>3, <3>1, <3>2 DEF RInv, TypeOK
  <2>7. StayInv'
    BY <2>2, <2>3, <2>4, <2>5 DEF StayInv
  <2> QED
    BY <2>3, <2>4, <2>6, <2>7 DEF RInv, ListsInv, StartsUnread, StartsWriting
<1>2. CASE SerializeNext
  <2> DEFINE j == Len(shown) + 1
  <2>1. /\ shown' = Append(shown, Read(slots[j])) /\ Len(shown) < Len(slots)
        /\ UNCHANGED <<backend, file, lists, op, starting, reading, slots, shared, stayed,
                       renamed, grown, historyVars>>
    BY <1>2 DEF SerializeNext
  <2>2. shown \in Seq(Entries) /\ slots \in Seq(Urls)
    BY DEF RInv, ReaderOK
  <2>8. Read(slots[j]) \in Entries
    BY <2>1, <2>2 DEF Read, Entries
  <2> HIDE DEF Entries
  <2>3. shown' \in Seq(Entries) /\ Len(shown') = j /\ j \in 1..Len(slots)
    BY <2>1, <2>2, <2>8
  <2>4. Elements(shown') = Elements(shown) \cup {Read(slots[j])}
    <3>1. \A k \in 1..j : shown'[k] = IF k = j THEN Read(slots[j]) ELSE shown[k]
      BY <2>1, <2>2, <2>8
    <3> HIDE DEF j
    <3>2. 1..j = (1..Len(shown)) \cup {j} /\ j \notin 1..Len(shown)
      BY <2>2 DEF j
    <3> QED
      BY <2>3, <3>1, <3>2 DEF Elements
  <2>5. TypeOK'
    BY <2>1, <2>2, <2>3 DEF RInv, TypeOK, historyVars
  <2>6. \A k \in Len(shown) + 1..Len(slots) : k = j \/ k \in Len(shown') + 1..Len(slots)
    BY <2>2, <2>3
  <2>7. StayInv'
    <3> HIDE DEF j
    <3> QED
      BY <2>1, <2>4, <2>6 DEF RInv, StayInv, IsShown
  <2> QED
    BY <2>1, <2>2, <2>3, <2>5, <2>7
       DEF RInv, ListsInv, ReaderOK, StartsUnread, StartsWriting, historyVars
<1>3. CASE SerializeDone
  <2>1. Len(shown') = 0 /\ Len(slots') = 0 /\ ReaderOK' /\ reading' = "none"
    BY <1>3 DEF SerializeDone, ReaderOK
  <2>2. /\ {starting', shared', clean', grown'} \subseteq BOOLEAN
        /\ Len(shown') <= Len(slots') /\ stayed' \subseteq Urls /\ renamed' \subseteq Urls
    <3>1. starting' = starting /\ shared' = FALSE /\ clean' = clean /\ grown' = FALSE
          /\ stayed' = {} /\ renamed' = {}
      BY <1>3 DEF SerializeDone, historyVars
    <3>2. clean \in BOOLEAN /\ starting \in BOOLEAN
      BY DEF RInv, TypeOK
    <3>3. {starting', shared', clean', grown'} \subseteq BOOLEAN
      BY <3>1, <3>2
    <3>4. Len(shown') <= Len(slots')
      BY <2>1
    <3> QED
      BY <3>1, <3>3, <3>4
  <2>3. UNCHANGED <<backend, file, lists, op>>
    BY <1>3 DEF SerializeDone
  <2>4. TypeOK'
    BY <2>1, <2>2, <2>3 DEF RInv, TypeOK
  <2> QED
    BY <1>3, <2>1, <2>4
       DEF SerializeDone, RInv, ListsInv, StartsUnread, StartsWriting, StayInv
<1> QED
  BY <1>1, <1>2, <1>3

LEMMA RNext == RInv /\ [Next]_vars => RInv'
<1> SUFFICES ASSUME RInv, [Next]_vars PROVE RInv'
  OBVIOUS
<1>1. CASE UNCHANGED vars \/ StartRefused
  BY <1>1, UnreadKeeps DEF StartRefused
<1> QED
  BY <1>1, UnreadKeeps, StartKeepsLists, InsertKeeps, DeleteKeeps, UpdateKeeps,
     ReadingKeeps DEF Next

LEMMA RInvariant == Spec => []RInv
  BY RInit, RNext, PTL DEF Spec

\* The lists stay lists of URLs without duplicates, whatever is loaded, inserted
\* and deleted (nodes_json.go 220-278), and a reader never gets past the end of
\* the slice it was given.
THEOREM TypeCorrect == Spec => []TypeOK
<1>1. RInv => TypeOK
  BY DEF RInv
<1> QED
  BY <1>1, RInvariant, PTL

\* For lists of any length and any number of deletions and changed aliases while
\* one is read: unless a node was added meanwhile a bot is shown every node that
\* stayed in the list, and with its alias unless that was changed (nodes_json.go
\* 42-50, 62-70 and 199-204, server.go 161-177).
THEOREM StayersCorrect == Spec => []StayersShown
<1>1. RInv => StayersShown
  <2> SUFFICES ASSUME RInv, reading # "none", Len(shown) = Len(slots), ~ grown,
                      NEW u \in stayed
               PROVE  IsShown(u)
    BY DEF StayersShown
  <2>1. Len(shown) + 1..Len(slots) = {}
    BY DEF RInv, ReaderOK
  <2> QED
    BY <2>1 DEF RInv, StayInv
<1> QED
  BY <1>1, RInvariant, PTL
=============================================================================
