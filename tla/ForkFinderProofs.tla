-------------------------- MODULE ForkFinderProofs --------------------------
(***************************************************************************)
(* The search for the last common state hash, for all heights, all bounds  *)
(* and all changes of the storage during the search.  It returns a         *)
(* boundary it has seen: the argument is the loop invariant of the         *)
(* bisection (the hashes were equal just below start and different just    *)
(* above stop, and the result so far is one of the two ends).  When        *)
(* nothing disturbs it this is the last common height: no common height is *)
(* above what is left to search.  And for two nodes on two branches every  *)
(* height it found equal is below the fork, disturbed or not.              *)
(***************************************************************************)
EXTENDS MCForkFinder, SequenceTheorems, WellFoundedInduction, TLAPS

\* Where the linear search stands: every height it left behind was rejected.
LinearInv ==
    /\ start = InitialStart /\ stop = InitialStop
    /\ agreed = {}
    /\ depth = 0 \/ Minus(stop, depth - 1) \in rejected

\* Where the bisection stands.
BisectInv ==
    /\ InitialStart <= start /\ stop <= InitialStop
    /\ start = InitialStart \/ start - 1 \in agreed
    /\ \A h \in agreed : InitialStart <= h /\ h < start
    /\ stop = InitialStop \/ stop + 1 \in rejected
    /\ \/ r = 0 /\ start = InitialStart /\ stop = InitialStop
       \/ start <= stop + 1 /\ r \in {start - 1, stop}

\* The inductive invariant.
IInv ==
    /\ TypeOK
    /\ pc \in {"linear", "bisect", "fetch", "handle", "handleNone"} => Len(bounds) = 4
    /\ pc \in {"bounds", "linear"} => agreed = {} /\ r = 0
    /\ pc = "linear" => LinearInv
    /\ pc = "bisect" => BisectInv
    /\ ResultIsBoundary

-----------------------------------------------------------------------------
\* The middle of an interval is in it (fork_finder.go 146).
LEMMA Middle ==
    ASSUME NEW m \in Nat, NEW n \in Nat, m <= n
    PROVE  (m + n) \div 2 \in m..n
  OBVIOUS

\* The bounds of a search are heights (fork_finder.go 115-133).
LEMMA InitialHeights ==
    ASSUME IInv, Len(bounds) = 4
    PROVE  /\ InitialStart \in 1..MaxUint /\ InitialStop \in 1..MaxUint
           /\ 2 * InitialStop <= MaxUint
<1>1. \A i \in 1..4 : bounds[i] \in Heights
  BY ElementOfSeq DEF IInv, TypeOK
<1>2. \A h \in Heights : h \in 1..MaxUint /\ 2 * h <= MaxUint
  BY EventsAssumption, CriterionAssumption
<1>3. /\ InitialStart = bounds[1] \/ InitialStart = bounds[2]
      /\ InitialStop = bounds[3] \/ InitialStop = bounds[4]
  BY DEF InitialStart, InitialStop, Larger, Smaller
<1>4. InitialStart \in Heights /\ InitialStop \in Heights
  BY <1>1, <1>3
<1>5. QED
  BY <1>2, <1>4

\* The probed height is a height; in a bisection it is one of those left, and
\* start + stop does not overflow (fork_finder.go 93 and 146).
LEMMA ProbeHeight ==
    ASSUME IInv, Probing
    PROVE  /\ Probe \in 0..MaxUint
           /\ pc = "bisect" => Probe \in start..stop
<1> USE EventsAssumption, CriterionAssumption
<1>1. CASE pc = "linear"
  BY <1>1 DEF IInv, TypeOK, Probe, Probing, LinearGoesOn, Minus, searchDepth
<1>2. CASE pc = "bisect"
  <2>1. start <= stop /\ start \in Nat /\ stop \in Nat
    BY <1>2 DEF Probing, IInv, TypeOK
  <2>2. (start + stop) \div 2 \in start..stop
    BY <2>1, Middle
  <2>3. stop <= InitialStop /\ Len(bounds) = 4
    BY <1>2 DEF IInv, BisectInv
  <2>4. start + stop \in 0..MaxUint
    BY <2>1, <2>3, InitialHeights
  <2>5. (start + stop) % (MaxUint + 1) = start + stop
    BY <2>4
  <2>6. Probe = (start + stop) \div 2
    BY <1>2, <2>5 DEF Probe
  <2>7. QED
    BY <1>2, <2>1, <2>2, <2>4, <2>6 DEF IInv, TypeOK
<1>3. QED
  BY <1>1, <1>2 DEF Probing

-----------------------------------------------------------------------------
\* Before the first search there is nothing to show.
LEMMA SearchInit == Init => IInv
<1> SUFFICES ASSUME Init PROVE IInv
  OBVIOUS
<1> USE EventsAssumption, CriterionAssumption
<1>1. pc = "idle" /\ bounds = <<>> /\ agreed = {} /\ rejected = {}
  BY DEF Init
<1>2. bounds \in Seq(Heights) /\ Len(bounds) <= 4
  BY <1>1
<1>3. disturbed \in BOOLEAN
  BY DEF Init
<1>4. /\ bucketHeight = 0 /\ start = 0 /\ stop = 0 /\ depth = 0 /\ r = 0
  BY DEF Init
<1>5. TypeOK
  BY <1>1, <1>2, <1>3, <1>4 DEF TypeOK, searchDepth
<1>6. QED
  BY <1>1, <1>5 DEF IInv, ResultIsBoundary

-----------------------------------------------------------------------------
(***************************************************************************)
(* Steps that leave the search alone                                       *)
(***************************************************************************)
\* The scraper stores, or the retention ends: the search has its own copies of
\* what it read.
LEMMA StorageStep ==
    ASSUME IInv, UNCHANGED searchVars, disturbed' \in BOOLEAN
    PROVE  IInv'
<1>1. UNCHANGED <<pc, bucketHeight, bounds, start, stop, depth, r, agreed, rejected>>
  BY DEF searchVars, range, seen
<1>2. TypeOK'
  BY <1>1 DEF IInv, TypeOK
<1>3. QED
  BY <1>1, <1>2 DEF IInv, LinearInv, BisectInv, ResultIsBoundary, InitialStart, InitialStop

\* handleSamplesPair calls the finder with fresh variables.
LEMMA BeginStep ==
    ASSUME IInv, NEW b \in 0..MaxUint, Begin(b)
    PROVE  IInv'
<1> USE EventsAssumption, CriterionAssumption
<1>1. pc' = "bounds" /\ bounds' = <<>> /\ agreed' = {} /\ rejected' = {} /\ r' = 0
  BY DEF Begin
<1>2. bounds' \in Seq(Heights) /\ Len(bounds') <= 4
  BY <1>1
<1>3. disturbed' \in BOOLEAN
  BY DEF Begin
<1>4. TypeOK'
  BY <1>1, <1>2, <1>3 DEF IInv, TypeOK, Begin
<1>5. QED
  BY <1>1, <1>4 DEF IInv, ResultIsBoundary

\* Between two searches nothing is kept.
LEMMA RestStep ==
    ASSUME IInv, Rest
    PROVE  IInv'
<1> USE EventsAssumption, CriterionAssumption
<1>1. pc' = "idle" /\ bounds' = <<>> /\ agreed' = {} /\ rejected' = {}
  BY DEF Rest
<1>2. bounds' \in Seq(Heights) /\ Len(bounds') <= 4
  BY <1>1
<1>3. disturbed' \in BOOLEAN
  BY DEF Rest
<1>4. bucketHeight' = 0 /\ start' = 0 /\ stop' = 0 /\ depth' = 0 /\ r' = 0
  BY DEF Rest
<1>5. TypeOK'
  BY <1>1, <1>2, <1>3, <1>4 DEF TypeOK, searchDepth
<1>6. QED
  BY <1>1, <1>5 DEF IInv, ResultIsBoundary

\* The search ends without an answer.
LEMMA SkipStep ==
    ASSUME IInv, NoFullStatement
    PROVE  IInv'
<1>1. pc' = "skipped"
  BY DEF NoFullStatement
<1>2. UNCHANGED <<bucketHeight, bounds, start, stop, depth, r, agreed, rejected, disturbed>>
  BY DEF NoFullStatement, given, range, seen
<1>3. TypeOK'
  BY <1>1, <1>2 DEF IInv, TypeOK
<1>4. QED
  BY <1>1, <1>3 DEF IInv, ResultIsBoundary

-----------------------------------------------------------------------------
(***************************************************************************)
(* The bounds                                                              *)
(***************************************************************************)
\* A bound that is read is a height (fork_finder.go 115-132).
LEMMA BoundStep ==
    ASSUME IInv, ReadBound
    PROVE  IInv'
<1>1. /\ pc = "bounds" /\ pc' = "bounds" /\ agreed' = agreed /\ r' = r
      /\ bounds' = Append(bounds, Bound(Len(bounds) + 1))
      /\ Len(bounds) < 4 /\ Bound(Len(bounds) + 1) \in Heights
  BY DEF ReadBound, seen
<1>2. bounds' \in Seq(Heights) /\ Len(bounds') <= 4
  BY <1>1, AppendProperties DEF IInv, TypeOK
<1>3. UNCHANGED <<bucketHeight, start, stop, depth, rejected, disturbed>>
  BY DEF ReadBound, given, seen
<1>4. TypeOK'
  BY <1>1, <1>2, <1>3 DEF IInv, TypeOK
<1>5. QED
  BY <1>1, <1>4 DEF IInv, ResultIsBoundary

\* The linear search starts with nothing rejected (fork_finder.go 135).
LEMMA StartStep ==
    ASSUME IInv, StartLinear
    PROVE  IInv'
<1> USE EventsAssumption, CriterionAssumption
<1>1. /\ pc = "bounds" /\ pc' = "linear" /\ Len(bounds) = 4
      /\ start' = InitialStart /\ stop' = InitialStop /\ depth' = 0
      /\ UNCHANGED <<bucketHeight, bounds, r, agreed, rejected, disturbed>>
  BY DEF StartLinear, given, seen
<1>2. InitialStart \in 1..MaxUint /\ InitialStop \in 1..MaxUint
  BY <1>1, InitialHeights
<1>3. InitialStart' = InitialStart /\ InitialStop' = InitialStop
  BY <1>1 DEF InitialStart, InitialStop
<1>4. TypeOK'
  <2>1. /\ start' \in 0..MaxUint + 1 /\ stop' \in 0..MaxUint
        /\ depth' \in 0..searchDepth
    BY <1>1, <1>2 DEF searchDepth
  <2>2. QED
    BY <1>1, <2>1 DEF IInv, TypeOK
<1>5. LinearInv'
  BY <1>1, <1>3 DEF IInv, LinearInv
<1>6. QED
  BY <1>1, <1>4, <1>5 DEF IInv, ResultIsBoundary

-----------------------------------------------------------------------------
(***************************************************************************)
(* The probes                                                              *)
(***************************************************************************)
\* The first of the two reads of a probe decides nothing.
LEMMA ReadStep ==
    ASSUME IInv, ReadA
    PROVE  IInv'
<1>1. UNCHANGED <<pc, bucketHeight, bounds, start, stop, depth, r, agreed, rejected, disturbed>>
  BY DEF ReadA, given, range
<1>2. TypeOK'
  BY <1>1 DEF IInv, TypeOK
<1>3. QED
  BY <1>1, <1>2 DEF IInv, LinearInv, BisectInv, ResultIsBoundary, InitialStart, InitialStop

\* The linear search leaves a height behind, whether the hashes there were
\* different or one was missing (fork_finder.go 96-104).
LEMMA LinearStep ==
    ASSUME IInv, pc = "linear", Probing,
           depth' = depth + 1, rejected' = rejected \cup {Probe},
           UNCHANGED <<pc, bucketHeight, bounds, start, stop, r, agreed, disturbed>>
    PROVE  IInv'
<1> USE EventsAssumption, CriterionAssumption
<1>1. Probe \in 0..MaxUint
  BY ProbeHeight
<1>2. depth \in Nat /\ depth < searchDepth
  BY DEF Probing, LinearGoesOn, IInv, TypeOK
<1>3. depth' \in 0..searchDepth
  BY <1>2 DEF searchDepth
<1>4. TypeOK'
  BY <1>1, <1>3 DEF IInv, TypeOK
<1>5. Minus(stop', depth' - 1) \in rejected'
  BY <1>2 DEF Probe
<1>6. LinearInv'
  BY <1>5 DEF IInv, LinearInv, InitialStart, InitialStop
<1>7. QED
  BY <1>4, <1>6 DEF IInv, ResultIsBoundary

\* A height without a full statement is left behind (fork_finder.go 96-98).
LEMMA MissStep ==
    ASSUME IInv, LinearMiss
    PROVE  IInv'
<1>1. /\ pc = "linear" /\ Probing /\ depth' = depth + 1
      /\ rejected' = rejected \cup {Probe}
      /\ UNCHANGED <<pc, bucketHeight, bounds, start, stop, r, agreed, disturbed>>
  BY DEF LinearMiss, NoneAtProbe, given
<1>2. QED
  BY <1>1, LinearStep

\* The linear search has found equal hashes: the height above was the one it
\* rejected last (fork_finder.go 105-109).
LEMMA LinearAgrees ==
    ASSUME IInv, Agrees, pc = "linear"
    PROVE  IInv'
<1> USE EventsAssumption, CriterionAssumption
<1>1. /\ Probing /\ pc' = "fetch" /\ r' = Probe /\ agreed' = agreed \cup {Probe}
      /\ UNCHANGED <<bucketHeight, bounds, start, stop, depth, rejected, disturbed>>
  BY DEF Agrees, given
<1>2. Probe \in 0..MaxUint
  BY <1>1, ProbeHeight
<1>3. TypeOK'
  BY <1>1, <1>2 DEF IInv, TypeOK
<1>4. Len(bounds) = 4 /\ stop = InitialStop /\ agreed = {}
  BY DEF IInv, LinearInv
<1>5. stop \in 0..MaxUint /\ depth \in 0..MaxUint
  BY DEF IInv, TypeOK, searchDepth
<1>6. Probe = Minus(stop, depth)
  BY DEF Probe
<1>8. Probe = stop \/ Above(Probe) \in rejected
  <2>1. CASE depth = 0
    BY <1>5, <1>6, <2>1 DEF Minus
  <2>2. CASE depth # 0
    <3>1. Above(Minus(stop, depth)) = Minus(stop, depth - 1)
      BY <1>5, <2>2 DEF Above, Minus
    <3>2. Minus(stop, depth - 1) \in rejected
      BY <2>2 DEF IInv, LinearInv
    <3>3. QED
      BY <1>6, <3>1, <3>2
  <2>3. QED
    BY <2>1, <2>2
<1>9. InitialStop' = InitialStop
  BY <1>1 DEF InitialStop
<1>10. \A h \in agreed' : h <= r'
  BY <1>1, <1>2, <1>4
<1>11. ResultIsBoundary'
  BY <1>1, <1>4, <1>8, <1>9, <1>10 DEF ResultIsBoundary, Above
<1>12. QED
  BY <1>1, <1>3, <1>4, <1>11 DEF IInv

\* Equal hashes: start moves just above the probed height (fork_finder.go
\* 157-160).
LEMMA BisectAgrees ==
    ASSUME IInv, Agrees, pc = "bisect"
    PROVE  IInv'
<1> USE EventsAssumption, CriterionAssumption
<1>1. /\ Probing /\ pc' = "bisect" /\ r' = Probe /\ agreed' = agreed \cup {Probe}
      /\ start' = Probe + 1
      /\ UNCHANGED <<bucketHeight, bounds, stop, depth, rejected, disturbed>>
  BY DEF Agrees, given
<1>2. Probe \in 0..MaxUint /\ Probe \in start..stop
  BY <1>1, ProbeHeight
<1>3. TypeOK'
  BY <1>1, <1>2 DEF IInv, TypeOK
<1>4. Len(bounds) = 4 /\ BisectInv
  BY DEF IInv
<1>5. InitialStart' = InitialStart /\ InitialStop' = InitialStop
  BY <1>1 DEF InitialStart, InitialStop
<1>6. InitialStart \in 1..MaxUint /\ InitialStop \in 1..MaxUint
  BY <1>4, InitialHeights
<1>7. start \in 0..MaxUint + 1 /\ stop \in 0..MaxUint /\ agreed \subseteq 0..MaxUint
  BY DEF IInv, TypeOK
<1>8. /\ InitialStart' <= start' /\ stop' <= InitialStop'
      /\ start' - 1 \in agreed'
      /\ stop' = InitialStop' \/ stop' + 1 \in rejected'
      /\ start' <= stop' + 1 /\ r' = start' - 1
  BY <1>1, <1>2, <1>4, <1>5, <1>6, <1>7 DEF BisectInv
<1>9. \A h \in agreed' : InitialStart' <= h /\ h < start'
  <2> SUFFICES ASSUME NEW h \in agreed' PROVE InitialStart <= h /\ h < Probe + 1
    BY <1>1, <1>5
  <2>1. CASE h \in agreed
    <3>1. InitialStart <= h /\ h < start
      BY <1>4, <2>1 DEF BisectInv
    <3>2. QED
      BY <1>2, <1>7, <2>1, <3>1
  <2>2. CASE h = Probe
    BY <1>2, <1>4, <1>6, <1>7, <2>2 DEF BisectInv
  <2>3. QED
    BY <1>1, <2>1, <2>2
<1>10. BisectInv'
  BY <1>8, <1>9 DEF BisectInv
<1>11. QED
  BY <1>1, <1>3, <1>4, <1>10 DEF IInv, ResultIsBoundary

\* Different hashes: stop moves just below the probed height (fork_finder.go
\* 154-156).
LEMMA BisectDiffers ==
    ASSUME IInv, Differs, pc = "bisect"
    PROVE  IInv'
<1> USE EventsAssumption, CriterionAssumption
<1>1. /\ Probing /\ pc' = "bisect" /\ rejected' = rejected \cup {Probe}
      /\ stop' = Probe - 1 /\ r' = Probe - 1
      /\ UNCHANGED <<bucketHeight, bounds, start, depth, agreed, disturbed>>
  BY DEF Differs, given
<1>2. Probe \in 0..MaxUint /\ Probe \in start..stop
  BY <1>1, ProbeHeight
<1>3. Len(bounds) = 4 /\ BisectInv
  BY DEF IInv
<1>4. InitialStart' = InitialStart /\ InitialStop' = InitialStop
  BY <1>1 DEF InitialStart, InitialStop
<1>5. InitialStart \in 1..MaxUint /\ InitialStop \in 1..MaxUint
  BY <1>3, InitialHeights
<1>6. start \in 1..MaxUint + 1 /\ stop \in 0..MaxUint
  BY <1>3, <1>5 DEF IInv, TypeOK, BisectInv
<1>7. Probe - 1 \in 0..MaxUint
  BY <1>2, <1>6
<1>8. TypeOK'
  BY <1>1, <1>2, <1>7 DEF IInv, TypeOK
<1>9. /\ stop' <= InitialStop' /\ stop' + 1 \in rejected'
      /\ start' <= stop' + 1 /\ r' = stop'
  BY <1>1, <1>2, <1>3, <1>4, <1>5, <1>6, <1>7 DEF BisectInv
<1>10. /\ InitialStart' <= start'
       /\ start' = InitialStart' \/ start' - 1 \in agreed'
       /\ \A h \in agreed' : InitialStart' <= h /\ h < start'
  BY <1>1, <1>3, <1>4 DEF BisectInv
<1>11. BisectInv'
  BY <1>9, <1>10 DEF BisectInv
<1>12. QED
  BY <1>1, <1>3, <1>8, <1>11 DEF IInv, ResultIsBoundary

\* Equal hashes, in either search.
LEMMA AgreesStep ==
    ASSUME IInv, Agrees
    PROVE  IInv'
  BY LinearAgrees, BisectAgrees DEF Agrees, Probing

\* Different hashes, in either search.
LEMMA DiffersStep ==
    ASSUME IInv, Differs
    PROVE  IInv'
<1>1. CASE pc = "linear"
  <2>1. /\ Probing /\ depth' = depth + 1 /\ rejected' = rejected \cup {Probe}
        /\ UNCHANGED <<pc, bucketHeight, bounds, start, stop, r, agreed, disturbed>>
    BY <1>1 DEF Differs, given
  <2>2. QED
    BY <1>1, <2>1, LinearStep
<1>2. CASE pc = "bisect"
  BY <1>2, BisectDiffers
<1>3. QED
  BY <1>1, <1>2 DEF Differs, Probing

-----------------------------------------------------------------------------
(***************************************************************************)
(* From one search to the other, and the end                               *)
(***************************************************************************)
\* The bisection starts with the bounds of the linear search, and with r = 0
\* (fork_finder.go 144).
LEMMA BisectionStarts ==
    ASSUME IInv, StartBisect
    PROVE  IInv'
<1>1. /\ pc = "linear" /\ pc' = "bisect"
      /\ UNCHANGED <<bucketHeight, bounds, start, stop, depth, r, agreed, rejected, disturbed>>
  BY DEF StartBisect, given, range, seen
<1>2. TypeOK'
  BY <1>1 DEF IInv, TypeOK
<1>3. Len(bounds) = 4 /\ LinearInv /\ agreed = {} /\ r = 0
  BY <1>1 DEF IInv
<1>4. InitialStart' = InitialStart /\ InitialStop' = InitialStop
  BY <1>1 DEF InitialStart, InitialStop
<1>5. InitialStart \in 1..MaxUint /\ InitialStop \in 1..MaxUint
  BY <1>3, InitialHeights
<1>6. BisectInv'
  BY <1>1, <1>3, <1>4, <1>5 DEF LinearInv, BisectInv
<1>7. QED
  BY <1>1, <1>2, <1>3, <1>6 DEF IInv, ResultIsBoundary

\* Nothing is left to search: the two ends have met, and the result is both the
\* last height of equal hashes and the one below the first of different ones
\* (fork_finder.go 162-173).
LEMMA BisectionEnds ==
    ASSUME IInv, EndBisect
    PROVE  IInv'
<1> USE EventsAssumption, CriterionAssumption
<1>1. /\ pc = "bisect" /\ start > stop
      /\ UNCHANGED <<bucketHeight, bounds, start, stop, depth, agreed, rejected, disturbed>>
  BY DEF EndBisect, given, range, seen
<1>2. Len(bounds) = 4 /\ BisectInv
  BY <1>1 DEF IInv
<1>3. InitialStart' = InitialStart /\ InitialStop' = InitialStop
  BY <1>1 DEF InitialStart, InitialStop
<1>4. InitialStart \in 1..MaxUint /\ InitialStop \in 1..MaxUint
  BY <1>2, InitialHeights
<1>5. /\ start \in 0..MaxUint + 1 /\ stop \in 0..MaxUint /\ r \in 0..MaxUint
      /\ agreed \subseteq 0..MaxUint
  BY DEF IInv, TypeOK
<1>6. \/ r = 0 /\ start = InitialStart /\ stop = InitialStop
      \/ start = stop + 1 /\ r = stop
  BY <1>1, <1>2, <1>5 DEF BisectInv
<1>7. CASE r < InitialStart
  <2>1. r' = 0 /\ pc' = "handleNone"
    BY <1>7 DEF EndBisect
  <2>2. TypeOK'
    BY <1>1, <2>1 DEF IInv, TypeOK
  <2>3. start = InitialStart
    BY <1>2, <1>4, <1>5, <1>6, <1>7 DEF BisectInv
  <2>4. agreed = {}
    BY <1>2, <1>4, <1>5, <2>3 DEF BisectInv
  <2>5. InitialStop < InitialStart \/ InitialStart \in rejected
    <3>1. CASE stop = InitialStop
      BY <1>1, <2>3, <3>1
    <3>2. CASE stop # InitialStop
      BY <1>2, <1>6, <2>3, <3>2 DEF BisectInv
    <3>3. QED
      BY <3>1, <3>2
  <2>6. ResultIsBoundary'
    BY <1>1, <1>3, <2>1, <2>4, <2>5 DEF ResultIsBoundary
  <2>7. QED
    BY <1>1, <1>2, <2>1, <2>2, <2>6 DEF IInv
<1>8. CASE ~ (r < InitialStart)
  <2>1. r' = r /\ pc' = "fetch"
    BY <1>8 DEF EndBisect
  <2>2. TypeOK'
    BY <1>1, <2>1 DEF IInv, TypeOK
  <2>3. start = stop + 1 /\ r = stop
    BY <1>4, <1>6, <1>8
  <2>4. r \in agreed
    BY <1>2, <1>4, <1>5, <1>8, <2>3 DEF BisectInv
  <2>5. \A h \in agreed : h <= r
    BY <1>2, <1>5, <2>3 DEF BisectInv
  <2>6. r = InitialStop \/ Above(r) \in rejected
    <3>1. CASE stop = InitialStop
      BY <2>3, <3>1
    <3>2. CASE stop # InitialStop
      <4>1. stop + 1 \in rejected /\ stop < InitialStop
        BY <1>2, <1>4, <1>5, <3>2 DEF BisectInv
      <4>2. Above(r) = stop + 1
        BY <1>4, <1>5, <2>3, <4>1 DEF Above
      <4>3. QED
        BY <4>1, <4>2
    <3>3. QED
      BY <3>1, <3>2
  <2>7. ResultIsBoundary'
    BY <1>1, <1>3, <2>1, <2>4, <2>5, <2>6 DEF ResultIsBoundary, Above
  <2>8. QED
    BY <1>1, <1>2, <2>1, <2>2, <2>7 DEF IInv
<1>9. QED
  BY <1>7, <1>8

\* Reading the hash to return changes nothing else (fork_finder.go 169-173).
LEMMA FetchStep ==
    ASSUME IInv, Fetch
    PROVE  IInv'
<1>1. /\ pc = "fetch" /\ pc' = "handle"
      /\ UNCHANGED <<bucketHeight, bounds, start, stop, depth, r, agreed, rejected, disturbed>>
  BY DEF Fetch, given, range, seen
<1>2. TypeOK'
  BY <1>1 DEF IInv, TypeOK
<1>3. InitialStart' = InitialStart /\ InitialStop' = InitialStop
  BY <1>1 DEF InitialStart, InitialStop
<1>4. ResultIsBoundary'
  BY <1>1, <1>3 DEF IInv, ResultIsBoundary, Above
<1>5. QED
  BY <1>1, <1>2, <1>4 DEF IInv

\* The criterion's decision ends the search (state_hash.go 162-202).
LEMMA HandleStep ==
    ASSUME IInv, Handle
    PROVE  IInv'
<1>1. /\ pc' \in {"alert", "noAlert"}
      /\ UNCHANGED <<bucketHeight, bounds, start, stop, depth, r, agreed, rejected, disturbed>>
  BY DEF Handle, given, range, seen
<1>2. TypeOK'
  BY <1>1 DEF IInv, TypeOK
<1>3. QED
  BY <1>1, <1>2 DEF IInv, ResultIsBoundary

-----------------------------------------------------------------------------
\* Every step keeps the invariant.
LEMMA SearchNext == IInv /\ [Next]_vars => IInv'
<1> SUFFICES ASSUME IInv, [Next]_vars PROVE IInv'
  OBVIOUS
<1>1. ASSUME NEW n \in Nodes, NEW s \in Events, Put(n, s) PROVE IInv'
  <2>1. disturbed' \in BOOLEAN
    BY <1>1 DEF Put
  <2>2. UNCHANGED searchVars
    BY <1>1 DEF Put
  <2>3. QED
    BY <2>1, <2>2, StorageStep
<1>2. ASSUME NEW n \in Nodes, Forget(n) PROVE IInv'
  <2>1. disturbed' \in BOOLEAN
    BY <1>2 DEF Forget
  <2>2. UNCHANGED searchVars
    BY <1>2 DEF Forget
  <2>3. QED
    BY <2>1, <2>2, StorageStep
<1>3. ASSUME NEW b \in 0..MaxUint, Begin(b) PROVE IInv'
  BY <1>3, BeginStep
<1>4. CASE Search
  <2>1. CASE NoBound \/ BisectMiss \/ FetchMiss
    BY <2>1, SkipStep DEF NoBound, BisectMiss, FetchMiss
  <2>2. QED
    BY <1>4, <2>1, BoundStep, StartStep, ReadStep, MissStep, DiffersStep, AgreesStep,
       BisectionStarts, BisectionEnds, FetchStep, HandleStep DEF Search
<1>5. CASE Rest
  BY <1>5, RestStep
<1>6. CASE UNCHANGED vars
  <2>1. UNCHANGED searchVars /\ disturbed' = disturbed
    BY <1>6 DEF vars
  <2>2. disturbed' \in BOOLEAN
    BY <2>1 DEF IInv, TypeOK
  <2>3. QED
    BY <2>1, <2>2, StorageStep
<1>7. QED
  BY <1>1, <1>2, <1>3, <1>4, <1>5, <1>6 DEF Next

\* The invariant of the search.
LEMMA SearchInvariant == Spec => []IInv
  BY SearchInit, SearchNext, PTL DEF Spec

-----------------------------------------------------------------------------
\* The variables of the search keep their types: no subtraction but the one of
\* the linear search wraps around, and start + stop does not overflow, as long
\* as heights are below half of the integers' range (fork_finder.go 92-161).
THEOREM SearchTypeCorrect == Spec => []TypeOK
<1>1. IInv => TypeOK
  BY DEF IInv
<1>2. QED
  BY <1>1, SearchInvariant, PTL

\* The search returns a boundary it has seen, or ErrNoCommonBlocks with the
\* lowest height rejected, however the storage changes meanwhile
\* (fork_finder.go 86-174).
THEOREM BoundaryCorrect == Spec => []ResultIsBoundary
<1>1. IInv => ResultIsBoundary
  BY DEF IInv
<1>2. QED
  BY <1>1, SearchInvariant, PTL

-----------------------------------------------------------------------------
(***************************************************************************)
(* What the queries find                                                   *)
(*                                                                         *)
(* They are recursive functions over the statements of a node; that such a *)
(* function exists, and what it returns, is shown by induction on sets of  *)
(* numbers.                                                                *)
(***************************************************************************)
Before == {p \in Nat \X Nat : p[1] < p[2]}

LEMMA Induction ==
  ASSUME NEW S, NEW n \in Nat, 0 \in S, \A i \in 1..n : i - 1 \in S => i \in S
  PROVE  0..n \subseteq S
<1> DEFINE U == (0..n) \ S
<1>1. U \subseteq Nat
  OBVIOUS
<1>2. IsWellFoundedOn(Before, Nat)
  BY NatLessThanWellFounded DEF OpToRel, Before
<1>3. ASSUME U # {} PROVE FALSE
  <2>1. PICK k \in U : \A j \in U : ~ (<<j, k>> \in Before)
    <3> HIDE DEF U
    <3> QED
      BY <1>1, <1>2, <1>3, WFMin
  <2>2. k \in 1..n /\ k - 1 \in 0..n
    OBVIOUS
  <2>3. <<k - 1, k>> \in Before
    BY <2>2 DEF Before
  <2>4. k - 1 \in S
    BY <2>1, <2>2, <2>3
  <2> QED
    BY <2>2, <2>4
<1> QED
  BY <1>3

\* A value for 0 and a step for every number up to n define a function.
Recursive(f, first, step, n) ==
    f = [i \in 0..n |-> IF i = 0 THEN first ELSE step[<<i, f[i - 1]>>]]

LEMMA Recursion ==
  ASSUME NEW n \in Nat, NEW V, NEW first \in V, NEW step \in [(1..n) \X V -> V]
  PROVE  \E f \in [0..n -> V] : Recursive(f, first, step, n)
<1> DEFINE S == {k \in Nat : \E f \in [0..k -> V] : Recursive(f, first, step, k)}
<1>1. 0 \in S
  <2>1. Recursive([i \in 0..0 |-> first], first, step, 0)
    BY DEF Recursive
  <2>2. [i \in 0..0 |-> first] \in [0..0 -> V]
    OBVIOUS
  <2> QED
    BY <2>1, <2>2
<1>2. ASSUME NEW i \in 1..n, i - 1 \in S
      PROVE  i \in S
  <2>1. PICK f \in [0..i - 1 -> V] : Recursive(f, first, step, i - 1)
    BY <1>2
  <2>2. i \in Nat /\ i - 1 \in 0..i - 1
    OBVIOUS
  <2>3. f[i - 1] \in V /\ step[<<i, f[i - 1]>>] \in V
    BY <2>2
  <2> DEFINE g == [j \in 0..i |-> IF j < i THEN f[j] ELSE step[<<i, f[i - 1]>>]]
  <2>4. g \in [0..i -> V]
    BY <2>2, <2>3
  <2>5. \A j \in 0..i : g[j] = IF j = 0 THEN first ELSE step[<<j, g[j - 1]>>]
    <3> SUFFICES ASSUME NEW j \in 0..i
                 PROVE  g[j] = IF j = 0 THEN first ELSE step[<<j, g[j - 1]>>]
      OBVIOUS
    <3>1. \A k \in 0..i - 1 : f[k] = IF k = 0 THEN first ELSE step[<<k, f[k - 1]>>]
      BY <2>1, <2>2 DEF Recursive
    <3>2. CASE j = i
      <4>1. g[j] = step[<<i, f[i - 1]>>] /\ g[j - 1] = f[i - 1] /\ j # 0
        BY <2>2, <3>2
      <4> QED
        BY <3>2, <4>1
    <3>3. CASE j # i
      <4>1. j \in 0..i - 1 /\ g[j] = f[j]
        BY <2>2, <3>3
      <4>2. j # 0 => g[j - 1] = f[j - 1]
        BY <2>2, <3>3
      <4> HIDE DEF g
      <4> QED
        BY <3>1, <4>1, <4>2
    <3> QED
      BY <3>2, <3>3
  <2>6. Recursive(g, first, step, i)
    <3> HIDE DEF g
    <3> QED
      BY <2>2, <2>4, <2>5 DEF Recursive
  <2> QED
    BY <2>2, <2>4, <2>6
<1>3. 0..n \subseteq S
  <2> HIDE DEF S
  <2> QED
    BY <1>1, <1>2, Induction
<1> QED
  BY <1>3

\* The scans of LatestHeight and GetFullStatementAtHeight.
LatestScan(f, s, n) ==
    f = [i \in 0..n |->
            IF i = 0 THEN 0
            ELSE IF s[i].hash # NoHash THEN s[i].height ELSE f[i - 1]]

FullScan(f, s, h, n) ==
    f = [i \in 0..n |->
            IF i = 0 \/ (s[i].height # 0 /\ s[i].height < h) THEN Unreachable
            ELSE IF s[i].height = h /\ s[i].hash # NoHash THEN s[i]
            ELSE f[i - 1]]

LatestOf(s)  == (CHOOSE f : LatestScan(f, s, Len(s)))[Len(s)]
FullOf(s, h) == (CHOOSE f : FullScan(f, s, h, Len(s)))[Len(s)]

LEMMA EventFacts ==
  ASSUME NEW e \in Events
  PROVE  /\ e.height \in 0..MaxUint
         /\ e.hash # NoHash => /\ e.height \in Heights /\ e.height \in 1..MaxUint
                               /\ e.hash \in Hashes /\ e = Complete(e.height, e.hash)
         /\ e.hash # NoHash => e # Unreachable
  BY EventsAssumption DEF Events, Unreachable, InvalidHeight, Incomplete, Complete, InvalidHeights

LEMMA LatestScanExists ==
  ASSUME NEW s \in Seq(Events)
  PROVE  \E f : LatestScan(f, s, Len(s))
<1> DEFINE n    == Len(s)
           V    == 0..MaxUint
           step == [p \in (1..n) \X V |-> IF s[p[1]].hash # NoHash THEN s[p[1]].height ELSE p[2]]
<1>1. step \in [(1..n) \X V -> V]
  BY EventFacts
<1>2. n \in Nat /\ 0 \in V
  BY EventsAssumption
<1>3. PICK f \in [0..n -> V] : Recursive(f, 0, step, n)
  <2> HIDE DEF step, V, n
  <2> QED
    BY <1>1, <1>2, Recursion
<1>4. \A i \in 1..n : f[i - 1] \in V /\ <<i, f[i - 1]>> \in (1..n) \X V
  BY <1>2
<1>5. \A i \in 1..n :
         step[<<i, f[i - 1]>>] = IF s[i].hash # NoHash THEN s[i].height ELSE f[i - 1]
  BY <1>4
<1>6. LatestScan(f, s, n)
  <2> HIDE DEF step, V, n
  <2> QED
    BY <1>2, <1>3, <1>5 DEF Recursive, LatestScan
<1> QED
  BY <1>6

LEMMA FullScanExists ==
  ASSUME NEW s \in Seq(Events), NEW h
  PROVE  \E f : FullScan(f, s, h, Len(s))
<1> DEFINE n       == Len(s)
           at(i, e) == IF s[i].height # 0 /\ s[i].height < h THEN Unreachable
                       ELSE IF s[i].height = h /\ s[i].hash # NoHash THEN s[i] ELSE e
           step    == [p \in (1..n) \X Events |-> at(p[1], p[2])]
<1>1. Unreachable \in Events /\ \A i \in 1..n : s[i] \in Events
  <2>1. Unreachable \in Events
    BY DEF Events
  <2>2. \A i \in 1..n : s[i] \in Events
    OBVIOUS
  <2> QED
    BY <2>1, <2>2
<1>2. \A i \in 1..n, e \in Events : at(i, e) \in Events
  BY <1>1
<1> HIDE DEF at
<1>3. step \in [(1..n) \X Events -> Events]
  BY <1>2
<1>4. n \in Nat
  OBVIOUS
<1>5. PICK f \in [0..n -> Events] : Recursive(f, Unreachable, step, n)
  <2> HIDE DEF step, n
  <2> QED
    BY <1>1, <1>3, <1>4, Recursion
<1>6. \A i \in 1..n : f[i - 1] \in Events /\ <<i, f[i - 1]>> \in (1..n) \X Events
  BY <1>4
<1>7. \A i \in 1..n : step[<<i, f[i - 1]>>] = at(i, f[i - 1])
  BY <1>6
<1>8. \A i \in 0..n : f[i] = IF i = 0 THEN Unreachable ELSE at(i, f[i - 1])
  <2> HIDE DEF step, n
  <2>1. \A i \in 0..n : f[i] = IF i = 0 THEN Unreachable ELSE step[<<i, f[i - 1]>>]
    BY <1>5 DEF Recursive
  <2>2. \A i \in 0..n : i # 0 => i \in 1..n
    BY <1>4
  <2> QED
    BY <1>7, <2>1, <2>2
<1>9. FullScan(f, s, h, n)
  <2> HIDE DEF step, n
  <2> QED
    BY <1>4, <1>8 DEF FullScan, at
<1> QED
  BY <1>9

\* Only a height with a state hash is found, and none above the latest: the
\* scan for a height gives up at a lower one (events.go 153-182).
LEMMA Finds ==
  ASSUME NEW s \in Seq(Events), NEW h \in 0..MaxUint
  PROVE  FullOf(s, h) # Unreachable =>
           /\ FullOf(s, h).hash # NoHash /\ h # 0 /\ h <= LatestOf(s)
           /\ \E i \in 1..Len(s) : FullOf(s, h) = s[i] /\ s[i].height = h
<1> DEFINE f     == CHOOSE g : FullScan(g, s, h, Len(s))
           l     == CHOOSE g : LatestScan(g, s, Len(s))
           ok(k) == /\ l[k] \in Nat
                    /\ f[k] # Unreachable =>
                         /\ f[k].hash # NoHash /\ h # 0 /\ h <= l[k]
                         /\ \E i \in 1..k : f[k] = s[i] /\ s[i].height = h
           S     == {k \in 0..Len(s) : ok(k)}
<1>1. FullScan(f, s, h, Len(s)) /\ LatestScan(l, s, Len(s))
  BY FullScanExists, LatestScanExists
<1>2. FullOf(s, h) = f[Len(s)] /\ LatestOf(s) = l[Len(s)]
  BY DEF FullOf, LatestOf
<1> HIDE DEF f, l
<1>3. 0 \in S
  BY <1>1 DEF FullScan, LatestScan
<1>4. ASSUME NEW k \in 1..Len(s), k - 1 \in S
      PROVE  k \in S
  <2>1. s[k] \in Events
    OBVIOUS
  <2>2. /\ s[k].height \in 0..MaxUint
        /\ s[k].hash # NoHash => s[k].height \in 1..MaxUint
    BY <2>1, EventFacts
  <2>3. f[k] = IF s[k].height # 0 /\ s[k].height < h THEN Unreachable
               ELSE IF s[k].height = h /\ s[k].hash # NoHash THEN s[k]
               ELSE f[k - 1]
    BY <1>1 DEF FullScan
  <2>4. l[k] = IF s[k].hash # NoHash THEN s[k].height ELSE l[k - 1]
    BY <1>1 DEF LatestScan
  <2>5. ok(k - 1)
    BY <1>4
  <2>6. ok(k)
    <3>1. CASE s[k].height # 0 /\ s[k].height < h
      BY <2>2, <2>3, <2>4, <2>5, <3>1, EventsAssumption
    <3>2. CASE s[k].height = h /\ s[k].hash # NoHash
      BY <2>2, <2>3, <2>4, <3>2, EventsAssumption
    <3>3. CASE ~ (s[k].height # 0 /\ s[k].height < h) /\ ~ (s[k].height = h /\ s[k].hash # NoHash)
      BY <2>2, <2>3, <2>4, <2>5, <3>3, EventsAssumption
    <3> QED
      BY <3>1, <3>2, <3>3
  <2> QED
    BY <2>6
<1>5. 0..Len(s) \subseteq S
  <2>1. Len(s) \in Nat
    OBVIOUS
  <2> HIDE DEF S
  <2> QED
    BY <1>3, <1>4, <2>1, Induction
<1>6. Len(s) \in 0..Len(s)
  OBVIOUS
<1>7. ok(Len(s))
  BY <1>5, <1>6
<1> QED
  BY <1>2, <1>7

\* The scan of EarliestHeight.
EarliestScan(f, s) ==
    f = [i \in 1..Len(s) + 1 |->
            IF i > Len(s) THEN 0
            ELSE IF s[i].hash # NoHash THEN s[i].height ELSE f[i + 1]]

EarliestOf(s) == (CHOOSE f : EarliestScan(f, s))[1]

\* The queries of the model are these functions of what is stored for a node.
LEMMA Queries ==
  ASSUME NEW n, NEW h
  PROVE  /\ EarliestHeight(n) = EarliestOf(statements[n])
         /\ EarliestHeight(n)' = EarliestOf(statements'[n])
         /\ LatestHeight(n) = LatestOf(statements[n])
         /\ LatestHeight(n)' = LatestOf(statements'[n])
         /\ GetFullStatementAtHeight(n, h) = FullOf(statements[n], h)
         /\ GetFullStatementAtHeight(n, h)' = FullOf(statements'[n], h)
<1>1. EarliestHeight(n) = EarliestOf(statements[n])
  BY Zenon DEF EarliestHeight, EarliestOf, EarliestScan
<1>2. EarliestHeight(n)' = EarliestOf(statements'[n])
  BY Zenon DEF EarliestHeight, EarliestOf, EarliestScan
<1>3. LatestHeight(n) = LatestOf(statements[n])
  BY Zenon DEF LatestHeight, LatestOf, LatestScan
<1>4. LatestHeight(n)' = LatestOf(statements'[n])
  BY Zenon DEF LatestHeight, LatestOf, LatestScan
<1>5. GetFullStatementAtHeight(n, h) = FullOf(statements[n], h)
  BY Zenon DEF GetFullStatementAtHeight, FullOf, FullScan
<1>6. GetFullStatementAtHeight(n, h)' = FullOf(statements'[n], h)
  BY Zenon DEF GetFullStatementAtHeight, FullOf, FullScan
<1> QED
  BY <1>1, <1>2, <1>3, <1>4, <1>5, <1>6

Stored == statements \in [Nodes -> Seq(Events)]

\* A node has a state hash at a height exactly if a statement is found there,
\* and then the height is not above its latest.
LEMMA HashFound ==
  ASSUME Stored, NEW n \in Nodes, NEW h \in 0..MaxUint
  PROVE  /\ FoundStatementAtHeight(n, h) <=> StateHashAtHeight(n, h) # NoHash
         /\ FoundStatementAtHeight(n, h) => h \in 1..MaxUint /\ h <= LatestHeight(n)
<1> DEFINE s == statements[n]
<1>1. s \in Seq(Events)
  BY DEF Stored
<1>2. /\ FoundStatementAtHeight(n, h) <=> FullOf(s, h) # Unreachable
      /\ StateHashAtHeight(n, h) = FullOf(s, h).hash
      /\ LatestHeight(n) = LatestOf(s)
  BY Queries DEF FoundStatementAtHeight, StateHashAtHeight
<1>3. Unreachable.hash = NoHash
  BY DEF Unreachable
<1> HIDE DEF s
<1>4. FullOf(s, h) # Unreachable => FullOf(s, h).hash # NoHash /\ h # 0 /\ h <= LatestOf(s)
  BY <1>1, Finds
<1> QED
  BY <1>2, <1>3, <1>4, EventsAssumption

\* A height is common exactly if there are equal state hashes.
LEMMA InCommon ==
  ASSUME Stored, NEW h \in 0..MaxUint
  PROVE  /\ h \in Common <=> /\ StateHashAtHeight(nodeA, h) # NoHash
                             /\ StateHashAtHeight(nodeB, h) = StateHashAtHeight(nodeA, h)
         /\ h \in Common => h <= LatestHeight(nodeA) /\ h <= LatestHeight(nodeB)
  BY HashFound, CriterionAssumption DEF Common

\* What is read from a storage that does not change.
LEMMA SameStorage ==
  ASSUME UNCHANGED statements
  PROVE  /\ \A n, h : StateHashAtHeight(n, h)' = StateHashAtHeight(n, h)
         /\ \A n, h : FoundStatementAtHeight(n, h)' <=> FoundStatementAtHeight(n, h)
         /\ \A k : Bound(k)' = Bound(k)
         /\ Common' = Common
         /\ OneFork' <=> OneFork
<1>1. \A n, h : StateHashAtHeight(n, h)' = StateHashAtHeight(n, h)
  BY Queries DEF StateHashAtHeight
<1>2. \A n, h : FoundStatementAtHeight(n, h)' <=> FoundStatementAtHeight(n, h)
  BY Queries DEF FoundStatementAtHeight
<1>3. \A k : Bound(k)' = Bound(k)
  BY Queries DEF Bound
<1>4. Common' = Common
  BY <1>1, <1>2 DEF Common
<1>5. OneFork' <=> OneFork
  BY <1>2, <1>4 DEF OneFork
<1> QED
  BY <1>1, <1>2, <1>3, <1>4, <1>5

-----------------------------------------------------------------------------
(***************************************************************************)
(* The last common height                                                  *)
(***************************************************************************)
\* As long as the storage does not change, what the search has read is what is
\* stored.
ReadInv ==
    /\ Stored
    /\ disturbed \in BOOLEAN
    /\ pc = "idle" => bounds = <<>> /\ agreed = {} /\ hashA = NoHash
    /\ hashA # NoHash => Probing \/ pc = "skipped"
    /\ ~ disturbed =>
         /\ \A k \in 1..Len(bounds) : bounds[k] = Bound(k)
         /\ hashA # NoHash /\ Probing => hashA = StateHashAtHeight(nodeA, Probe)
         /\ agreed \subseteq Common

\* No common height is above what is left to search; heights that the linear
\* search left behind may be looked at again by the bisection.
AboveInv ==
    /\ pc = "linear" => \A h \in Common : h + depth <= stop
    /\ pc = "bisect" => \A h \in Common : h <= stop
    /\ pc \in {"fetch", "handle"} => \A h \in Common : h <= r
    /\ pc = "handleNone" => Common \cap InitialStart..InitialStop = {}

LastInv == ReadInv /\ (~ disturbed /\ OneFork => AboveInv)

LEMMA LastInit == Init => LastInv
<1> SUFFICES ASSUME Init PROVE LastInv
  OBVIOUS
<1>1. Stored
  BY DEF Init, StorageInit, Stored
<1>2. pc = "idle" /\ bounds = <<>> /\ agreed = {} /\ hashA = NoHash /\ disturbed = FALSE
  BY DEF Init
<1>3. Len(bounds) = 0
  BY <1>2
<1>4. AboveInv
  BY <1>2 DEF AboveInv
<1>5. \A k \in 1..Len(bounds) : bounds[k] = Bound(k)
  BY <1>3
<1>6. agreed \subseteq Common
  BY <1>2
<1>7. ReadInv
  BY <1>1, <1>2, <1>5, <1>6 DEF ReadInv
<1> QED
  BY <1>4, <1>7 DEF LastInv

\* A change of the storage during a search disturbs it, and between two
\* searches nothing has been read.
LEMMA LastStorage ==
  ASSUME LastInv, Stored', UNCHANGED searchVars, disturbed' = (pc # "idle")
  PROVE  LastInv'
<1>1. UNCHANGED <<pc, bounds, start, stop, depth, r, hashA, agreed>>
  BY DEF searchVars, range, seen
<1>2. pc' = "idle" => bounds' = <<>> /\ agreed' = {} /\ hashA' = NoHash
  BY <1>1 DEF LastInv, ReadInv
<1>3. Probing' <=> Probing
  BY <1>1 DEF Probing, LinearGoesOn, Minus, searchDepth
<1>4. CASE pc = "idle"
  <2>1. pc' = "idle" /\ Len(bounds') = 0
    BY <1>1, <1>2, <1>4
  <2> QED
    BY <1>2, <1>4, <2>1 DEF LastInv, ReadInv, AboveInv
<1>5. CASE pc # "idle"
  <2>1. disturbed' = TRUE
    BY <1>5
  <2> QED
    BY <1>1, <1>2, <1>3, <2>1 DEF LastInv, ReadInv
<1> QED
  BY <1>4, <1>5

\* A new search has read nothing, and nothing is kept of an old one.
LEMMA LastFresh ==
  ASSUME LastInv, (\E b \in 0..MaxUint : Begin(b)) \/ Rest
  PROVE  LastInv'
<1>1. /\ pc' \in {"bounds", "idle"} /\ UNCHANGED statements
      /\ bounds' = <<>> /\ agreed' = {} /\ hashA' = NoHash /\ disturbed' = FALSE
  BY DEF Begin, Rest
<1>2. Len(bounds') = 0
  BY <1>1
<1>3. Stored'
  BY <1>1 DEF LastInv, ReadInv, Stored
<1>4. AboveInv'
  BY <1>1 DEF AboveInv
<1>5. \A k \in 1..Len(bounds') : bounds'[k] = Bound(k)'
  BY <1>2
<1>6. (agreed \subseteq Common)'
  BY <1>1
<1>7. ReadInv'
  BY <1>1, <1>3, <1>5, <1>6 DEF ReadInv
<1> QED
  BY <1>4, <1>7 DEF LastInv

\* A step of the search does not touch the storage. Unless it is the first read
\* of a probe, three facts are left to show of it: what it read of the bounds,
\* what it found equal, and that no common height has got out of reach.
LEMMA LastSearch ==
  ASSUME LastInv, UNCHANGED given, pc' # "idle",
         hashA' = NoHash \/ pc' = "skipped",
         ~ disturbed => /\ \A k \in 1..Len(bounds') : bounds'[k] = Bound(k)
                        /\ agreed' \subseteq Common,
         ~ disturbed /\ OneFork => AboveInv'
  PROVE  LastInv'
<1>1. UNCHANGED <<statements, disturbed>>
  BY DEF given
<1>2. Stored' /\ disturbed' \in BOOLEAN
  BY <1>1 DEF LastInv, ReadInv, Stored
<1>3. ~ (hashA' # NoHash /\ Probing')
  BY DEF Probing
<1>4. /\ \A k : Bound(k)' = Bound(k)
      /\ Common' = Common
      /\ OneFork' <=> OneFork
  BY <1>1, SameStorage
<1>5. ~ disturbed' => /\ \A k \in 1..Len(bounds') : bounds'[k] = Bound(k)'
                      /\ agreed' \subseteq Common'
  BY <1>1, <1>4
<1>6. ReadInv'
  BY <1>2, <1>3, <1>5 DEF ReadInv
<1> QED
  BY <1>1, <1>4, <1>6 DEF LastInv

LEMMA LastReadBound ==
  ASSUME LastInv, IInv, ReadBound
  PROVE  LastInv'
<1>1. /\ pc = "bounds" /\ pc' = "bounds" /\ UNCHANGED given
      /\ hashA' = hashA /\ agreed' = agreed
      /\ bounds' = Append(bounds, Bound(Len(bounds) + 1))
  BY DEF ReadBound, seen
<1>2. hashA' = NoHash
  BY <1>1 DEF LastInv, ReadInv, Probing
<1>3. bounds \in Seq(Heights)
  BY DEF IInv, TypeOK
<1>4. ~ disturbed => /\ \A k \in 1..Len(bounds) : bounds[k] = Bound(k)
                     /\ agreed \subseteq Common
  BY DEF LastInv, ReadInv
<1>5. ASSUME ~ disturbed, NEW k \in 1..Len(bounds')
      PROVE  bounds'[k] = Bound(k)
  <2> DEFINE B == Bound(Len(bounds) + 1)
  <2>1. B \in Heights /\ bounds' = Append(bounds, B)
    BY <1>1 DEF ReadBound
  <2> HIDE DEF B
  <2>2. /\ k \in 1..Len(bounds) => bounds'[k] = bounds[k]
        /\ k \notin 1..Len(bounds) => k = Len(bounds) + 1 /\ bounds'[k] = B
    BY <1>3, <2>1
  <2> QED
    BY <1>4, <1>5, <2>2 DEF B
<1>6. AboveInv'
  BY <1>1 DEF AboveInv
<1> QED
  BY <1>1, <1>2, <1>4, <1>5, <1>6, LastSearch

\* A search that is given up has nothing to answer for.
LEMMA LastSkip ==
  ASSUME LastInv, NoFullStatement
  PROVE  LastInv'
<1>1. /\ pc' = "skipped" /\ UNCHANGED given /\ bounds' = bounds /\ agreed' = agreed
  BY DEF NoFullStatement, range, seen
<1>2. ~ disturbed => /\ \A k \in 1..Len(bounds) : bounds[k] = Bound(k)
                     /\ agreed \subseteq Common
  BY DEF LastInv, ReadInv
<1>3. AboveInv'
  BY <1>1 DEF AboveInv
<1> QED
  BY <1>1, <1>2, <1>3, LastSearch

\* The search starts below the latest heights of both nodes.
LEMMA LastStart ==
  ASSUME LastInv, IInv, StartLinear
  PROVE  LastInv'
<1>1. /\ pc = "bounds" /\ pc' = "linear" /\ UNCHANGED given /\ Len(bounds) = 4
      /\ bounds' = bounds /\ hashA' = hashA /\ agreed' = agreed
      /\ stop' = InitialStop /\ depth' = 0
  BY DEF StartLinear, seen
<1>2. hashA' = NoHash
  BY <1>1 DEF LastInv, ReadInv, Probing
<1>3. ~ disturbed => /\ \A k \in 1..Len(bounds) : bounds[k] = Bound(k)
                     /\ agreed \subseteq Common
  BY DEF LastInv, ReadInv
<1>4. Common' = Common /\ Stored
  BY <1>1, SameStorage DEF given, LastInv, ReadInv
<1>5. ASSUME ~ disturbed, NEW h \in Common
      PROVE  h + 0 <= InitialStop
  <2>1. bounds[3] = LatestHeight(nodeA) /\ bounds[4] = LatestHeight(nodeB)
    <3>1. 3 \in 1..Len(bounds) /\ 4 \in 1..Len(bounds)
      BY <1>1
    <3>2. bounds[3] = Bound(3) /\ bounds[4] = Bound(4)
      BY <1>3, <1>5, <3>1
    <3> QED
      BY <3>2 DEF Bound
  <2>2. h \in 1..MaxUint /\ h <= bounds[3] /\ h <= bounds[4]
    <3>1. h \in 1..MaxUint
      BY DEF Common
    <3> QED
      BY <1>4, <2>1, <3>1, InCommon, EventsAssumption
  <2>3. InitialStop = bounds[3] \/ InitialStop = bounds[4]
    BY DEF InitialStop, Smaller
  <2> QED
    BY <2>2, <2>3, EventsAssumption
<1>6. ~ disturbed => AboveInv'
  BY <1>1, <1>4, <1>5 DEF AboveInv
<1> QED
  BY <1>1, <1>2, <1>3, <1>6, LastSearch

\* The first read of a probe.
LEMMA LastReadA ==
  ASSUME LastInv, IInv, ReadA
  PROVE  LastInv'
<1>1. /\ Probing /\ hashA' = StateHashAtHeight(nodeA, Probe)
      /\ UNCHANGED <<statements, disturbed, pc, bounds, start, stop, depth, r, agreed>>
  BY DEF ReadA, given, range
<1>2. Probing' /\ pc # "idle"
  BY <1>1 DEF Probing, LinearGoesOn, Minus, searchDepth
<1>3. Probe' = Probe
  BY <1>1 DEF Probe, Minus
<1>4. /\ \A k : Bound(k)' = Bound(k)
      /\ Common' = Common
      /\ OneFork' <=> OneFork
      /\ \A n, h : StateHashAtHeight(n, h)' = StateHashAtHeight(n, h)
  BY <1>1, SameStorage
<1>5. hashA' = StateHashAtHeight(nodeA, Probe)'
  BY <1>1, <1>3, <1>4
<1>6. ReadInv'
  BY <1>1, <1>2, <1>4, <1>5 DEF LastInv, ReadInv, Stored
<1>7. ~ disturbed /\ OneFork => AboveInv'
  BY <1>1, <1>4 DEF LastInv, AboveInv, InitialStart, InitialStop
<1> QED
  BY <1>1, <1>4, <1>6, <1>7 DEF LastInv

\* What a probe has compared: the height is common if the hashes are equal, and
\* not if they differ or one is missing.
LEMMA ProbeCompares ==
  ASSUME LastInv, IInv, Probing, ~ disturbed
  PROVE  /\ Probe \in 0..MaxUint
         /\ hashA # NoHash => (Probe \in Common <=> StateHashAtHeight(nodeB, Probe) = hashA)
         /\ hashA = NoHash /\ StateHashAtHeight(nodeA, Probe) = NoHash => Probe \notin Common
         /\ hashA # NoHash => FoundStatementAtHeight(nodeA, Probe) /\ Probe \in 1..MaxUint
         /\ StateHashAtHeight(nodeB, Probe) # NoHash => FoundStatementAtHeight(nodeB, Probe)
<1> DEFINE p == Probe
<1>1. p \in 0..MaxUint
  BY ProbeHeight
<1>2. Stored /\ (hashA # NoHash => hashA = StateHashAtHeight(nodeA, p))
  BY DEF LastInv, ReadInv
<1> HIDE DEF p
<1>3. p \in Common <=> /\ StateHashAtHeight(nodeA, p) # NoHash
                       /\ StateHashAtHeight(nodeB, p) = StateHashAtHeight(nodeA, p)
  BY <1>1, <1>2, InCommon
<1>4. \A n \in {nodeA, nodeB} :
         /\ FoundStatementAtHeight(n, p) <=> StateHashAtHeight(n, p) # NoHash
         /\ FoundStatementAtHeight(n, p) => p \in 1..MaxUint
  BY <1>1, <1>2, HashFound, CriterionAssumption
<1>5. /\ p \in 0..MaxUint
      /\ hashA # NoHash => (p \in Common <=> StateHashAtHeight(nodeB, p) = hashA)
      /\ hashA = NoHash /\ StateHashAtHeight(nodeA, p) = NoHash => p \notin Common
      /\ hashA # NoHash => FoundStatementAtHeight(nodeA, p) /\ p \in 1..MaxUint
      /\ StateHashAtHeight(nodeB, p) # NoHash => FoundStatementAtHeight(nodeB, p)
  BY <1>1, <1>2, <1>3, <1>4
<1> QED
  BY <1>5 DEF p

\* The linear search leaves a height behind that is not common.
LEMMA LastLinear ==
  ASSUME LastInv, IInv, pc = "linear", Probing, ~ disturbed => Probe \notin Common,
         UNCHANGED <<given, pc, bounds, stop, agreed>>,
         depth' = depth + 1, hashA' = NoHash
  PROVE  LastInv'
<1>1. ~ disturbed => /\ \A k \in 1..Len(bounds) : bounds[k] = Bound(k)
                     /\ agreed \subseteq Common
  BY DEF LastInv, ReadInv
<1>2. Common' = Common
  BY SameStorage DEF given
<1>3. ASSUME ~ disturbed, OneFork, NEW h \in Common
      PROVE  h + depth' <= stop'
  <2>1. h + depth <= stop /\ h \in 1..MaxUint
    BY <1>3 DEF LastInv, AboveInv, Common
  <2>2. depth \in Nat /\ stop \in Nat /\ stop <= MaxUint
    BY EventsAssumption, CriterionAssumption DEF IInv, TypeOK, searchDepth
  <2>3. h # Minus(stop, depth)
    BY <1>3 DEF Probe
  <2>4. Minus(stop, depth) = stop - depth
    BY <2>1, <2>2, EventsAssumption DEF Minus
  <2> QED
    BY <2>1, <2>2, <2>3, <2>4, EventsAssumption
<1>4. ~ disturbed /\ OneFork => AboveInv'
  BY <1>2, <1>3 DEF AboveInv
<1> QED
  BY <1>1, <1>4, LastSearch

LEMMA LastLinearMiss ==
  ASSUME LastInv, IInv, LinearMiss
  PROVE  LastInv'
<1>1. /\ pc = "linear" /\ Probing /\ NoneAtProbe
      /\ UNCHANGED <<given, pc, bounds, stop, agreed>>
      /\ depth' = depth + 1 /\ hashA' = NoHash
  BY DEF LinearMiss, NoneAtProbe
<1>2. ~ disturbed => Probe \notin Common
  BY <1>1, ProbeCompares DEF NoneAtProbe
<1> QED
  BY <1>1, <1>2, LastLinear

\* Equal hashes: in the linear search every common height above was left
\* behind, and the bisection goes on above.
LEMMA LastAgrees ==
  ASSUME LastInv, IInv, Agrees
  PROVE  LastInv'
<1>1. /\ Probing /\ hashA # NoHash /\ StateHashAtHeight(nodeB, Probe) = hashA
      /\ UNCHANGED <<given, bounds, stop, depth>>
      /\ agreed' = agreed \cup {Probe} /\ hashA' = NoHash /\ r' = Probe
  BY DEF Agrees
<1>2. pc' = IF pc = "linear" THEN "fetch" ELSE pc
  BY DEF Agrees
<1>3. pc \in {"linear", "bisect"}
  BY <1>1 DEF Probing
<1>4. ~ disturbed => Probe \in Common
  BY <1>1, ProbeCompares
<1>5. ~ disturbed => /\ \A k \in 1..Len(bounds') : bounds'[k] = Bound(k)
                     /\ agreed' \subseteq Common
  BY <1>1, <1>4 DEF LastInv, ReadInv
<1>6. Common' = Common
  BY <1>1, SameStorage DEF given
<1>7. ASSUME pc = "linear", ~ disturbed, OneFork, NEW h \in Common
      PROVE  h <= Probe
  <2>1. h + depth <= stop /\ h \in 1..MaxUint
    BY <1>7 DEF LastInv, AboveInv, Common
  <2>2. depth \in Nat /\ stop \in Nat
    BY EventsAssumption, CriterionAssumption DEF IInv, TypeOK, searchDepth
  <2>3. Probe = stop - depth
    BY <1>7, <2>1, <2>2, EventsAssumption DEF Probe, Minus
  <2> QED
    BY <2>1, <2>2, <2>3, EventsAssumption
<1>8. ~ disturbed /\ OneFork => AboveInv'
  <2>1. CASE pc = "linear"
    BY <1>1, <1>2, <1>6, <1>7, <2>1 DEF AboveInv
  <2>2. CASE pc = "bisect"
    BY <1>1, <1>2, <1>6, <2>2 DEF LastInv, AboveInv
  <2> QED
    BY <1>3, <2>1, <2>2
<1>9. pc' # "idle"
  BY <1>2, <1>3
<1> QED
  BY <1>1, <1>5, <1>8, <1>9, LastSearch

\* Different hashes: with one fork there is no common height above.
LEMMA LastDiffers ==
  ASSUME LastInv, IInv, Differs
  PROVE  LastInv'
<1>1. /\ Probing /\ hashA # NoHash
      /\ StateHashAtHeight(nodeB, Probe) # NoHash /\ StateHashAtHeight(nodeB, Probe) # hashA
      /\ UNCHANGED <<given, pc, bounds, start, agreed>> /\ hashA' = NoHash
  BY DEF Differs
<1>2. ~ disturbed => Probe \notin Common
  BY <1>1, ProbeCompares
<1>3. CASE pc = "linear"
  <2>1. depth' = depth + 1 /\ stop' = stop
    BY <1>3 DEF Differs
  <2> QED
    BY <1>1, <1>2, <1>3, <2>1, LastLinear
<1>4. CASE pc = "bisect"
  <2>1. stop' = Probe - 1
    BY <1>4 DEF Differs
  <2>2. ASSUME ~ disturbed, OneFork, NEW h \in Common
        PROVE  h <= Probe - 1
    <3> DEFINE p == Probe
    <3>1. /\ p \in 1..MaxUint /\ p \notin Common
          /\ FoundStatementAtHeight(nodeA, p) /\ FoundStatementAtHeight(nodeB, p)
      BY <1>1, <1>2, <2>2, ProbeCompares
    <3> HIDE DEF p
    <3>2. h \in 1..MaxUint
      BY DEF Common
    <3>3. p \notin 1..h
      BY <2>2, <3>1 DEF OneFork
    <3>4. h <= p - 1
      BY <3>1, <3>2, <3>3, EventsAssumption
    <3> QED
      BY <3>4 DEF p
  <2>3. Common' = Common
    BY <1>1, SameStorage DEF given
  <2>4. ~ disturbed /\ OneFork => AboveInv'
    BY <1>1, <1>4, <2>1, <2>2, <2>3 DEF AboveInv
  <2>5. ~ disturbed => /\ \A k \in 1..Len(bounds) : bounds[k] = Bound(k)
                       /\ agreed \subseteq Common
    BY DEF LastInv, ReadInv
  <2> QED
    BY <1>1, <1>4, <2>4, <2>5, LastSearch
<1> QED
  BY <1>1, <1>3, <1>4 DEF Probing

\* The bisection starts with what the linear search started with.
LEMMA LastStartBisect ==
  ASSUME LastInv, IInv, StartBisect
  PROVE  LastInv'
<1>1. /\ pc = "linear" /\ ~ LinearGoesOn /\ pc' = "bisect"
      /\ UNCHANGED <<given, bounds, stop, agreed, hashA>>
  BY DEF StartBisect, range, seen
<1>2. hashA' = NoHash
  BY <1>1 DEF LastInv, ReadInv, Probing
<1>3. ~ disturbed => /\ \A k \in 1..Len(bounds) : bounds[k] = Bound(k)
                     /\ agreed \subseteq Common
  BY DEF LastInv, ReadInv
<1>4. Common' = Common
  BY <1>1, SameStorage DEF given
<1>5. ASSUME ~ disturbed, OneFork, NEW h \in Common
      PROVE  h <= stop
  <2>1. h + depth <= stop /\ h \in 1..MaxUint
    BY <1>1, <1>5 DEF LastInv, AboveInv, Common
  <2>2. depth \in Nat /\ stop \in Nat
    BY EventsAssumption, CriterionAssumption DEF IInv, TypeOK, searchDepth
  <2> QED
    BY <2>1, <2>2, EventsAssumption
<1>6. ~ disturbed /\ OneFork => AboveInv'
  BY <1>1, <1>4, <1>5 DEF AboveInv
<1> QED
  BY <1>1, <1>2, <1>3, <1>6, LastSearch

\* The result is what the bisection has left to search: nothing above it is
\* common.
LEMMA LastEndBisect ==
  ASSUME LastInv, IInv, EndBisect
  PROVE  LastInv'
<1>1. /\ pc = "bisect" /\ start > stop /\ pc' \in {"handleNone", "fetch"}
      /\ UNCHANGED <<given, bounds, stop, agreed, hashA>>
  BY DEF EndBisect, range, seen
<1>2. hashA' = NoHash
  <2>1. start \in Nat /\ stop \in Nat
    BY EventsAssumption DEF IInv, TypeOK
  <2>2. ~ Probing
    BY <1>1, <2>1 DEF Probing
  <2> QED
    BY <1>1, <2>2 DEF LastInv, ReadInv
<1>3. ~ disturbed => /\ \A k \in 1..Len(bounds) : bounds[k] = Bound(k)
                     /\ agreed \subseteq Common
  BY DEF LastInv, ReadInv
<1>4. Common' = Common /\ InitialStart' = InitialStart /\ InitialStop' = InitialStop
  BY <1>1, SameStorage DEF given, InitialStart, InitialStop
<1>5. BisectInv /\ Len(bounds) = 4
  BY <1>1 DEF IInv
<1>6. InitialStart \in 1..MaxUint /\ InitialStop \in 1..MaxUint
  BY <1>5, InitialHeights
<1>7. start \in 0..MaxUint + 1 /\ stop \in 0..MaxUint /\ r \in 0..MaxUint
  BY DEF IInv, TypeOK
<1>8. \/ r = 0 /\ start = InitialStart /\ stop = InitialStop
      \/ start = stop + 1 /\ r = stop
  BY <1>1, <1>5, <1>7, EventsAssumption DEF BisectInv
<1>9. \A h \in Common : h \in 1..MaxUint
  BY DEF Common
<1>10. ASSUME ~ disturbed, OneFork
       PROVE  AboveInv'
  <2>1. \A h \in Common : h <= stop
    BY <1>1, <1>10 DEF LastInv, AboveInv
  <2>2. CASE r < InitialStart
    <3>1. pc' = "handleNone"
      BY <2>2 DEF EndBisect
    <3>2. stop < InitialStart
      BY <1>1, <1>6, <1>7, <1>8, <2>2, EventsAssumption
    <3>3. Common \cap InitialStart..InitialStop = {}
      BY <1>6, <1>7, <1>9, <2>1, <3>2, EventsAssumption
    <3> QED
      BY <1>4, <3>1, <3>3 DEF AboveInv
  <2>3. CASE ~ (r < InitialStart)
    <3>1. pc' = "fetch" /\ r' = r
      BY <2>3 DEF EndBisect
    <3>2. r = stop
      BY <1>6, <1>8, <2>3, EventsAssumption
    <3> QED
      BY <1>4, <2>1, <3>1, <3>2 DEF AboveInv
  <2> QED
    BY <2>2, <2>3
<1> QED
  BY <1>1, <1>2, <1>3, <1>10, LastSearch

\* The last read, and the decision, leave the result as it is.
LEMMA LastReturns ==
  ASSUME LastInv, IInv, Fetch \/ Handle
  PROVE  LastInv'
<1>1. /\ pc \in {"fetch", "handle", "handleNone"} /\ pc' \in {"handle", "alert", "noAlert"}
      /\ pc' = "handle" => pc = "fetch"
      /\ UNCHANGED <<given, bounds, r, agreed, hashA>>
  BY DEF Fetch, Handle, range, seen
<1>2. hashA' = NoHash
  BY <1>1 DEF LastInv, ReadInv, Probing
<1>3. ~ disturbed => /\ \A k \in 1..Len(bounds) : bounds[k] = Bound(k)
                     /\ agreed \subseteq Common
  BY DEF LastInv, ReadInv
<1>4. Common' = Common
  BY <1>1, SameStorage DEF given
<1>5. ~ disturbed /\ OneFork => AboveInv'
  BY <1>1, <1>4 DEF LastInv, AboveInv
<1>6. pc' # "idle"
  BY <1>1
<1> QED
  BY <1>1, <1>2, <1>3, <1>5, <1>6, LastSearch

LEMMA LastNext == IInv /\ LastInv /\ [Next]_vars => LastInv'
<1> SUFFICES ASSUME IInv, LastInv, [Next]_vars PROVE LastInv'
  OBVIOUS
<1>1. ASSUME NEW n \in Nodes, NEW s \in Events, Put(n, s)
      PROVE  LastInv'
  <2>1. Stored'
    BY <1>1 DEF Put, PutEvent, Stored, LastInv, ReadInv
  <2>2. UNCHANGED searchVars /\ disturbed' = (pc # "idle")
    BY <1>1 DEF Put
  <2> QED
    BY <2>1, <2>2, LastStorage
<1>2. ASSUME NEW n \in Nodes, Forget(n)
      PROVE  LastInv'
  <2>1. Stored /\ statements[n] \in Seq(Events) /\ statements[n] # <<>>
    BY <1>2 DEF Forget, Expire, Stored, LastInv, ReadInv
  <2>2. Tail(statements[n]) \in Seq(Events)
    BY <2>1
  <2>3. Stored'
    BY <1>2, <2>1, <2>2 DEF Forget, Expire, Stored
  <2>4. UNCHANGED searchVars /\ disturbed' = (pc # "idle")
    BY <1>2 DEF Forget
  <2> QED
    BY <2>3, <2>4, LastStorage
<1>3. CASE (\E b \in 0..MaxUint : Begin(b)) \/ Rest
  BY <1>3, LastFresh
<1>4. CASE Search
  <2>1. CASE NoBound \/ BisectMiss \/ FetchMiss
    BY <2>1, LastSkip DEF NoBound, BisectMiss, FetchMiss
  <2> QED
    BY <1>4, <2>1, LastReadBound, LastStart, LastReadA, LastLinearMiss, LastDiffers,
       LastAgrees, LastStartBisect, LastEndBisect, LastReturns DEF Search
<1>5. CASE UNCHANGED vars
  <2>1. UNCHANGED <<statements, disturbed, pc, bounds, start, stop, depth, r, hashA, agreed>>
    BY <1>5 DEF vars, searchVars, range, seen
  <2>2. /\ \A k : Bound(k)' = Bound(k)
        /\ Common' = Common
        /\ OneFork' <=> OneFork
        /\ \A n, h : StateHashAtHeight(n, h)' = StateHashAtHeight(n, h)
    BY <2>1, SameStorage
  <2>3. Probe' = Probe /\ (Probing' <=> Probing)
    BY <2>1 DEF Probe, Probing, LinearGoesOn, Minus, searchDepth
  <2>4. hashA # NoHash /\ Probing /\ ~ disturbed => hashA' = StateHashAtHeight(nodeA, Probe)'
    BY <2>1, <2>2, <2>3 DEF LastInv, ReadInv
  <2>5. ReadInv'
    BY <2>1, <2>2, <2>3, <2>4 DEF LastInv, ReadInv, Stored
  <2>6. ~ disturbed /\ OneFork => AboveInv'
    BY <2>1, <2>2 DEF LastInv, AboveInv, InitialStart, InitialStop
  <2> QED
    BY <2>1, <2>2, <2>5, <2>6 DEF LastInv
<1> QED
  BY <1>1, <1>2, <1>3, <1>4, <1>5 DEF Next

\* For any heights, any gaps in what the nodes reported and any depths, a
\* search that nothing disturbs returns the last height on record at which two
\* nodes that left each other once agree, and finds none only if there is none
\* within its bounds (fork_finder.go 86-174).
THEOREM LastCommonIsFound == Spec => []LastCommonFound
<1>1. IInv /\ LastInv => LastCommonFound
  <2> SUFFICES ASSUME IInv, LastInv, ~ disturbed, OneFork
               PROVE  /\ pc = "handle" => r \in Common /\ \A h \in Common : h <= r
                      /\ pc = "handleNone" => Common \cap InitialStart..InitialStop = {}
    BY DEF LastCommonFound
  <2>1. AboveInv /\ agreed \subseteq Common
    BY DEF LastInv, ReadInv
  <2>2. pc = "handle" => r \in agreed
    BY DEF IInv, ResultIsBoundary
  <2> QED
    BY <2>1, <2>2 DEF AboveInv
<1>2. IInv /\ LastInv /\ [Next]_vars => LastInv'
  BY LastNext
<1> QED
  BY <1>1, <1>2, LastInit, SearchInvariant, PTL DEF Spec

-----------------------------------------------------------------------------
(***************************************************************************)
(* No deep fork is missed                                                  *)
(***************************************************************************)
\* What the nodes say: nodeA is on branch x, and nodeB on branch y above the
\* fork.
OnBranch(e, n, f) == e.hash # NoHash => e.hash = IF n = nodeB /\ e.height > f THEN y ELSE x

Branches ==
    \A n \in {nodeA, nodeB} : \A i \in 1..Len(statements[n]) : OnBranch(statements[n][i], n, fork)

\* Whatever the search has found equal was below the fork.
ForkInv ==
    /\ Stored /\ Branches
    /\ fork \in {0} \cup Heights
    /\ hashA \in {NoHash, x}
    /\ \A h \in agreed : h <= fork
    /\ pc = "handleNone" => r = 0
    /\ DeepForkNotMissed

LEMMA HashIs ==
  ASSUME Stored, Branches, NEW n \in {nodeA, nodeB}, NEW h \in 0..MaxUint
  PROVE  StateHashAtHeight(n, h) \in {NoHash, IF n = nodeB /\ h > fork THEN y ELSE x}
<1> DEFINE s == statements[n]
<1>1. s \in Seq(Events)
  BY CriterionAssumption DEF Stored
<1>2. \A i \in 1..Len(s) : OnBranch(s[i], n, fork)
  BY DEF Branches
<1>3. StateHashAtHeight(n, h) = FullOf(s, h).hash
  BY Queries DEF StateHashAtHeight
<1> HIDE DEF s
<1>4. CASE FullOf(s, h) = Unreachable
  BY <1>3, <1>4 DEF Unreachable
<1>5. CASE FullOf(s, h) # Unreachable
  <2>1. PICK i \in 1..Len(s) : FullOf(s, h) = s[i] /\ s[i].height = h
    BY <1>1, <1>5, Finds
  <2> QED
    BY <1>2, <1>3, <2>1 DEF OnBranch
<1> QED
  BY <1>4, <1>5

LEMMA ForkInit == MCInit => ForkInv
<1> SUFFICES ASSUME MCInit PROVE ForkInv
  OBVIOUS
<1>1. statements = [n \in Nodes |-> <<>>]
  BY DEF MCInit, Init, StorageInit
<1>2. Stored
  BY <1>1 DEF Stored
<1>3. \A n \in {nodeA, nodeB} : Len(statements[n]) = 0
  BY <1>1, CriterionAssumption
<1>4. Branches
  BY <1>3 DEF Branches
<1>5. pc = "idle" /\ agreed = {} /\ hashA = NoHash /\ fork \in {0} \cup Heights
  BY DEF MCInit, Init
<1> QED
  BY <1>2, <1>4, <1>5 DEF ForkInv, DeepForkNotMissed

LEMMA ForkStorage ==
  ASSUME ForkInv, (Stored /\ Branches)', fork' = fork, UNCHANGED searchVars
  PROVE  ForkInv'
<1>1. UNCHANGED <<pc, bucketHeight, r, hashA, agreed>>
  BY DEF searchVars, range, seen
<1> QED
  BY <1>1 DEF ForkInv, DeepForkNotMissed, IsDeep

LEMMA ForkPut ==
  ASSUME ForkInv, NEW n \in Nodes, MCPut(n)
  PROVE  ForkInv'
<1>1. PICK e \in Answers(n) : Put(n, e)
  BY DEF MCPut
<1>2. fork' = fork /\ UNCHANGED searchVars
  BY <1>1 DEF MCPut, Put
<1>3. e \in Events /\ (n \in {nodeA, nodeB} => OnBranch(e, n, fork))
  <2>1. CASE e = Unreachable
    BY <2>1 DEF Events, OnBranch, Unreachable
  <2>2. CASE e # Unreachable
    <3>1. PICK h \in NextHeights(n) : e = Complete(h, IF n = nodeB /\ h > fork THEN y ELSE x)
      BY <1>1, <2>2 DEF Answers
    <3>2. h \in Heights
      BY <3>1 DEF NextHeights
    <3>3. e.height = h /\ e.hash = IF n = nodeB /\ h > fork THEN y ELSE x
      BY <3>1 DEF Complete
    <3>4. e \in Events
      BY <3>1, <3>2, BranchesAssumption DEF Events
    <3> QED
      BY <3>3, <3>4 DEF OnBranch
  <2> QED
    BY <2>1, <2>2
<1>4. statements[n] \in Seq(Events) /\ Stored
  BY DEF ForkInv, Stored
<1>5. statements' = [statements EXCEPT ![n] = Append(@, e)]
  BY <1>1 DEF Put, PutEvent
<1>6. Stored'
  BY <1>3, <1>4, <1>5 DEF Stored
<1>7. Branches'
  <2> SUFFICES ASSUME NEW m \in {nodeA, nodeB}, NEW i \in 1..Len(statements'[m])
               PROVE  OnBranch(statements'[m][i], m, fork')
    BY Zenon DEF Branches
  <2>1. m \in Nodes /\ statements[m] \in Seq(Events)
    BY <1>4, CriterionAssumption DEF Stored
  <2>2. \/ statements'[m][i] = e /\ m = n
        \/ i \in 1..Len(statements[m]) /\ statements'[m][i] = statements[m][i]
    <3>1. CASE m = n
      <4>1. statements'[m] = Append(statements[m], e)
        BY <1>4, <1>5, <2>1, <3>1 DEF Stored
      <4> QED
        BY <1>3, <2>1, <3>1, <4>1
    <3>2. CASE m # n
      BY <1>5, <2>1, <3>2
    <3> QED
      BY <3>1, <3>2
  <2> QED
    BY <1>2, <1>3, <2>2 DEF OnBranch, ForkInv, Branches
<1> QED
  BY <1>2, <1>6, <1>7, ForkStorage

LEMMA ForkForget ==
  ASSUME ForkInv, NEW n \in Nodes, MCForget(n)
  PROVE  ForkInv'
<1>1. fork' = fork /\ UNCHANGED searchVars
  BY DEF MCForget, Forget
<1>2. statements[n] # <<>> /\ statements' = [statements EXCEPT ![n] = Tail(@)]
  BY DEF MCForget, Forget, Expire
<1>3. statements[n] \in Seq(Events) /\ Stored
  BY DEF ForkInv, Stored
<1>4. Tail(statements[n]) \in Seq(Events)
  BY <1>2, <1>3
<1>5. Stored'
  BY <1>2, <1>3, <1>4 DEF Stored
<1>6. Branches'
  <2> SUFFICES ASSUME NEW m \in {nodeA, nodeB}, NEW i \in 1..Len(statements'[m])
               PROVE  OnBranch(statements'[m][i], m, fork')
    BY Zenon DEF Branches
  <2>1. m \in Nodes /\ statements[m] \in Seq(Events)
    BY <1>3, CriterionAssumption DEF Stored
  <2>2. \E j \in 1..Len(statements[m]) : statements'[m][i] = statements[m][j]
    <3>1. CASE m = n
      <4>1. statements'[m] = Tail(statements[m])
        BY <1>2, <1>3, <2>1, <3>1 DEF Stored
      <4> DEFINE s == statements[m]
      <4>2. s \in Seq(Events) /\ s # <<>> /\ i \in 1..Len(Tail(s))
        BY <1>2, <2>1, <3>1, <4>1
      <4>3. i + 1 \in 1..Len(s) /\ Tail(s)[i] = s[i + 1]
        <5> HIDE DEF s
        <5> QED
          BY <4>2
      <4> QED
        BY <4>1, <4>3
    <3>2. CASE m # n
      BY <1>2, <2>1, <3>2
    <3> QED
      BY <3>1, <3>2
  <2> QED
    BY <1>1, <2>2 DEF OnBranch, ForkInv, Branches
<1> QED
  BY <1>1, <1>5, <1>6, ForkStorage

\* Equal hashes are those of branch x, and so below the fork.
LEMMA ForkAgrees ==
  ASSUME ForkInv, IInv, Agrees
  PROVE  Probe <= fork
<1> DEFINE p == Probe
<1>1. p \in 0..MaxUint /\ hashA = x /\ StateHashAtHeight(nodeB, p) = x
  BY ProbeHeight DEF Agrees, ForkInv
<1> HIDE DEF p
<1>2. StateHashAtHeight(nodeB, p) \in {NoHash, IF p > fork THEN y ELSE x}
  BY <1>1, HashIs DEF ForkInv
<1>3. fork \in Nat
  BY EventsAssumption DEF ForkInv
<1>4. p <= fork
  BY <1>1, <1>2, <1>3, BranchesAssumption, EventsAssumption
<1> QED
  BY <1>4 DEF p

LEMMA ForkSearch ==
  ASSUME ForkInv, IInv, Search, fork' = fork
  PROVE  ForkInv'
<1>1. UNCHANGED <<statements, bucketHeight>>
  BY DEF Search, ReadBound, NoBound, NoFullStatement, StartLinear, ReadA, LinearMiss,
         BisectMiss, Differs, Agrees, StartBisect, EndBisect, Fetch, FetchMiss, Handle, given
<1>2. Stored' /\ Branches'
  BY <1>1 DEF ForkInv, Stored, Branches, OnBranch
<1>3. hashA' \in {NoHash, x}
  <2>1. CASE ReadA
    <3> DEFINE p == Probe
    <3>1. p \in 0..MaxUint /\ hashA' = StateHashAtHeight(nodeA, p)
      BY <2>1, ProbeHeight DEF ReadA
    <3> HIDE DEF p
    <3> QED
      BY <3>1, HashIs, BranchesAssumption DEF ForkInv
  <2>2. CASE ~ ReadA
    <3>1. hashA' \in {NoHash, hashA}
      BY <2>2 DEF Search, ReadBound, NoBound, NoFullStatement, StartLinear, LinearMiss,
         BisectMiss, Differs, Agrees, StartBisect, EndBisect, Fetch, FetchMiss, Handle, seen
    <3> QED
      BY <3>1 DEF ForkInv
  <2> QED
    BY <2>1, <2>2
<1>4. \A h \in agreed' : h <= fork
  <2>1. CASE Agrees
    <3>1. agreed' = agreed \cup {Probe}
      BY <2>1 DEF Agrees
    <3> QED
      BY <2>1, <3>1, ForkAgrees DEF ForkInv
  <2>2. CASE ~ Agrees
    <3>1. agreed' = agreed
      BY <2>2 DEF Search, ReadBound, NoBound, NoFullStatement, StartLinear, ReadA, LinearMiss,
         BisectMiss, Differs, StartBisect, EndBisect, Fetch, FetchMiss, Handle, seen
    <3> QED
      BY <3>1 DEF ForkInv
  <2> QED
    BY <2>1, <2>2
<1>5. pc' = "handleNone" => r' = 0
  BY DEF Search, ReadBound, NoBound, NoFullStatement, StartLinear, ReadA, LinearMiss,
         BisectMiss, Differs, Agrees, StartBisect, EndBisect, Fetch, FetchMiss, Handle, Probing
<1>6. DeepForkNotMissed'
  <2>1. CASE Handle
    <3>1. pc \in {"handle", "handleNone"} /\ (pc' = "noAlert" => ~ IsDeep(bucketHeight - r))
      BY <2>1 DEF Handle, ForkDepth
    <3>2. /\ r \in 0..MaxUint /\ bucketHeight \in 0..MaxUint /\ fork \in Nat
      BY EventsAssumption DEF IInv, TypeOK, ForkInv
    <3>3. r <= fork
      BY <3>1, <3>2, EventsAssumption DEF IInv, ResultIsBoundary, ForkInv
    <3>4. ~ IsDeep(bucketHeight - r) => ~ IsDeep(bucketHeight - fork)
      BY <3>2, <3>3, EventsAssumption, CriterionAssumption DEF IsDeep
    <3> QED
      BY <1>1, <3>1, <3>4 DEF DeepForkNotMissed, IsDeep
  <2>2. CASE ~ Handle
    <3>1. pc' # "noAlert"
      BY <2>2 DEF Search, ReadBound, NoBound, NoFullStatement, StartLinear, ReadA, LinearMiss,
         BisectMiss, Differs, Agrees, StartBisect, EndBisect, Fetch, FetchMiss, given, Probing
    <3> QED
      BY <3>1 DEF DeepForkNotMissed
  <2> QED
    BY <2>1, <2>2
<1> QED
  BY <1>2, <1>3, <1>4, <1>5, <1>6 DEF ForkInv

LEMMA ForkFresh ==
  ASSUME ForkInv, (\E b \in 0..MaxUint : Begin(b)) \/ Rest, fork' = fork
  PROVE  ForkInv'
<1>1. /\ pc' \in {"bounds", "idle"} /\ statements' = statements
      /\ agreed' = {} /\ hashA' = NoHash
  BY DEF Begin, Rest
<1>2. Stored' /\ Branches'
  BY <1>1 DEF ForkInv, Stored, Branches, OnBranch
<1> QED
  BY <1>1, <1>2 DEF ForkInv, DeepForkNotMissed

LEMMA ForkNext == IInv /\ ForkInv /\ [MCNext]_<<vars, fork>> => ForkInv'
<1> SUFFICES ASSUME IInv, ForkInv, [MCNext]_<<vars, fork>> PROVE ForkInv'
  OBVIOUS
<1>1. CASE UNCHANGED <<vars, fork>>
  <2>1. UNCHANGED <<statements, searchVars, fork>>
    BY <1>1 DEF vars
  <2>2. (Stored /\ Branches)'
    BY <2>1 DEF ForkInv, Stored, Branches, OnBranch
  <2> QED
    BY <2>1, <2>2, ForkStorage
<1> QED
  BY <1>1, ForkPut, ForkForget, ForkSearch, ForkFresh DEF MCNext, MCSearch

\* The steps of the nodes that fork are steps of the search and its storage.
LEMMA ForkedSteps == [MCNext]_<<vars, fork>> => [Next]_vars
<1> SUFFICES ASSUME [MCNext]_<<vars, fork>> PROVE [Next]_vars
  OBVIOUS
<1>1. ASSUME NEW n \in Nodes, MCPut(n) PROVE Next
  <2>1. PICK e \in Answers(n) : Put(n, e)
    BY <1>1 DEF MCPut
  <2>2. e \in Events
    BY <2>1, BranchesAssumption DEF Answers, NextHeights, Events
  <2> QED
    BY <2>1, <2>2 DEF Next
<1>2. ASSUME NEW n \in Nodes, MCForget(n) PROVE Next
  BY <1>2 DEF MCForget, Next
<1> QED
  BY <1>1, <1>2 DEF MCNext, MCSearch, Next

\* For any heights, any depths and any fork: a pair of nodes on two branches
\* that differ by more than allowed raises an alert or is skipped for want of
\* statements, and is never taken for a shallow fork, however the storage
\* changes during the search (state_hash.go 142-202).
THEOREM DeepForkCorrect == MCSpec => []DeepForkNotMissed
<1>1. MCInit => Init
  BY DEF MCInit
<1>2. MCSpec => []IInv
  BY <1>1, ForkedSteps, SearchInit, SearchNext, PTL DEF MCSpec
<1>3. ForkInv => DeepForkNotMissed
  BY DEF ForkInv
<1> QED
  BY <1>2, <1>3, ForkInit, ForkNext, PTL DEF MCSpec
=============================================================================
