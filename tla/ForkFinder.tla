----------------------------- MODULE ForkFinder -----------------------------
(***************************************************************************)
(* The state hash criterion for a pair of nodes (handleSamplesPair of      *)
(* pkg/analysis/criteria/state_hash.go) with the search for their last     *)
(* common state hash (FindLastCommonStateHash of                           *)
(* pkg/analysis/finders/fork_finder.go): linear from the top, then by      *)
(* bisection.                                                              *)
(*                                                                         *)
(* Every read of the events storage is a transaction and a step of its     *)
(* own: the scraper stores the statements of the next round, and the       *)
(* oldest ones expire, while the analyzer still works on this one.         *)
(***************************************************************************)
EXTENDS EventsStorage

CONSTANTS
    nodeA, nodeB,      \* the pair, in the order of their names
    MaxForkDepth,
    HeightBucketSize

ASSUME CriterionAssumption ==
    /\ nodeA \in Nodes /\ nodeB \in Nodes
    /\ \A h \in Heights : 2 * h <= MaxUint
    /\ MaxForkDepth \in 0..MaxUint - 1
    /\ HeightBucketSize \in Nat \ {0}

VARIABLES
    pc,           \* idle, bounds, linear, bisect, fetch, handle, handleNone, and
                  \* the outcome: alert, noAlert or skipped
    bucketHeight, \* the height at which the pair was seen to differ
    bounds,       \* the bounds read so far, then the bounds of the search
    start, stop,  \* the heights left to search
    depth,        \* i, the heights the linear search has left behind
    r,            \* the result so far
    hashA,        \* the state hash of nodeA at the probed height, once read
    agreed,       \* heights where this search saw equal hashes
    rejected,     \* heights where it saw different hashes, or none
    disturbed     \* the storage changed since the pair was compared

given      == <<statements, bucketHeight, disturbed>>
range      == <<bounds, start, stop, depth>>
seen       == <<hashA, agreed, rejected>>
searchVars == <<pc, bucketHeight, range, r, seen>>

vars == <<statements, disturbed, searchVars>>

Init ==
    /\ StorageInit
    /\ pc = "idle"
    /\ bucketHeight = 0
    /\ bounds = <<>>
    /\ start = 0 /\ stop = 0 /\ depth = 0 /\ r = 0
    /\ hashA = NoHash
    /\ agreed = {} /\ rejected = {}
    /\ disturbed = FALSE

\* Subtraction of uint64.
Minus(m, n) == IF m >= n THEN m - n ELSE m - n + MaxUint + 1

\* WithLinearSearchParams(MaxForkDepth + 1)
searchDepth == MaxForkDepth + 1

-----------------------------------------------------------------------------
(***************************************************************************)
(* The storage meanwhile                                                   *)
(***************************************************************************)
Put(n, s) ==
    /\ PutEvent(n, s)
    /\ disturbed' = (pc # "idle")
    /\ UNCHANGED searchVars

Forget(n) ==
    /\ Expire(n)
    /\ disturbed' = (pc # "idle")
    /\ UNCHANGED searchVars

-----------------------------------------------------------------------------
(***************************************************************************)
(* The criterion picks the pair                                            *)
(***************************************************************************)
\* The status of a node in this round.
Ok(n) == statements[n] # <<>> /\ statements[n][Len(statements[n])].status = "OK"

\* SplitByNodeHeightBuckets
Bucket(h) == h - (h % HeightBucketSize)

\* The height at which nodes of one bucket are compared: the height itself if
\* all are there, else the lowest of the bucket.
ComparedAt(b) ==
    /\ Ok(nodeA) /\ Ok(nodeB)
    /\ Bucket(LatestHeight(nodeA)) = Bucket(LatestHeight(nodeB))
    /\ \/ b = Bucket(LatestHeight(nodeA))
       \/ b = LatestHeight(nodeA) /\ b = LatestHeight(nodeB)

\* Samples of two groups of different state hashes.
Begin(b) ==
    /\ pc = "idle"
    /\ ComparedAt(b)
    /\ FoundStatementAtHeight(nodeA, b) /\ FoundStatementAtHeight(nodeB, b)
    /\ StateHashAtHeight(nodeA, b) # StateHashAtHeight(nodeB, b)
    /\ pc' = "bounds"
    /\ bucketHeight' = b
    /\ bounds' = <<>>
    /\ agreed' = {} /\ rejected' = {} /\ r' = 0 /\ hashA' = NoHash
    /\ disturbed' = FALSE
    /\ UNCHANGED <<statements, start, stop, depth>>

-----------------------------------------------------------------------------
(***************************************************************************)
(* FindLastCommonStateHash                                                 *)
(***************************************************************************)
Bound(k) == IF k = 1 THEN EarliestHeight(nodeA)
            ELSE IF k = 2 THEN EarliestHeight(nodeB)
            ELSE IF k = 3 THEN LatestHeight(nodeA)
            ELSE LatestHeight(nodeB)

\* ErrNoFullStatement: handleSamplesPair logs it and returns.
NoFullStatement ==
    /\ pc' = "skipped"
    /\ UNCHANGED <<given, range, r, seen>>

ReadBound ==
    /\ pc = "bounds"
    /\ Len(bounds) < 4
    /\ Bound(Len(bounds) + 1) \in Heights
    /\ bounds' = Append(bounds, Bound(Len(bounds) + 1))
    /\ UNCHANGED <<given, pc, start, stop, depth, r, seen>>

NoBound ==
    /\ pc = "bounds"
    /\ Len(bounds) < 4
    /\ Bound(Len(bounds) + 1) \notin Heights
    /\ NoFullStatement

Larger(m, n)  == IF m > n THEN m ELSE n
Smaller(m, n) == IF m < n THEN m ELSE n

\* initialStart and initialStop
InitialStart == Larger(bounds[1], bounds[2])
InitialStop  == Smaller(bounds[3], bounds[4])

StartLinear ==
    /\ pc = "bounds"
    /\ Len(bounds) = 4
    /\ start' = InitialStart
    /\ stop' = InitialStop
    /\ depth' = 0
    /\ pc' = "linear"
    /\ UNCHANGED <<given, bounds, r, seen>>

\* stop - start wraps around when the ranges of the nodes are disjoint.
LinearGoesOn == depth < searchDepth /\ Minus(stop, start) > depth

\* Seeded error: the linear search goes up from the first height.
ProbeUpwards == IF pc = "linear" THEN start + depth
                ELSE ((start + stop) % (MaxUint + 1)) \div 2

\* The height the search looks at.
Probe == IF pc = "linear" THEN Minus(stop, depth)
         ELSE ((start + stop) % (MaxUint + 1)) \div 2

Probing == (pc = "linear" /\ LinearGoesOn) \/ (pc = "bisect" /\ start <= stop)

\* The first read of differentStateHashesAt.
ReadA ==
    /\ Probing
    /\ hashA = NoHash
    /\ StateHashAtHeight(nodeA, Probe) # NoHash
    /\ hashA' = StateHashAtHeight(nodeA, Probe)
    /\ UNCHANGED <<given, pc, range, r, agreed, rejected>>

\* A node has no full statement at the probed height: the linear search goes
\* on, the bisection ends in an error.
NoneAtProbe ==
    /\ Probing
    /\ \/ hashA = NoHash /\ StateHashAtHeight(nodeA, Probe) = NoHash
       \/ hashA # NoHash /\ StateHashAtHeight(nodeB, Probe) = NoHash

LinearMiss ==
    /\ NoneAtProbe
    /\ pc = "linear"
    /\ depth' = depth + 1
    /\ rejected' = rejected \cup {Probe}
    /\ hashA' = NoHash
    /\ UNCHANGED <<given, pc, bounds, start, stop, r, agreed>>

BisectMiss ==
    /\ NoneAtProbe
    /\ pc = "bisect"
    /\ NoFullStatement

\* Seeded errors of the bisection: the interval keeps its upper end; the result
\* is left at the height that was rejected.
DiffersKeepsStop ==
    /\ Probing
    /\ hashA # NoHash
    /\ StateHashAtHeight(nodeB, Probe) \notin {NoHash, hashA}
    /\ rejected' = rejected \cup {Probe}
    /\ hashA' = NoHash
    /\ IF pc = "linear"
       THEN depth' = depth + 1 /\ UNCHANGED <<stop, r>>
       ELSE stop' = Probe /\ r' = Probe - 1 /\ UNCHANGED depth
    /\ UNCHANGED <<given, pc, bounds, start, agreed>>

DiffersKeepsResult ==
    /\ Probing
    /\ hashA # NoHash
    /\ StateHashAtHeight(nodeB, Probe) \notin {NoHash, hashA}
    /\ rejected' = rejected \cup {Probe}
    /\ hashA' = NoHash
    /\ IF pc = "linear"
       THEN depth' = depth + 1 /\ UNCHANGED <<stop, r>>
       ELSE stop' = Probe - 1 /\ r' = Probe /\ UNCHANGED depth
    /\ UNCHANGED <<given, pc, bounds, start, agreed>>

\* The second read of differentStateHashesAt, and what the search makes of it.
Differs ==
    /\ Probing
    /\ hashA # NoHash
    /\ StateHashAtHeight(nodeB, Probe) \notin {NoHash, hashA}
    /\ rejected' = rejected \cup {Probe}
    /\ hashA' = NoHash
    /\ IF pc = "linear"
       THEN depth' = depth + 1 /\ UNCHANGED <<stop, r>>
       ELSE stop' = Probe - 1 /\ r' = Probe - 1 /\ UNCHANGED depth
    /\ UNCHANGED <<given, pc, bounds, start, agreed>>

Agrees ==
    /\ Probing
    /\ hashA # NoHash
    /\ StateHashAtHeight(nodeB, Probe) = hashA
    /\ agreed' = agreed \cup {Probe}
    /\ hashA' = NoHash
    /\ r' = Probe
    /\ IF pc = "linear" THEN pc' = "fetch" /\ UNCHANGED start
       ELSE start' = Probe + 1 /\ UNCHANGED pc
    /\ UNCHANGED <<given, bounds, stop, depth, rejected>>

StartBisect ==
    /\ pc = "linear"
    /\ ~ LinearGoesOn
    /\ pc' = "bisect"
    /\ UNCHANGED <<given, range, r, seen>>

\* Below the initial start: ErrNoCommonBlocks, and the height returned is 0.
EndBisect ==
    /\ pc = "bisect"
    /\ start > stop
    /\ IF r < InitialStart THEN r' = 0 /\ pc' = "handleNone"
       ELSE r' = r /\ pc' = "fetch"
    /\ UNCHANGED <<given, range, seen>>

\* The common state hash is read once more, to be returned.
Fetch ==
    /\ pc = "fetch"
    /\ StateHashAtHeight(nodeA, r) # NoHash
    /\ pc' = "handle"
    /\ UNCHANGED <<given, range, r, seen>>

FetchMiss ==
    /\ pc = "fetch"
    /\ StateHashAtHeight(nodeA, r) = NoHash
    /\ NoFullStatement

-----------------------------------------------------------------------------
(***************************************************************************)
(* handleSamplesPair                                                       *)
(***************************************************************************)
\* Seeded error: the height of the fork itself is not counted.
ForkDepthExclusive == bucketHeight - r - 1

ForkDepth == bucketHeight - r

IsDeep(d) == d > MaxForkDepth \/ d >= HeightBucketSize

Handle ==
    /\ pc \in {"handle", "handleNone"}
    /\ pc' = IF IsDeep(ForkDepth) THEN "alert" ELSE "noAlert"
    /\ UNCHANGED <<given, range, r, seen>>

\* The pair is done with until another round; its variables go out of scope.
Rest ==
    /\ pc \in {"alert", "noAlert", "skipped"}
    /\ pc' = "idle"
    /\ bucketHeight' = 0 /\ bounds' = <<>> /\ start' = 0 /\ stop' = 0 /\ depth' = 0
    /\ r' = 0 /\ hashA' = NoHash /\ agreed' = {} /\ rejected' = {}
    /\ disturbed' = FALSE
    /\ UNCHANGED statements

-----------------------------------------------------------------------------
Search ==
    \/ ReadBound \/ NoBound \/ StartLinear \/ ReadA \/ LinearMiss \/ BisectMiss
    \/ Differs \/ Agrees \/ StartBisect \/ EndBisect \/ Fetch \/ FetchMiss \/ Handle

Next ==
    \/ \E n \in Nodes : Forget(n) \/ \E s \in Events : Put(n, s)
    \/ \E b \in 0..MaxUint : Begin(b)
    \/ Search
    \/ Rest

Spec == Init /\ [][Next]_vars

-----------------------------------------------------------------------------
(***************************************************************************)
(* Properties                                                              *)
(***************************************************************************)
TypeOK ==
    /\ pc \in {"idle", "bounds", "linear", "bisect", "fetch", "handle", "handleNone",
              "alert", "noAlert", "skipped"}
    /\ bucketHeight \in 0..MaxUint
    /\ bounds \in Seq(Heights) /\ Len(bounds) <= 4
    /\ start \in 0..MaxUint + 1 /\ stop \in 0..MaxUint /\ r \in 0..MaxUint
    /\ depth \in 0..searchDepth
    /\ agreed \subseteq 0..MaxUint /\ rejected \subseteq 0..MaxUint
    /\ disturbed \in BOOLEAN

Above(h) == IF h = MaxUint THEN 0 ELSE h + 1

\* The height the search returns is a boundary it has seen: the hashes were
\* equal there and at no height above, and just above they were different or
\* missing, unless there is nothing above.  When it returns ErrNoCommonBlocks
\* it has seen no equal hashes, and the lowest height was compared, unless
\* there is none.  No change of the storage during the search can make it
\* return a height it has not compared (fork_finder.go 86-112 and 144-173).
ResultIsBoundary ==
    /\ pc \in {"fetch", "handle"} =>
         /\ r \in agreed
         /\ \A h \in agreed : h <= r
         /\ r = InitialStop \/ Above(r) \in rejected
    /\ pc = "handleNone" =>
         /\ agreed = {}
         /\ InitialStop < InitialStart \/ InitialStart \in rejected

Common == {h \in 1..MaxUint : /\ FoundStatementAtHeight(nodeA, h)
                              /\ FoundStatementAtHeight(nodeB, h)
                              /\ StateHashAtHeight(nodeA, h) = StateHashAtHeight(nodeB, h)}

\* The nodes agree up to some height and differ above: neither has changed
\* branches above it.
OneFork ==
    \A h \in Common : \A g \in 1..h :
        FoundStatementAtHeight(nodeA, g) /\ FoundStatementAtHeight(nodeB, g) => g \in Common

\* In a storage that does not change meanwhile, two nodes on different branches
\* are found to have in common what they have: the search returns the last
\* common height on record, and ErrNoCommonBlocks only if there is none within
\* its bounds, whatever heights are missing (fork_finder.go 114-174).
LastCommonFound ==
    ~ disturbed /\ OneFork =>
        /\ pc = "handle" => r \in Common /\ \A h \in Common : h <= r
        /\ pc = "handleNone" => Common \cap InitialStart..InitialStop = {}
=============================================================================
