---------------------------- MODULE StatusQuery ----------------------------
(***************************************************************************)
(* A bot's request for the status of nodes: the pair server looks for      *)
(* their statements at a common height (FindAllStatementsOnCommonHeight of *)
(* pkg/storing/events/events.go, called by handleNodesStatementsRequest of *)
(* pkg/messaging/pair/server.go), and the bot judges the answer            *)
(* (HandleNodesStatus of cmd/bots/internal/bots/environment.go).           *)
(*                                                                         *)
(* The server reads node after node, each in a transaction and a step of   *)
(* its own, in the random order of a map, and the scraper stores the next  *)
(* round meanwhile.                                                        *)
(***************************************************************************)
EXTENDS EventsStorage

CONSTANTS
    depthCommonHeightSearch,
    heightDifference

ASSUME QueryAssumption ==
    /\ depthCommonHeightSearch \in Nat \ {0}
    /\ heightDifference \in Nat \ {0}

VARIABLES
    phase,     \* idle, latest, search, read; answered, big (ErrBigHeightDifference)
    asked,     \* the nodes of the request
    todo,      \* the nodes this pass has not come to yet
    found,     \* the heights of the last complete pass: nodesHeights
    reachable, \* nodesList
    minHeight,
    searches,  \* i, the passes of findMinCommonSpecificHeight
    answer,    \* the statements found so far
    common,    \* the heights the reachable nodes had in common at the request
    calm,      \* no reachable node was rolled back then or has been since
    still      \* the storage has not changed since

queryVars == <<phase, asked, todo, found, reachable, minHeight, searches, answer, common>>

Start ==
    /\ phase = "idle"
    /\ asked = {} /\ todo = {} /\ reachable = {} /\ common = {}
    /\ found = <<>> /\ answer = <<>>
    /\ minHeight = 0 /\ searches = 0

QueryInit == StorageInit /\ Start /\ calm = FALSE /\ still = FALSE

-----------------------------------------------------------------------------
(***************************************************************************)
(* The storage meanwhile                                                   *)
(***************************************************************************)
\* A node that was reachable has moved up, or does not answer.
MovesUp(n, s) == LatestHeight(n) # 0 /\ (s.height = 0 \/ s.height > LatestHeight(n))

Put(n, s) ==
    /\ PutEvent(n, s)
    /\ calm' = (calm /\ MovesUp(n, s))
    /\ still' = FALSE
    /\ UNCHANGED queryVars

Forget(n) ==
    /\ Expire(n)
    /\ calm' = FALSE
    /\ still' = FALSE
    /\ UNCHANGED queryVars

-----------------------------------------------------------------------------
(***************************************************************************)
(* FindAllStatementsOnCommonHeight                                         *)
(***************************************************************************)
Reachable(ns) == {n \in ns : LatestHeight(n) # 0}

\* Heights at which every reachable node of ns has a current statement.
CommonHeights(ns) ==
    {h \in Heights : \A n \in Reachable(ns) :
        \E i \in 1..Len(statements[n]) : Current(n, i) /\ statements[n][i].height = h}

Request(ns) ==
    /\ phase = "idle"
    /\ phase' = "latest"
    /\ asked' = ns
    /\ todo' = ns
    /\ found' = [n \in ns |-> 0]
    /\ common' = CommonHeights(ns)
    /\ calm' = (\A n \in Reachable(ns) : FoundStatementAtHeight(n, LatestHeight(n)))
    /\ still' = TRUE
    /\ UNCHANGED <<statements, reachable, minHeight, searches, answer>>

\* A step of findMinCommonLatestHeight; 0 is the height of an unreachable node.
ReadLatest(n) ==
    /\ phase = "latest"
    /\ n \in todo
    /\ todo' = todo \ {n}
    /\ found' = [found EXCEPT ![n] = LatestHeight(n)]
    /\ UNCHANGED <<statements, phase, asked, reachable, minHeight, searches, answer, common,
                   calm, still>>

Found == {found[n] : n \in asked} \ {0}

\* minHeight and maxHeight
Lowest  == IF Found = {} THEN MaxUint ELSE CHOOSE h \in Found : \A g \in Found : h <= g
Highest == IF Found = {} THEN 0 ELSE CHOOSE h \in Found : \A g \in Found : h >= g

\* Seeded error: the difference is taken the other way round.
DifferenceReversed == (Lowest - Highest) % (MaxUint + 1) > heightDifference

BigHeightDifference == (Highest - Lowest) % (MaxUint + 1) > heightDifference

\* Every reachable node has the height h in nodesHeights.
AllAt(ns, h) == \A n \in ns : found[n] = h

LatestRead ==
    /\ phase = "latest"
    /\ todo = {}
    /\ reachable' = {n \in asked : found[n] # 0}
    /\ minHeight' = Lowest
    /\ searches' = 0
    /\ IF BigHeightDifference
       THEN phase' = "big" /\ UNCHANGED todo
       ELSE /\ phase' = IF AllAt(reachable', Lowest) THEN "read" ELSE "search"
            /\ todo' = asked
    /\ UNCHANGED <<statements, asked, found, answer, common, calm, still>>

\* A step of findMinCommonSpecificHeight.
Search(n) ==
    /\ phase = "search"
    /\ n \in todo
    /\ todo' = todo \ {n}
    /\ found' = [found EXCEPT ![n] = IF FoundStatementAtHeight(n, minHeight)
                                     THEN minHeight ELSE 0]
    /\ UNCHANGED <<statements, phase, asked, reachable, minHeight, searches, answer, common,
                   calm, still>>

\* Seeded error: the search gives up one height early.
SearchedGivesUp ==
    /\ phase = "search"
    /\ todo = {}
    /\ todo' = asked
    /\ IF AllAt(reachable, minHeight) \/ searches >= depthCommonHeightSearch - 2
       THEN phase' = "read" /\ UNCHANGED <<minHeight, searches>>
       ELSE /\ minHeight' = (minHeight - 1) % (MaxUint + 1)
            /\ searches' = searches + 1
            /\ UNCHANGED phase
    /\ UNCHANGED <<statements, asked, found, reachable, answer, common, calm, still>>

\* A height at which some reachable node has no statement is left for the one
\* below, and the last one is taken untested.
Searched ==
    /\ phase = "search"
    /\ todo = {}
    /\ todo' = asked
    /\ IF AllAt(reachable, minHeight) \/ searches >= depthCommonHeightSearch - 1
       THEN phase' = "read" /\ UNCHANGED <<minHeight, searches>>
       ELSE /\ minHeight' = (minHeight - 1) % (MaxUint + 1)
            /\ searches' = searches + 1
            /\ UNCHANGED phase
    /\ UNCHANGED <<statements, asked, found, reachable, answer, common, calm, still>>

\* Seeded error: a node is asked for its last statement, whatever its height.
StatementOfLatest(n) ==
    LET s == statements[n] IN
        IF n \in reachable /\ s # <<>> /\ s[Len(s)].height = minHeight /\ s[Len(s)].hash # NoHash
        THEN s[Len(s)] ELSE Unreachable

StatementOf(n) ==
    IF n \in reachable THEN GetFullStatementAtHeight(n, minHeight) ELSE Unreachable

\* A step of findStatementsOnHeight.
Read(n) ==
    /\ phase = "read"
    /\ n \in todo
    /\ todo' = todo \ {n}
    /\ answer' = [m \in DOMAIN answer \cup {n} |-> IF m = n THEN StatementOf(n) ELSE answer[m]]
    /\ UNCHANGED <<statements, phase, asked, found, reachable, minHeight, searches, common,
                   calm, still>>

Answer ==
    /\ phase = "read"
    /\ todo = {}
    /\ phase' = "answered"
    /\ UNCHANGED <<statements, asked, todo, found, reachable, minHeight, searches, answer,
                   common, calm, still>>

-----------------------------------------------------------------------------
(***************************************************************************)
(* HandleNodesStatus                                                       *)
(***************************************************************************)
\* sortedNodesByStatusWithHeight
okNodes          == {n \in DOMAIN answer : answer[n].status = "OK"}
unavailableNodes == DOMAIN answer \ okNodes

areStateHashesEqual == \A m, n \in okNodes : answer[m].hash = answer[n].hash

AllNodesAreOk ==
    /\ phase = "answered"
    /\ unavailableNodes = {} /\ okNodes # {}
    /\ areStateHashesEqual

\* The user has the answer, and the request is forgotten.
Rest ==
    /\ phase \in {"answered", "big"}
    /\ phase' = "idle"
    /\ asked' = {} /\ todo' = {} /\ reachable' = {} /\ common' = {}
    /\ found' = <<>> /\ answer' = <<>>
    /\ minHeight' = 0 /\ searches' = 0
    /\ calm' = FALSE /\ still' = FALSE
    /\ UNCHANGED statements

Query ==
    \/ \E n \in Nodes : ReadLatest(n) \/ Search(n) \/ Read(n)
    \/ LatestRead \/ Searched \/ Answer \/ Rest

\* The nodes report what they like, and any of them are asked about.
QueryNext ==
    \/ \E n \in Nodes : Forget(n) \/ \E s \in Events : Put(n, s)
    \/ \E ns \in SUBSET Nodes : Request(ns)
    \/ Query

QuerySpec == QueryInit /\ [][QueryNext]_<<statements, queryVars, calm, still>>

-----------------------------------------------------------------------------
(***************************************************************************)
(* Properties                                                              *)
(***************************************************************************)
\* The height difference is reported as too big exactly when it is, also when
\* no node is reachable and the subtraction wraps around (events.go 260-274).
DifferenceExact ==
    still /\ phase \in {"answered", "big"} =>
        (phase = "big" <=> \E m, n \in Reachable(asked) :
                               LatestHeight(m) > LatestHeight(n) + heightDifference)

\* The nodes are compared at the greatest height they have in common, as long
\* as it is within depthCommonHeightSearch heights of the lowest node, and are
\* then said to be fine exactly when all of them are reachable and agree there
\* (events.go 259-296, environment.go 1060-1109).  A node that rolled back and
\* has not completed a statement since is left out: its latest full statement
\* is not current any more.
StatusExact ==
    still /\ calm /\ phase = "answered" =>
        \A h \in common :
            (/\ \A g \in common : g <= h
             /\ \E n \in Reachable(asked) : h > LatestHeight(n) - depthCommonHeightSearch) =>
                /\ \A n \in Reachable(asked) : answer[n].height = h
                /\ AllNodesAreOk <=>
                     \E x \in Hashes : \A n \in asked : GetFullStatementAtHeight(n, h) = Complete(h, x)

\* A round stored while the request is handled hides nothing: if the nodes only
\* moved up or missed the round, all that were reachable are still compared at
\* a height they had in common when they were asked, or at a higher one
\* (events.go 160-168 and 276-294: each pass reads each node again).
RoundHidesNothing ==
    calm /\ phase = "answered" =>
        \A h \in common :
            h > ((minHeight + searches) % (MaxUint + 1)) - depthCommonHeightSearch /\ reachable # {} =>
                \A n \in reachable : answer[n].status = "OK" /\ answer[n].height >= h
=============================================================================
