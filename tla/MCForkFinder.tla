---------------------------- MODULE MCForkFinder ----------------------------
(***************************************************************************)
(* Two nodes that left each other after height fork: nodeA stays on branch *)
(* x and is polled at every height, nodeB goes on with y, skips heights,   *)
(* rolls back by one and misses rounds.  During a search the storage       *)
(* changes at most once.                                                   *)
(***************************************************************************)
EXTENDS ForkFinder

CONSTANTS x, y,         \* state hashes
          FirstHeights, \* heights at which the nodes are polled first
          MaxRounds     \* statements of one node that are kept

ASSUME BranchesAssumption ==
    /\ x \in Hashes /\ y \in Hashes /\ x # y
    /\ nodeA # nodeB

VARIABLE fork

MCInit == Init /\ fork \in {0} \cup Heights

\* The heights node n can report next.
NextHeights(n) ==
    {h \in Heights : IF LatestHeight(n) = 0 THEN h \in FirstHeights
                     ELSE h - LatestHeight(n) \in IF n = nodeA THEN {1} ELSE {-1, 1, 2}}

Answers(n) ==
    {Complete(h, IF n = nodeB /\ h > fork THEN y ELSE x) : h \in NextHeights(n)}
        \cup (IF n = nodeB THEN {Unreachable} ELSE {})

MCPut(n) ==
    /\ ~ disturbed
    /\ Len(statements[n]) < MaxRounds
    /\ \E s \in Answers(n) : Put(n, s)
    /\ UNCHANGED fork

MCForget(n) ==
    /\ ~ disturbed
    /\ Forget(n)
    /\ UNCHANGED fork

MCSearch == Search /\ UNCHANGED fork

MCNext ==
    \/ \E n \in Nodes : MCPut(n) \/ MCForget(n)
    \/ \E b \in 0..MaxUint : Begin(b) /\ UNCHANGED fork
    \/ MCSearch
    \/ Rest /\ UNCHANGED fork

MCSpec == MCInit /\ [][MCNext]_<<vars, fork>> /\ WF_<<vars, fork>>(MCSearch)

\* A fork deeper than allowed is never taken for a shallow one, whatever is
\* missing in the storage and whatever happens to it during the search: the
\* pair raises an alert or is skipped for want of statements (state_hash.go
\* 142-202).
DeepForkNotMissed == pc = "noAlert" => ~ IsDeep(bucketHeight - fork)

\* Every search comes to an end, also if the storage changes during it; the run
\* lets it change once in a search (fork_finder.go 92-111 and 145-161).
SearchEnds == (pc # "idle") ~> (pc \in {"idle", "alert", "noAlert", "skipped"})
=============================================================================
