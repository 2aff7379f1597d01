------------------------------ MODULE Criteria ------------------------------
(***************************************************************************)
(* What the criteria of pkg/analysis/criteria report of one polling round  *)
(* and the identifiers of their alerts (pkg/entities/alerts.go), by which  *)
(* the alert storage counts confirmations and repeats.  The criteria on    *)
(* the state of a node read its history.  The others compare one value of  *)
(* every statement of the round: a height, a base target, a state hash or  *)
(* a challenged block, here numbers in the order of the nodes' names.      *)
(***************************************************************************)
EXTENDS EventsStorage, FiniteSetsExt, SequencesExt

CONSTANTS
    Streak, Depth,                        \* of the unreachable and incomplete criteria
    ConsiderPrevUnreachableAsIncomplete,
    MaxHeightDiff,
    Threshold,                            \* of the base target
    RoundSize                             \* nodes of the rounds that are compared

ASSUME CriteriaAssumption ==
    /\ Streak \in Nat \ {0} /\ Depth \in Nat \ {0}
    /\ ConsiderPrevUnreachableAsIncomplete \in BOOLEAN
    /\ MaxHeightDiff \in Nat /\ Threshold \in Nat
    /\ RoundSize \in Nat \ {0}

VARIABLE round  \* the values that are compared, <<>> between rounds

CriteriaInit == round = <<>>

Rounds == [1..RoundSize -> 0..MaxUint]

\* The criteria compare the statements of a round, and keep nothing of it.
Compare(values) == round = <<>> /\ round' = values

Compared == round # <<>> /\ round' = <<>>

CompareNext == (\E values \in Rounds : Compare(values)) \/ Compared

CompareSpec == CriteriaInit /\ [][CompareNext]_round

-----------------------------------------------------------------------------
(***************************************************************************)
(* Unreachable and incomplete nodes                                        *)
(***************************************************************************)
\* Seeded error: a good statement does not end the streak.
StreakNotReset(n, bad) ==
    LET s == statements[n]
        walk[d \in 0..Len(s)] ==
            IF d = 0 THEN 0
            ELSE IF walk[d - 1] >= Streak \/ d > Depth THEN walk[d - 1]
            ELSE IF s[Len(s) + 1 - d].status \in bad THEN walk[d - 1] + 1 ELSE walk[d - 1]
    IN  walk[Len(s)]

\* analyzeNode: the streak after the walk over the statements, newest first,
\* which ends with the streak or at the depth.
StreakOf(n, bad) ==
    LET s == statements[n]
        walk[d \in 0..Len(s)] ==
            IF d = 0 THEN 0
            ELSE IF walk[d - 1] >= Streak \/ d > Depth THEN walk[d - 1]
            ELSE IF s[Len(s) + 1 - d].status \in bad THEN walk[d - 1] + 1 ELSE 0
    IN  walk[Len(s)]

\* SplitByNodeStatus: the nodes of this round with the given status.
Group(status) ==
    {n \in Nodes : statements[n] # <<>> /\ statements[n][Len(statements[n])].status = status}

ConsideredIncomplete ==
    {"incomplete"} \cup (IF ConsiderPrevUnreachableAsIncomplete THEN {"unreachable"} ELSE {})

UnreachableNodes   == {n \in Group("unreachable") : StreakOf(n, {"unreachable"}) >= Streak}
IncompleteNodes    == {n \in Group("incomplete") : StreakOf(n, ConsideredIncomplete) >= Streak}
InvalidHeightNodes == Group("invalid_height")

-----------------------------------------------------------------------------
(***************************************************************************)
(* Criteria that compare the nodes of a round                              *)
(***************************************************************************)
\* The nodes of a group in the order of their names.
Sorted(group) ==
    CHOOSE s \in [1..Cardinality(group) -> group] :
        \A i, j \in DOMAIN s : i < j => s[i] < s[j]

\* SplitBy...: the groups of nodes with equal values, by value.
SplitBy(f) == [v \in Range(f) |-> {n \in DOMAIN f : f[n] = v}]

\* MinMaxHeight, of which only the maximum is used.
TopHeight(hs) == Max(Range(hs))

\* Seeded error: a group as far behind as is allowed is reported.
HeightAlertsTooEarly(hs) ==
    LET top == TopHeight(hs) IN
        {[max |-> SplitBy(hs)[top], other |-> SplitBy(hs)[h]] :
            h \in {g \in Range(hs) : top - g >= MaxHeightDiff}}

\* HeightCriterion.Analyze; hs are the heights of the nodes that are OK.
HeightAlerts(hs) ==
    LET top == TopHeight(hs) IN
        {[max |-> SplitBy(hs)[top], other |-> SplitBy(hs)[h]] :
            h \in {g \in Range(hs) : top - g > MaxHeightDiff}}

\* mostFrequentBaseTarget: the value whose count was the first to reach the
\* greatest; nodes without a base target do not count.
MostFrequentBaseTarget(bts) ==
    LET count(i, v) == Cardinality({j \in 1..i : bts[j] = v})
        walk[i \in 0..Len(bts)] ==
            IF i = 0 THEN [key |-> 0, count |-> 0]
            ELSE IF bts[i] # 0 /\ count(i, bts[i]) > walk[i - 1].count
            THEN [key |-> bts[i], count |-> count(i, bts[i])]
            ELSE walk[i - 1]
    IN  walk[Len(bts)].key

BaseTargetAlerted(bts) == MostFrequentBaseTarget(bts) > Threshold

\* ChallengedBlockCriterion.Analyze; blocks has the block of every incomplete
\* or OK node whose block is challenged.
ChallengedBlockAlerts(blocks) ==
    {[block |-> b, nodes |-> SplitBy(blocks)[b]] : b \in Range(blocks)}

\* analyzeNodesOnSameHeight: the pairs of groups of different state hashes, a
\* sample of each group being its first node.
StateHashPairs(xs) ==
    {<<SplitBy(xs)[p[1]], SplitBy(xs)[p[2]]>> : p \in
        {q \in Range(xs) \X Range(xs) : Min(SplitBy(xs)[q[1]]) < Min(SplitBy(xs)[q[2]])}}

-----------------------------------------------------------------------------
(***************************************************************************)
(* Identifiers: what the digest is taken of                                *)
(***************************************************************************)
HeightAlertID(alert)          == <<"HeightAlert">> \o Sorted(alert.other)
ChallengedBlockAlertID(alert) == <<"ChallengedBlockAlert", alert.block>>

\* Seeded error: the second group is left out.
StateHashAlertIDOfFirst(pair, last) == <<"StateHashAlert", last>> \o Sorted(pair[1])

\* last is the last common state hash with its height, if there is one.
StateHashAlertID(pair, last) ==
    <<"StateHashAlert", last>> \o Sorted(pair[1]) \o Sorted(pair[2])

-----------------------------------------------------------------------------
(***************************************************************************)
(* Properties                                                              *)
(***************************************************************************)
\* Node n was in one of the given states Streak times in a row within its last
\* Depth statements.
InARow(n, bad) ==
    LET s == statements[n] IN
        \E i \in 1..Len(s) :
            /\ i > Len(s) - Depth
            /\ i + Streak - 1 <= Len(s)
            /\ \A j \in i..i + Streak - 1 : s[j].status \in bad

\* A node is reported exactly when it is in the state now and was in it, or in
\* a worse one, Streak times in a row within its last Depth statements, however
\* good and bad rounds follow each other and whatever has expired; of every
\* node that is not OK at most one alert is raised (unreachable.go 55-87,
\* incomplete.go 54-84, analyzer.go 147-194).
StreakExact ==
    /\ \A n \in Nodes :
         /\ n \in UnreachableNodes <=>
              n \in Group("unreachable") /\ InARow(n, {"unreachable"})
         /\ n \in IncompleteNodes <=>
              n \in Group("incomplete") /\ InARow(n, ConsideredIncomplete)
    /\ UnreachableNodes \cap IncompleteNodes = {}

Frequency(bts, v) == Cardinality({i \in DOMAIN bts : bts[i] = v})

MostFrequent(bts) ==
    {v \in Range(bts) \ {0} : \A w \in Range(bts) \ {0} : Frequency(bts, v) >= Frequency(bts, w)}

\* In one round, every node too far behind the highest is named by exactly one
\* height alert and no other node is (height.go 32-64); the base target is
\* reported when all the most frequent ones are too great, and only if one is
\* (base_target.go 24-59).
ComparisonsExact ==
    /\ \A n \in DOMAIN round :
         Cardinality({alert \in HeightAlerts(round) : n \in alert.other}) =
             IF \E m \in DOMAIN round : round[m] > round[n] + MaxHeightDiff THEN 1 ELSE 0
    /\ BaseTargetAlerted(round) => \E v \in MostFrequent(round) : v > Threshold
    /\ MostFrequent(round) # {} /\ (\A v \in MostFrequent(round) : v > Threshold)
         => BaseTargetAlerted(round)

\* The alert storage takes a second report with the same identifier for another
\* confirmation or repeat, so the alerts of one round must have different ones:
\* lagging groups, challenged blocks and pairs of branches, whatever nodes make
\* them up (alerts.go 324-334, 406-424 and 624-627).
OneReportPerIdentifier ==
    /\ \A p, q \in HeightAlerts(round) : HeightAlertID(p) = HeightAlertID(q) => p = q
    /\ \A p, q \in ChallengedBlockAlerts(round) :
         ChallengedBlockAlertID(p) = ChallengedBlockAlertID(q) => p = q
    /\ \A p, q \in StateHashPairs(round) :
         StateHashAlertID(p, NoHash) = StateHashAlertID(q, NoHash) => p = q
=============================================================================
