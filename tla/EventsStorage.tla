--------------------------- MODULE EventsStorage ---------------------------
(***************************************************************************)
(* The events storage of pkg/storing/events/events.go: what every node     *)
(* answered in every polling round, for as long as the retention allows,   *)
(* and the queries on it.  The database is a sequence per node, ordered by *)
(* the timestamp of its keys: rounds have different timestamps, so a put   *)
(* appends, and all statements live equally long, so the oldest expires.   *)
(* Each of the queries below is one transaction of the database.           *)
(***************************************************************************)
EXTENDS Integers, Sequences

CONSTANTS
    Nodes,
    Heights,                 \* heights nodes report
    Hashes,                  \* state hashes
    NoHash,                  \* a nil state hash
    MaxUint                  \* the largest uint64

ASSUME EventsAssumption ==
    /\ NoHash \notin Hashes
    /\ MaxUint \in Nat \ {0}
    /\ Heights \subseteq 1..MaxUint

VARIABLE statements

\* The statements of the events: of a node that does not answer, one that
\* answers with its version only (height 0) or leaves out the state hash, one
\* that says it has no blocks yet, and one that answers everything.
Unreachable      == [status |-> "unreachable", height |-> 0, hash |-> NoHash]
Incomplete(h)    == [status |-> "incomplete", height |-> h, hash |-> NoHash]
InvalidHeight(h) == [status |-> "invalid_height", height |-> h, hash |-> NoHash]
Complete(h, x)   == [status |-> "OK", height |-> h, hash |-> x]

\* Heights below minValidHeight.
InvalidHeights == 0..1

Events == {Unreachable}
              \cup {InvalidHeight(h) : h \in InvalidHeights}
              \cup {Incomplete(h) : h \in {0} \cup Heights}
              \cup {Complete(h, x) : h \in Heights, x \in Hashes}

StorageInit == statements = [n \in Nodes |-> <<>>]

PutEvent(n, s) == statements' = [statements EXCEPT ![n] = Append(@, s)]

\* The retention of the oldest statement of a node is over.
Expire(n) ==
    /\ statements[n] # <<>>
    /\ statements' = [statements EXCEPT ![n] = Tail(@)]

-----------------------------------------------------------------------------
(***************************************************************************)
(* Seeded errors (mutants named in PROJECT.json; no specification uses     *)
(* them).                                                                  *)
(***************************************************************************)
\* An unreachable node hides what it said before.
GetStopsAtUnreachable(n, h) ==
    LET s == statements[n]
        scan[i \in 0..Len(s)] ==
            IF i = 0 \/ s[i].height < h THEN Unreachable
            ELSE IF s[i].height = h /\ s[i].hash # NoHash THEN s[i]
            ELSE scan[i - 1]
    IN  scan[Len(s)]

-----------------------------------------------------------------------------
(***************************************************************************)
(* Queries on one node; a height of 0 stands for ErrNoFullStatement        *)
(***************************************************************************)
EarliestHeight(n) ==
    LET s == statements[n]
        scan[i \in 1..Len(s) + 1] ==
            IF i > Len(s) THEN 0
            ELSE IF s[i].hash # NoHash THEN s[i].height ELSE scan[i + 1]
    IN  scan[1]

LatestHeight(n) ==
    LET s == statements[n]
        scan[i \in 0..Len(s)] ==
            IF i = 0 THEN 0
            ELSE IF s[i].hash # NoHash THEN s[i].height ELSE scan[i - 1]
    IN  scan[Len(s)]

\* Unreachable stands for ErrNoFullStatement.
GetFullStatementAtHeight(n, h) ==
    LET s == statements[n]
        scan[i \in 0..Len(s)] ==
            IF i = 0 \/ (s[i].height # 0 /\ s[i].height < h) THEN Unreachable
            ELSE IF s[i].height = h /\ s[i].hash # NoHash THEN s[i]
            ELSE scan[i - 1]
    IN  scan[Len(s)]

FoundStatementAtHeight(n, h) == GetFullStatementAtHeight(n, h) # Unreachable

StateHashAtHeight(n, h) == GetFullStatementAtHeight(n, h).hash

-----------------------------------------------------------------------------
(***************************************************************************)
(* Properties                                                              *)
(***************************************************************************)
\* Statement i of node n is what the node says today about its height: it has
\* not been repeated nor has the node rolled back below that height since.
Current(n, i) ==
    LET s == statements[n] IN
        /\ s[i].hash # NoHash
        /\ \A j \in i + 1..Len(s) :
             \/ s[j].height = 0 \/ s[j].height > s[i].height
             \/ s[j].height = s[i].height /\ s[j].hash = NoHash

\* A height is answered with what the node says about it today: with the last
\* full statement at the height, unless the node rolled back below it, and not
\* at all otherwise, whatever rounds it missed in between (events.go 153-182).
AnswersAreCurrent ==
    \A n \in Nodes : \A h \in 1..MaxUint :
        LET now == {statements[n][i] : i \in {j \in 1..Len(statements[n]) :
                                            Current(n, j) /\ statements[n][j].height = h}}
        IN  now = IF FoundStatementAtHeight(n, h)
                  THEN {GetFullStatementAtHeight(n, h)} ELSE {}
=============================================================================
