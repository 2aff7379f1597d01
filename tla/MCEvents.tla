------------------------------ MODULE MCEvents ------------------------------
(***************************************************************************)
(* Two nodes that are polled in turn, miss rounds, leave out the state     *)
(* hash, advance and roll back as they like, and requests for the status   *)
(* of both, with the storage changing at most once during a request.  The  *)
(* criteria that compare nodes do not read the storage: their rounds are   *)
(* tried while it is empty.                                                *)
(***************************************************************************)
EXTENDS StatusQuery, Criteria

CONSTANTS a, b,        \* nodes
          MaxRounds,   \* statements of one node that are kept
          MaxStored    \* statements that are kept

Symmetry == Permutations(Nodes) \cup Permutations(Hashes)

Stored == Len(statements[a]) + Len(statements[b])

MayChange == round = <<>> /\ (phase = "idle" \/ still)

queryAll == <<queryVars, calm, still>>

MCPut(n, s) ==
    /\ MayChange
    /\ Len(statements[n]) < MaxRounds
    /\ Stored < MaxStored
    /\ Put(n, s)
    /\ UNCHANGED round

MCForget(n) == MayChange /\ Forget(n) /\ UNCHANGED round

MCRequest == round = <<>> /\ Request(Nodes) /\ UNCHANGED round

MCQuery == Query /\ UNCHANGED round

MCCompare ==
    /\ phase = "idle" /\ Stored = 0
    /\ \E values \in Rounds : Compare(values)
    /\ UNCHANGED <<statements, queryAll>>

MCCompared == Compared /\ UNCHANGED <<statements, queryAll>>

MCInit == QueryInit /\ CriteriaInit

MCNext ==
    \/ \E n \in Nodes : MCForget(n) \/ \E s \in Events : MCPut(n, s)
    \/ MCRequest \/ MCQuery
    \/ MCCompare \/ MCCompared

MCSpec == MCInit /\ [][MCNext]_<<statements, queryAll, round>>
=============================================================================
