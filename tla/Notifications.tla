--------------------------- MODULE Notifications ---------------------------
(***************************************************************************)
(* The notifications of pkg/entities/notifications.go that end a polling   *)
(* round, with the accessors the private nodes handler and the analyzer    *)
(* use.  Error values and timestamps are abstracted away: only whether     *)
(* there is an error, and which nodes were gathered, steer the code.       *)
(***************************************************************************)

\* NodesGatheringComplete, NodesGatheringError and NodesGatheringWithError.
GatheringComplete(nodes) == [kind |-> "complete", nodes |-> nodes]
GatheringError           == [kind |-> "error", nodes |-> {}]
GatheringWithError(n)    == [kind |-> "withError", nodes |-> n.nodes]

Notifications(Nodes) ==
    {GatheringComplete(s) : s \in SUBSET Nodes}
        \cup {GatheringError}
        \cup {GatheringWithError(GatheringComplete(s)) : s \in SUBSET Nodes}

\* Error() # nil
HasError(n) == n.kind # "complete"

\* Nodes().  NodesGatheringWithError calls the accessor of the notification
\* it wraps, drops the result and returns the zero value.
NodesOf(n) == IF n.kind = "complete" THEN n.nodes ELSE {}

\* NodesCount() = 0
NothingToAnalyze(n) == NodesOf(n) = {}
=============================================================================
