------------------------- MODULE PrivateNodesProofs -------------------------
(***************************************************************************)
(* What a round notifies and stores, for any nodes, lists and number of    *)
(* pair servers, and whatever they and the private nodes do meanwhile.     *)
(***************************************************************************)
EXTENDS PrivateNodes, TLAPS

\* A notification the handler is at work on names its nodes, all of which have
\* a statement: the scraper's complete notification is one whose poll stored the
\* statement of every target.
WorkInv ==
    handler \in {"filter", "delete", "put"} =>
        /\ notification = GatheringComplete(notification.nodes)
        /\ NodesOf(notification) \subseteq gathered

IInv == WorkInv /\ NotifiedHaveStatements /\ StoredWereMonitored

LEMMA NodesOfComplete ==
  ASSUME NEW S
  PROVE  /\ NodesOf(GatheringComplete(S)) = S
         /\ ~ HasError(GatheringComplete(S))
  BY DEF NodesOf, GatheringComplete, HasError

\* Neither an error nor a notification with an error names any node.
LEMMA NodesOfError ==
  /\ NodesOf(GatheringError) = {} /\ HasError(GatheringError)
  /\ \A n : NodesOf(GatheringWithError(n)) = {}
  BY DEF NodesOf, GatheringError, GatheringWithError, HasError

-----------------------------------------------------------------------------
LEMMA InitIInv == Init => IInv
  BY DEF Init, IInv, WorkInv, NotifiedHaveStatements, StoredWereMonitored

\* A request of a bot changes a list and begins to write an initial state.
LEMMA RequestKeeps ==
  ASSUME IInv, NEW s \in Servers, Request(s)
  PROVE  IInv'
<1>1. UNCHANGED <<data, handlerVars, written>>
  BY DEF Request, InsertRegular, InsertSpecific, Delete, Update, ListRequest
<1> QED
  BY <1>1 DEF handlerVars, IInv, WorkInv, NotifiedHaveStatements, StoredWereMonitored

\* Whoever writes an event of a node makes the node one of those written.
LEMMA WriterKeeps ==
  ASSUME IInv, (\E s \in Servers : WriteInitial(s)) \/ ApiWrite
  PROVE  IInv'
<1>1. UNCHANGED handlerVars
  BY DEF WriteInitial, ApiWrite
<1>2. DOMAIN data' \subseteq DOMAIN data \cup written' /\ written \subseteq written'
  BY DEF WriteInitial, ApiWrite, WithEvent
<1> QED
  BY <1>1, <1>2 DEF handlerVars, IInv, WorkInv, NotifiedHaveStatements, StoredWereMonitored

LEMMA OutsideKeeps ==
  ASSUME IInv,
         \/ \E u \in Urls : ApiCheck(u)
         \/ PollStart \/ PollEnd
         \/ \E u \in Urls, stored \in BOOLEAN : Collect(u, stored)
         \/ UNCHANGED vars
  PROVE  IInv'
<1>1. UNCHANGED <<data, handlerVars, written>>
  BY DEF ApiCheck, PollStart, PollEnd, Collect, vars
<1> QED
  BY <1>1 DEF handlerVars, IInv, WorkInv, NotifiedHaveStatements, StoredWereMonitored

\* The handler receives the scraper's notification.
LEMMA NotifyKeeps ==
  ASSUME IInv, Notify
  PROVE  IInv'
<1>1. CASE polled = targets
  <2>1. notification' = GatheringComplete(targets) /\ gathered' = targets /\ handler' = "filter"
    BY <1>1, NodesOfComplete DEF Notify, PollResult
  <2>2. notification'.nodes = targets
    BY <2>1 DEF GatheringComplete
  <2> QED
    BY <2>1, <2>2, NodesOfComplete
       DEF IInv, WorkInv, NotifiedHaveStatements, StoredWereMonitored
<1>2. CASE polled # targets
  <2>1. notification' = GatheringError /\ handler' = "send"
    BY <1>2, NodesOfError DEF Notify, PollResult
  <2> QED
    BY <2>1, NodesOfError DEF IInv, WorkInv, NotifiedHaveStatements, StoredWereMonitored
<1> QED
  BY <1>1, <1>2

\* What the filter leaves in the map is in the list it has read.
LEMMA FilterKeepsInv ==
  ASSUME IInv, FilterRead \/ FilterDelete
  PROVE  IInv'
<1>1. CASE FilterRead
  BY <1>1 DEF FilterRead, IInv, WorkInv, NotifiedHaveStatements, StoredWereMonitored
<1>2. CASE FilterDelete
  <2>1. DOMAIN data' \subseteq snapshot' /\ handler' = "put"
    BY <1>2 DEF FilterDelete, Restrict
  <2>2. handler = "delete" /\ UNCHANGED <<notification, gathered>>
    BY <1>2 DEF FilterDelete
  <2> QED
    BY <2>1, <2>2 DEF IInv, WorkInv, NotifiedHaveStatements, StoredWereMonitored
<1> QED
  BY <1>1, <1>2

\* Every node that is added to the notification has its event stored; with an
\* event that failed the notification names no node at all.
LEMMA PutKeeps ==
  ASSUME IInv, NEW failed \in SUBSET DOMAIN data, PutEvents(failed)
  PROVE  IInv'
<1> DEFINE stored == DOMAIN data \ failed
<1>1. NodesOf(notification) \subseteq gathered
  BY DEF PutEvents, IInv, WorkInv
<1>2. NodesOf(AfterPut(stored, failed)) \subseteq NodesOf(notification) \cup stored
  BY NodesOfComplete, NodesOfError DEF AfterPut
<1>3. /\ notification' = AfterPut(stored, failed)
      /\ gathered' = gathered \cup stored /\ handler' = "send"
  BY DEF PutEvents
<1> HIDE DEF stored
<1> QED
  BY <1>1, <1>2, <1>3 DEF IInv, WorkInv, NotifiedHaveStatements, StoredWereMonitored

LEMMA DeliverKeeps ==
  ASSUME IInv, Deliver
  PROVE  IInv'
  BY DEF Deliver, IInv, WorkInv, NotifiedHaveStatements, StoredWereMonitored

LEMMA NextKeeps == IInv /\ [Next]_vars => IInv'
  BY RequestKeeps, WriterKeeps, OutsideKeeps, NotifyKeeps, FilterKeepsInv, PutKeeps,
     DeliverKeeps DEF Next, ScraperStep, HandlerStep

LEMMA Invariant == Spec => []IInv
  BY InitIInv, NextKeeps, PTL DEF Spec

-----------------------------------------------------------------------------
\* The analyzer is told of no node without a statement of the round, whichever
\* polls fail and whichever events cannot be stored (scraper.go 81-107,
\* private_nodes.go 122-136 and 183-195).
THEOREM NotifiedCorrect == Spec => []NotifiedHaveStatements
<1>1. IInv => NotifiedHaveStatements
  BY DEF IInv
<1> QED
  BY <1>1, Invariant, PTL

\* Whatever is written while a round filters the private nodes, the round stores
\* events of nodes that were monitored when it filtered them or were written
\* since (private_nodes.go 62-78).
THEOREM StoredCorrect == Spec => []StoredWereMonitored
<1>1. IInv => StoredWereMonitored
  BY DEF IInv
<1> QED
  BY <1>1, Invariant, PTL

\* No step of any of the writers replaces what a node has reported by an initial
\* state (private_nodes.go 55-60).
LEMMA StepKeepsReports ==
  ASSUME [Next]_vars, NEW u \in DOMAIN data \cap DOMAIN data', data[u] = "reported"
  PROVE  data'[u] = "reported"
<1>1. CASE UNCHANGED data
  BY <1>1
<1>2. CASE \E s \in Servers : WriteInitial(s)
  BY <1>2 DEF WriteInitial, WithEvent
<1>3. CASE ApiWrite
  BY <1>3 DEF ApiWrite, WithEvent
<1>4. CASE FilterDelete
  BY <1>4 DEF FilterDelete, Restrict
<1>5. CASE \E s \in Servers : Request(s)
  <2>1. UNCHANGED data
    BY <1>5 DEF Request, InsertRegular, InsertSpecific, Delete, Update, ListRequest
  <2> QED
    BY <2>1
<1>6. CASE ScraperStep
  BY <1>6, <1>1 DEF ScraperStep, PollStart, Collect, PollEnd, Notify
<1>7. CASE FilterRead \/ Deliver \/ \E failed \in SUBSET DOMAIN data : PutEvents(failed)
  BY <1>7, <1>1 DEF FilterRead, Deliver, PutEvents
<1> QED
  BY <1>1, <1>2, <1>3, <1>4, <1>5, <1>6, <1>7 DEF Next, HandlerStep, ApiCheck, vars

\* The same of every behaviour, for any number of bots that insert nodes while
\* nodes report and rounds filter.
THEOREM ReportsSurvive == Spec => ReportNotReplaced
<1>1. [Next]_vars => [\A u \in DOMAIN data \cap DOMAIN data' :
                        data[u] = "reported" => data'[u] = "reported"]_vars
  BY StepKeepsReports
<1> QED
  BY <1>1, PTL DEF Spec, ReportNotReplaced
=============================================================================
