---------------------------- MODULE PrivateNodes ----------------------------
(***************************************************************************)
(* Gathering: how a polling round collects statements, from the scraper    *)
(* (pkg/scraping/scraper.go) through the handler of private ("specific")   *)
(* nodes (pkg/storing/specific/private_nodes.go) to the notification the   *)
(* analyzer receives, while the bots' requests (pkg/messaging/pair/        *)
(* server.go) change the node lists (pkg/storing/nodes/nodes_json.go) and  *)
(* private nodes report through the HTTP API (pkg/api/api.go).             *)
(*                                                                         *)
(* Every method of the node lists and of the private events runs under its *)
(* mutex and is one step; what a caller does between two calls is not.     *)
(***************************************************************************)
EXTENDS Notifications, Functions

CONSTANTS
    Urls,
    CommonUrls,    \* URLs the bots add to the common list
    SpecificUrls,  \* URLs the bots add to the specific list
    Statuses,      \* status of a node in the lists loaded at start
    Servers,       \* one pair server per bot (Telegram, Discord)
    SyncCanFail,   \* writing the lists to the file or to Vault can fail
    None           \* not a URL

ASSUME UrlsAssumption ==
    /\ CommonUrls \subseteq Urls /\ SpecificUrls \subseteq Urls
    /\ None \notin Urls
    /\ "none" \in Statuses /\ Statuses \subseteq {"none", "enabled", "disabled"}
    /\ SyncCanFail \in BOOLEAN

VARIABLES
    common, specific, \* the two node lists: status of every URL
    data,             \* last event of a private node, by URL
    server,           \* server[s]: URL whose initial state s is about to write
    api,              \* URL of the API request about to write its event
    scraper,          \* wait, collect or send
    targets,          \* nodes being polled
    remaining,        \* of these, the ones whose event is not yet stored
    polled,           \* of these, the ones with a statement of this round
    handler,          \* receive, filter, delete, put or send
    notification,     \* the notification the handler works on
    snapshot,         \* the specific nodes the filter read
    gathered,         \* nodes with a statement of the handler's round
    written           \* private nodes written since the filter read the list

listVars    == <<common, specific>>
scraperVars == <<scraper, targets, remaining, polled>>
handlerVars == <<handler, notification, snapshot, gathered>>

vars == <<listVars, data, server, api, scraperVars, handlerVars, written>>

\* EnabledNodes() and EnabledSpecificNodes()
Enabled(list) == {u \in Urls : list[u] = "enabled"}

\* NewPrivateNodesHandlerWithUnreachableInitialState
Init ==
    /\ common \in [Urls -> Statuses]
    /\ specific \in [Urls -> Statuses]
    /\ \A u \in Urls : /\ u \notin CommonUrls => common[u] = "none"
                       /\ u \notin SpecificUrls => specific[u] = "none"
    /\ data = [u \in Enabled(specific) |-> "unreachable"]
    /\ server = [s \in Servers |-> None]
    /\ api = None
    /\ scraper = "wait" /\ targets = {} /\ remaining = {} /\ polled = {}
    /\ handler = "receive" /\ notification = GatheringError
    /\ snapshot = {} /\ gathered = {} /\ written = {}

-----------------------------------------------------------------------------
(***************************************************************************)
(* Seeded errors (mutants named in PROJECT.json; no specification uses     *)
(* them).                                                                  *)
(***************************************************************************)
\* All private nodes are notified, stored or not.
NotifyFailedToo(stored, failed) ==
    IF stored \cup failed = {} THEN notification
    ELSE GatheringComplete(NodesOf(notification) \cup stored \cup failed)

\* A node that is not monitored any more is left in the map.
FilterKeeps ==
    /\ handler = "delete"
    /\ handler' = "put"
    /\ UNCHANGED <<listVars, data, server, api, scraperVars, notification, snapshot,
                   gathered, written>>

\* The condition of the filter inverted.
FilterInverted ==
    /\ handler = "delete"
    /\ data' = Restrict(data, DOMAIN data \ snapshot)
    /\ handler' = "put"
    /\ UNCHANGED <<listVars, server, api, scraperVars, notification, snapshot,
                   gathered, written>>

\* The initial state is written over an event that is there already.
WriteInitialOver(s) ==
    /\ server[s] # None
    /\ data' = [x \in DOMAIN data \cup {server[s]} |->
                  IF x = server[s] THEN "unreachable" ELSE data[x]]
    /\ written' = written \cup {server[s]}
    /\ server' = [server EXCEPT ![s] = None]
    /\ UNCHANGED <<listVars, api, scraperVars, handlerVars>>

-----------------------------------------------------------------------------
(***************************************************************************)
(* Bot requests (pair server); each server handles one request at a time   *)
(***************************************************************************)
ListRequest(s) ==
    /\ server[s] = None
    /\ UNCHANGED <<data, api, scraperVars, handlerVars, written>>

InsertRegular(s, u) ==
    /\ ListRequest(s)
    /\ u \in CommonUrls /\ common[u] = "none"
    /\ common' = [common EXCEPT ![u] = "enabled"]
    /\ UNCHANGED <<specific, server>>

\* When the lists cannot be written the node stays in memory, but InsertIfNew
\* returns false and no initial state is written.
InsertSpecific(s, u) ==
    /\ ListRequest(s)
    /\ u \in SpecificUrls /\ specific[u] = "none"
    /\ specific' = [specific EXCEPT ![u] = "enabled"]
    /\ \E synced \in {TRUE, ~ SyncCanFail} :
         server' = IF synced THEN [server EXCEPT ![s] = u] ELSE server
    /\ UNCHANGED common

\* Delete takes the URL from the first list that has it.
Delete(s, u) ==
    /\ ListRequest(s)
    /\ \/ /\ common[u] # "none"
          /\ common' = [common EXCEPT ![u] = "none"]
          /\ UNCHANGED specific
       \/ /\ common[u] = "none" /\ specific[u] # "none"
          /\ specific' = [specific EXCEPT ![u] = "none"]
          /\ UNCHANGED common
    /\ UNCHANGED server

\* The bots update the alias and send Enabled: true along.
Update(s, u) ==
    /\ ListRequest(s)
    /\ \/ /\ common[u] # "none"
          /\ common' = [common EXCEPT ![u] = "enabled"]
          /\ UNCHANGED specific
       \/ /\ common[u] = "none" /\ specific[u] # "none"
          /\ specific' = [specific EXCEPT ![u] = "enabled"]
          /\ UNCHANGED common
    /\ UNCHANGED server

WithEvent(u, event) == [x \in DOMAIN data \cup {u} |-> IF x = u THEN event ELSE data[x]]

\* WriteInitialStateForSpecificNode
WriteInitial(s) ==
    /\ server[s] # None
    /\ data' = IF server[s] \in DOMAIN data THEN data
               ELSE WithEvent(server[s], "unreachable")
    /\ written' = written \cup {server[s]}
    /\ server' = [server EXCEPT ![s] = None]
    /\ UNCHANGED <<listVars, api, scraperVars, handlerVars>>

-----------------------------------------------------------------------------
(***************************************************************************)
(* Reports of private nodes (specificNodesHandler of the API)              *)
(***************************************************************************)
\* A report of a node that is not monitored is refused.
ApiCheck(u) ==
    /\ api = None
    /\ u \in Enabled(specific)
    /\ api' = u
    /\ UNCHANGED <<listVars, data, server, scraperVars, handlerVars, written>>

ApiWrite ==
    /\ api # None
    /\ data' = WithEvent(api, "reported")
    /\ written' = written \cup {api}
    /\ api' = None
    /\ UNCHANGED <<listVars, server, scraperVars, handlerVars>>

-----------------------------------------------------------------------------
(***************************************************************************)
(* The scraper                                                             *)
(***************************************************************************)
PollStart ==
    /\ scraper = "wait"
    /\ scraper' = "collect"
    /\ targets' = Enabled(common)
    /\ remaining' = Enabled(common)
    /\ polled' = {}
    /\ UNCHANGED <<listVars, data, server, api, handlerVars, written>>

\* The event of a node arrives, in any order, and is stored or not.
Collect(u, stored) ==
    /\ scraper = "collect"
    /\ u \in remaining
    /\ remaining' = remaining \ {u}
    /\ polled' = IF stored THEN polled \cup {u} ELSE polled
    /\ UNCHANGED <<listVars, data, server, api, scraper, targets, handlerVars, written>>

PollEnd ==
    /\ scraper = "collect"
    /\ remaining = {}
    /\ scraper' = "send"
    /\ UNCHANGED <<listVars, data, server, api, targets, remaining, polled,
                   handlerVars, written>>

PollResult == IF polled = targets THEN GatheringComplete(targets)
              ELSE GatheringError

\* The scraper's notification is received by the handler, which passes errors
\* through.
Notify ==
    /\ scraper = "send"
    /\ handler = "receive"
    /\ scraper' = "wait"
    /\ notification' = PollResult
    /\ gathered' = polled
    /\ handler' = IF HasError(PollResult) THEN "send" ELSE "filter"
    /\ UNCHANGED <<listVars, data, server, api, targets, remaining, polled,
                   snapshot, written>>

-----------------------------------------------------------------------------
(***************************************************************************)
(* The private nodes handler                                               *)
(***************************************************************************)
\* filterPrivateNodes reads the list, then locks the events.
FilterRead ==
    /\ handler = "filter"
    /\ snapshot' = Enabled(specific)
    /\ written' = {}
    /\ handler' = "delete"
    /\ UNCHANGED <<listVars, data, server, api, scraperVars, notification, gathered>>

FilterDelete ==
    /\ handler = "delete"
    /\ data' = Restrict(data, DOMAIN data \cap snapshot)
    /\ handler' = "put"
    /\ UNCHANGED <<listVars, server, api, scraperVars, notification, snapshot,
                   gathered, written>>

\* The notification after storing the events of stored and failing on failed.
AfterPut(stored, failed) ==
    LET n == IF stored = {} THEN notification
             ELSE GatheringComplete(NodesOf(notification) \cup stored)
    IN  IF failed = {} THEN n ELSE GatheringWithError(n)

PutEvents(failed) ==
    /\ handler = "put"
    /\ notification' = AfterPut(DOMAIN data \ failed, failed)
    /\ gathered' = gathered \cup (DOMAIN data \ failed)
    /\ handler' = "send"
    /\ UNCHANGED <<listVars, data, server, api, scraperVars, snapshot, written>>

\* The analyzer receives the notification.
Deliver ==
    /\ handler = "send"
    /\ handler' = "receive"
    /\ UNCHANGED <<listVars, data, server, api, scraperVars, notification,
                   snapshot, gathered, written>>

-----------------------------------------------------------------------------
Request(s) == \E u \in Urls : \/ InsertRegular(s, u) \/ InsertSpecific(s, u)
                              \/ Delete(s, u) \/ Update(s, u)

ScraperStep ==
    \/ PollStart
    \/ \E u \in Urls, stored \in BOOLEAN : Collect(u, stored)
    \/ PollEnd
    \/ Notify

HandlerStep ==
    \/ FilterRead
    \/ FilterDelete
    \/ \E failed \in SUBSET DOMAIN data : PutEvents(failed)
    \/ Deliver

Next ==
    \/ \E s \in Servers : Request(s) \/ WriteInitial(s)
    \/ \E u \in Urls : ApiCheck(u)
    \/ ApiWrite
    \/ ScraperStep
    \/ HandlerStep

Spec == Init /\ [][Next]_vars

\* The ticker wakes the scraper for ever, polls end at the latest with a
\* timeout, the analyzer comes back for every notification, and a request that
\* was begun is finished.  Nothing obliges a bot or a private node to act.
Fairness ==
    /\ WF_vars(ScraperStep)
    /\ WF_vars(HandlerStep)
    /\ WF_vars(ApiWrite)
    /\ \A s \in Servers : WF_vars(WriteInitial(s))

FairSpec == Spec /\ Fairness

-----------------------------------------------------------------------------
(***************************************************************************)
(* Properties                                                              *)
(***************************************************************************)
TypeOK ==
    /\ common \in [Urls -> {"none", "enabled", "disabled"}]
    /\ specific \in [Urls -> {"none", "enabled", "disabled"}]
    /\ DOMAIN data \subseteq Urls
    /\ data \in [DOMAIN data -> {"unreachable", "reported"}]
    /\ server \in [Servers -> Urls \cup {None}]
    /\ api \in Urls \cup {None}
    /\ scraper \in {"wait", "collect", "send"}
    /\ remaining \subseteq targets /\ polled \subseteq targets /\ targets \subseteq Urls
    /\ handler \in {"receive", "filter", "delete", "put", "send"}
    /\ notification \in Notifications(Urls)
    /\ snapshot \subseteq Urls /\ gathered \subseteq Urls /\ written \subseteq Urls

\* Every node a notification names has a statement of that round in the events
\* storage, whichever events could not be stored (scraper.go 81-107,
\* private_nodes.go 122-136 and 183-195).
NotifiedHaveStatements ==
    handler = "send" => NodesOf(notification) \subseteq gathered

\* The statements of a round are those of nodes that were monitored when the
\* round filtered the private nodes, or were written since: what a deleted
\* node left behind is not stored again (private_nodes.go 62-78).
StoredWereMonitored == handler = "put" => DOMAIN data \subseteq snapshot \cup written

\* The initial state never replaces what the node itself reported, also when
\* the report comes between the insertion and the initial state
\* (private_nodes.go 55-60).
ReportNotReplaced ==
    [][\A u \in DOMAIN data \cap DOMAIN data' :
         data[u] = "reported" => data'[u] = "reported"]_vars

\* A node that is not monitored any more is eventually forgotten for good,
\* whatever requests were under way when it was deleted, provided not every
\* poll fails: a failed one is passed through unfiltered (private_nodes.go
\* 168-197).
DeletedForgotten ==
    []<>(handler = "filter") =>
        \A u \in Urls :
            <>[](u \notin Enabled(specific)) => <>[](u \notin DOMAIN data)

\* Rounds come through for ever, and a monitored node that keeps reporting is
\* eventually in every round in which nothing failed, even if its initial state
\* was lost or never written (api.go 234-297, private_nodes.go 62-78 and 183-195).
ReportingIsGathered ==
    /\ []<>(handler = "send")
    /\ \A u \in Urls :
         <>[](u \in Enabled(specific)) /\ []<>(api = u) =>
             <>[]( /\ u \in DOMAIN data
                   /\ handler = "send" /\ ~ HasError(notification)
                        => u \in NodesOf(notification))

\* A monitored private node has a state from the start: the pair server writes
\* the "unreachable event for the initial specific node state" (server.go 127)
\* of every node it inserts.  False: the filter can delete it, because it reads
\* the list of nodes before it locks the events (private_nodes.go 63-76).
MonitoredHasState ==
    \A u \in Enabled(specific) :
        (\A s \in Servers : server[s] # u) => u \in DOMAIN data
=============================================================================
