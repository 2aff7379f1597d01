# Nodemon in TLA+

Nodemon watches Waves blockchain nodes: it polls them, stores what they answer,
compares the answers, and tells people through Telegram and Discord bots when
something is wrong and when it is right again.  This directory models the parts
of it that are hard to test: the life of an alert, the goroutines of a round of
analysis, the race of a polling round with requests that change the list of
nodes, that list's storage and its readers, the queries on stored statements
and the criteria that judge them, the search for the height at which two nodes
forked, the watch over an L2 node that stands still, and in the bots the shared
request channels, the messages they remember and their subscriptions.
`PROJECT.json` ties every definition to the lines it models, every property to a
run, and every hazard of the code to the properties about it.

## The system

```
 nodes --HTTP--> Scraper --notification--> PrivateNodesHandler --notification--> Analyzer
                    |                         ^       |                            |  criteria, ForkFinder
                    v                         |       v                            v
               events.Storage <---------------+-- events.Storage              AlertsStorage
                                              |                                    |
 private nodes --POST--> API ---- Write ------+        L2 analyzer --> FanIn <--- alerts
 bots --NATS--> pair server --> nodes.JSONStorage                        |
                                                        pubsub server --NATS--> bots
```

| component | state | operations | what is hard |
|---|---|---|---|
| alert storage (`analysis/storage`) | a map from alert IDs to quota, repeats, threshold, confirmed | `PutAlert`, `Vacuum` | boundaries of three interacting counters over long call sequences |
| analyzer (`analysis/analyzer.go`) | goroutine of `Start`, criterion routines, proxy, unbuffered channels | one round per notification | order of wait, cancel, drain and vacuum; the storage has no lock |
| notifications (`entities/notifications.go`) | - | three kinds | a round in which some things failed |
| scraper (`scraping`) | the round being polled | `poll` | storing can fail for some nodes |
| private nodes handler (`storing/specific`) | last event of every private node | `Write`, `WriteInitialState...`, filter, put | writers during a round; a list read before the lock |
| node list (`storing/nodes`) | two lists, a file or Vault | load, insert, delete, update, read | a sync that fails after the change; a crash; a slice that is read without the lock |
| pair server (`messaging/pair`) | - | requests of the bots | two steps for one insertion, one server per bot |
| API (`api`) | - | `POST` of a private node, reads | check and write are two steps |
| events storage (`storing/events`) | statements by node and time, with a TTL | put, queries by height, search for a common height | rollbacks, missed rounds, unsigned arithmetic, reads in separate transactions |
| fork finder, state hash criterion | local variables of a search | `FindLastCommonStateHash`, `handleSamplesPair` | the storage changes between reads; wrap-around; termination |
| other criteria (`analysis/criteria`), identifiers (`entities/alerts.go`) | - | one function each | streaks over missed rounds, ties, boundaries, identifiers that collide |
| L2 analyzer (`analysis/l2`) | last height, timer, an alert storage | collector, loop | timer against late answers, error path |
| publishing (`messaging/pubsub`) | - | one topic per alert type | order is kept within a type only |
| bots' pair client (`cmd/bots/.../messaging`) | two unbuffered channels shared by all handlers | the loop, handlers | responses that name no request; failures and timeouts |
| bots (`cmd/bots`) | message of each open alert, subscriptions, mute | `SendAlertMessage`, commands | fixed alerts that overtake; two users at once; failed sends |

What makes each part correct, in a sentence: an alert opens when it was reported
often enough, is repeated at exponentially growing distance and closes when it
has been silent for the quota; rounds do not overlap and lose no report; a
notification names only nodes that have a statement; deleted private nodes are
forgotten and reporting ones are not; a written change of the node list survives
a crash, and readers see the nodes that stay; queries answer with what a node
says today; nodes are compared at a height they have in common; a criterion
reports exactly the nodes its definition names; the search for a fork ends and
reports a height it has compared; a bot's handler gets the answer to its own
request, and a fixed alert answers the message in which the alert was shown.

## Modules

**AlertsStorage** is the map of `alerts_storage.go` (`internalStorage`) with its
two operations; `PutAlert` is written as what the code decides (`Confirms`,
`ExceedsBackoff`) and what it stores (`InfoSent`, `InfoHeld`).  Three history
variables hold what a caller sees: `detections`, `announced` and `quiet`.  The
properties relate the map to them.  A missing key reads as Go's zero value.
They are stated for a quota above 1: the code with a quota of 1 or less drops
every alert at the vacuum of the round that reported it, and only 5 (analyzer)
and 8 (L2 analyzer) occur.

**Notifications** has the three kinds of notification and what their methods
return, `NodesGatheringWithError` included.

**Analyzer** composes both with the goroutines of `analyzer.go`: one action per
step between two channel operations.  Channels are unbuffered, so a send and
its receive are one step.  Which alerts a routine finds, and whether it fails,
are inputs.  **AlertFeed** is the abstract specification: what the reader of the
alerts channel is promised, with neither goroutines nor backoff.  `Feed` in
Analyzer instantiates it with the reader's view for `open`.

**PrivateNodes** is gathering: scraper, private nodes handler, the two node
lists, a pair server per bot and the API.  Every method that runs under a mutex
is a step; `filterPrivateNodes` is two (`FilterRead` without, `FilterDelete`
with the lock), and so are the insertion of a specific node (list, then initial
state) and a report to the API (check, then write).  `Enabled(list)` never
fails: the error results of `EnabledNodes` and `EnabledSpecificNodes` are always
nil in `nodes_json.go`, so the branches for them are dead.

**NodeList** is `nodes_json.go` with its two backends: creating and loading the
file or secret, the nodes of the command line, changes under the lock and their
writing (truncate, then write, for the file), a failure at each of these points,
and a crash anywhere.  `Nodes` returns the slice itself: `slots` is the part of
the array that its caller, the pair server serializing a list, goes on reading
after the unlock.  `append` may write into that array or move the list to
another one; an element read while it is overwritten is any value (`Torn`) in
its URL and its alias.  A changed alias is written over the element in place
too; since the URL has the same bytes, only the alias can be torn (`Racing`).
`renamed` are the nodes this happened to since the reader began.  Otherwise
aliases have no values in the model: they decide nothing.
Where PrivateNodes needs the lists it keeps them as sets: no reader there looks
at their order.

**EventsStorage** is `events.go`: per node, a sequence of statements in the order
of their timestamps.  A statement is its status, its height and its state hash,
which is all the queries look at.  The scans of the database are recursive
functions over the sequence, in the direction and with the stop conditions of
the code.  Rounds are taken to have different timestamps (seconds; the interval
is a minute by default and only its sign is validated).

**StatusQuery** is a bot's request for the status of nodes on top of it:
`FindAllStatementsOnCommonHeight` with each read of a node as a step, while the
scraper stores (`Put`) and the retention ends (`Forget`), and the judgement of
`HandleNodesStatus`.  Subtractions of `uint64` wrap at `MaxUint`.

**Criteria** has the other criteria: `StreakOf` and the groups by status on a
history of EventsStorage, and the criteria that compare the values of one round
(`round`).  Identifiers are what the digest is taken of, as sequences of names
and values; the names of a group come in increasing order, which is all that
`Sorted` says.

**ForkFinder** is `FindLastCommonStateHash` and the part of the state hash
criterion around it, for one pair of nodes.  Each read of the storage is a step
of its own, and between two of them statements are stored (`Put`) and expire
(`Forget`).  `uint64` arithmetic wraps at `MaxUint`.  `agreed` and `rejected`
remember what the search saw.

**L2Analyzer** is the loop and the collector of one L2 node on top of
AlertsStorage.  Time is counted in minutes, the period of the collector;
whatever is due in a minute happens in that minute, in any order, so the timer
may win or lose against the answer of its minute.  Sends to the reader are steps
of their own, because the context may be cancelled and the reader gone before
them.  `still` counts the minutes that a stuck node should be judged by.  Its
properties assume that the reader is prompt (less than a minute for an alert)
until shutdown.

**PairClient** is the pair client of a bot (`ClientInit`, `ClientNext`,
`ClientSpec`: a bot has both this and BotAlerts).  A command is the sequence of its
requests, one operator per function of the source; `Begin` starts any command at
any time.  The loop takes a request, has it answered or fails, and offers the
answer until a timeout.  Any handler that waits may receive it (`Deliver`), and
checks only its type.  `lost` says that an answer was dropped or a handler gave
up, `mixed` that a handler got another one's answer.

**BotAlerts** is `SendAlertMessage` with the map `unhandledAlertMessages`, the
publishing of alerts and fixed alerts on topics, and `/mute`, `/subscribe` and
`/unsubscribe`.  Each NATS subscription has a queue and a goroutine; looking up,
answering and forgetting a message are steps of their own, and so are checking,
subscribing and recording.  `disturbed` names the alerts for which the bot missed
or confused a message (muted, unsubscribed, failed to show, overtaken,
restarted) since they were last announced; the properties are about the others.
`doubled` says that two users subscribed to one type at the same time.

`MC...` modules give constants their values, bound what grows and add fairness
where a liveness property needs it; `...Proofs` modules hold the theorems.
Definitions under "Seeded errors" are the mutants of `PROJECT.json`, plausible
bugs that the properties must detect; no specification uses them.

## Runs

| run | shows |
|---|---|
| `alerts_storage` | The storage opens, repeats and closes alerts as promised. Three alerts, needing 1, 2 and 3 reports, backoff 2, quota 3, up to 8 reports in an episode: enough for three announcements (reports 1, 3 and 7) and for every phase of the quota in between. |
| `analyzer` | All interleavings of two routines, one of which can fail, and the proxy, with error, empty and mixed notifications: rounds are disjoint, no report is lost, the reader is up to date, every notification is handled, fixes reach the reader, and the goroutines implement `AlertFeed`. |
| `analyzer_skips` | Violation, see findings. |
| `private_nodes` | A polling round against two bots and the API, with one URL that can be in both lists, all initial lists, and failures of every sync and every put: what is notified is stored, deleted nodes are forgotten, rounds come through for ever, and a node that reports is in every one in which nothing failed. |
| `private_nodes_initial` | Violation, see findings. |
| `node_list` | Three nodes of which one is configured, a common list of up to two and a specific one of up to one, both backends, every failure, and a crash at any point: written changes survive, and a reader of a list misses no node that stays, nor is told a garbled alias but of one that is changed meanwhile. Two nodes in one list are needed for a deletion to move one. The two nodes of the bots are interchangeable (symmetry). A read during which a node is added to the list is not followed further (`NotGrown`): nothing is promised about it, and a reader changes neither the lists nor what is stored. |
| `events` | All histories of two nodes of up to four statements in all (four of one node, or shared) at three heights, with missed rounds, missing hashes, rollbacks and expiry. Queries are evaluated for every height; a request for the status of both nodes runs step by step and the storage changes at most once meanwhile. `depthCommonHeightSearch` is 2 and `heightDifference` 1 so that both limits are met; 4 is the largest integer, so subtractions wrap around. Streaks of 2 within 3 statements, so a streak can lie outside the depth. All rounds of four values for the criteria that compare nodes: groups of two, ties, and a missing base target occur. |
| `fork_finder` | Two nodes that forked at any height from 0 to 5; one skips heights, rolls back and misses rounds; a linear search of 2 heights and a bisection of up to 5; buckets of 3. The storage changes at most once during a search (the theorems have no such bound). |
| `l2_analyzer` | A node at heights 0, 1 and 2 whose requests may fail, a timer of 3 minutes (5 in the code), the quota computed from it, up to 4 reports of an alert: the timer fires again and again, backoff holds reports back, and the context is cancelled at any point. The quota is exact: one less and `StuckIsKnown` fails. |
| `pair_client` | Two handlers that run any of the fourteen commands again and again, with failed requests, timeouts on both sides and restarts: each gets its own answers unless one was lost, and the loop never stops serving. |
| `pair_stuck` | Violation, see findings. |
| `bot_alerts` | One alert in two episodes, any number of repeats, queues of two messages; Telegram with two users who subscribe, unsubscribe and mute at any time, and a third subscription to give to them, and Discord; failures of every send. |

Findings (each is a run that TLC refutes):

* A notification with an error answers 0 for its number of nodes
  (`notifications.go:87`), so a round in which storing one private event failed
  is skipped as if nothing had been gathered.
* `filterPrivateNodes` reads the list before it locks the events
  (`private_nodes.go:63`): a node inserted in between loses its initial state
  and is watched only from its first report on.
* A handler of a bot whose request failed over NATS waits without a deadline
  (`handlers.go:110`), since `runPairLoop` only logs the failure: an alert that
  arrives then is not shown, and neither are later ones of its type.

Results that are no findings but worth knowing:

* Two `/subscribe` at the same time make two subscriptions of which one is
  recorded: alerts are shown twice until a restart (`environment.go:472`).
* A fixed alert that overtakes its alert is told as an error and its alert stays
  open in the bot; if the alert was shown again between lookup and deletion, its
  new message is forgotten (`environment.go:174`, `190`).
* A failed send on Telegram ends the bot (`environment.go:383` logs the error,
  `386` reads the missing message), and so does a status request on Discord that
  was not answered properly (`discord/handlers/handlers.go:123`).
* A failed request restarts the timer of the L2 analyzer (`l2analyzer.go:259`);
  the alert of a stuck node then may age beyond its quota and be announced as
  fixed.  `StuckIsKnown` is about a node that answers.
* A node file torn by a crash is refused at the next start.  A bot that reads the
  list while a node is inserted may miss another one, and one that reads it while an
  alias is changed may be told a garbled alias of that node.
* A node that rolled back and has sent only incomplete statements since is shown
  as unreachable by the status command, because its latest full statement is no
  longer current.  `StatusExact` and `RoundHidesNothing` exclude this case (`calm`).
* The identifier of a state hash alert joins the two groups without a separator:
  {a, b} against {c} and {a} against {b, c} have one identifier, so in different
  rounds one passes for a repeat of the other.  Within a round it cannot happen.
* The message of `ErrBigHeightDifference` says 10 (`events.go:197`) where the limit
  is 50 (`events.go:23`); `ErrStorageIsNotReady` is never returned; the server
  answers a request for one node's statement like one for all (`server.go:97`).

### Fairness

* Analyzer: the goroutine of `Start`, each routine and the proxy run when they
  can (the Go scheduler), and the reader of the alerts channel comes back for
  every alert (the loop of the publisher).  Nothing makes another notification
  arrive; properties that need rounds assume them.
* PrivateNodes: the ticker wakes the scraper for ever and every request to a node
  has a timeout; the analyzer comes back for every notification (shown by
  `EveryNotificationHandled`); requests that were begun are finished.  No bot and
  no private node is obliged to act.
* Alert storage: the owner keeps vacuuming, as it does in every round.
* Fork finder: the goroutine of the search runs; the storage is not obliged to
  change or to stay as it is.
* L2 analyzer: time passes, every request is answered or times out
  (`l2HeightRequestTimeout`), the loop runs when it can.  The reader takes every
  alert until the context is done and may leave then.

* Pair client: the loop takes from every handler that keeps sending (the runtime
  queues the senders of a channel, hence strong fairness of `Take`), NATS answers
  or times out, an answer nobody takes is dropped after a timeout, and the health
  check has a deadline.  Nothing else obliges a handler to stop waiting.
* NodeList, BotAlerts and the events storage have safety properties only.

`CHECK_DEADLOCK` is on in every run: nothing in these components stops, except
the analyzers when their input is closed or their context done, which is the
explicit step `Terminated`.

## Proofs

Every invariant and every action property that a passing run checks is a theorem,
and so is the refinement of `AlertFeed`.  The theorems hold for every value of the
constants under the named assumptions, and for specifications without the bounds
that the runs add.  Where the run has a specification of its own, the theorem is
about a more general one: `QuerySpec` and `CompareSpec` instead of `MCSpec` of
MCEvents, whose steps are steps of theirs.  Only `DeepForkCorrect` is about the
specification of an MC module, MCForkFinder, because the branches the nodes are on
are introduced there; it holds for branches of any length, any bounds, and any two
nodes and hashes.

**AlertsStorageProofs.**  None of the properties is inductive: the map must be
tied to the history.  `EntryInv` says of every alert that it is absent and
forgotten, or that its quota is what the vacuums since its last report have left
of it and, unconfirmed, its repeats are its reports, or, confirmed, its repeats
are at most the threshold and the threshold has the closed form
`1 + (b - 1) * (reports up to the last one forwarded)`.  The closed form is what
makes `SilenceBounded` provable for every backoff.  `ScheduleInv` adds the
recursive form: the reports up to the last announcement are
`AnnouncementAt[announced]`, and the threshold is the distance to the next one.
Theorems: `TypeCorrect`, `OpenCorrect`, `StoredCorrect`, `SilenceCorrect`,
`FixedCorrect`, `ScheduleCorrect`.

**AnalyzerProofs** adds `RoundInv` (where the goroutines can be together) and
`ReaderInv` (the reader knows the open alerts, plus the one being sent, minus
the ones about to be fixed).  Every step of the analyzer is a step of the
storage or leaves it alone, so the storage's invariant carries over.  Theorems:
`RoundsDisjointCorrect`, `NoReportLostCorrect`, `ReaderCorrect`, and
`Refinement`: the analyzer implements `AlertFeed`, for a quota above 1.

**PrivateNodesProofs.**  A notification at the send has its statements because
one that enters the handler has them (`WorkInv`): the scraper has stored what it
names, and the handler stores before it adds.  Theorems: `NotifiedCorrect`,
`StoredCorrect`, `ReportsSurvive`.

**NodeListProofs.**  For crashes the invariant adds to `WrittenSurvives` that a
change that is being written does not count as written (`CleanWhenIdle`) and
that before the file was created nothing is remembered (`FileOK`).  For readers,
`StayInv`: while no node is added the reader's slots begin with the list, and a
node that stayed was shown, whole or with an alias that was being changed
(`IsShown`), or is in a slot the reader has yet to come to.  It
needs the lists to be free of duplicates (`ListsInv`): otherwise the element a
deletion moves would not be the only one of its name.  Theorems:
`WrittenChangesSurvive`, `TypeCorrect`, `StayersCorrect`.

**EventsProofs** is about the events storage with StatusQuery and Criteria.  The
queries are recursive functions.  `Induction` proves by sets, rather than by the
library's schemes, what holds for all numbers up to the length of a history; from
it follow that the functions exist (`Recursion`) and what a scan returns
(`LatestIs`, `FullIs`, `Queries`).  On top of that,

* `AnswersCurrent` is a statement about every storage, given its type (`Stored`);
* a request has the invariant `QInv`.  `StillInv`: while nothing is stored, what
  was read is what is stored.  `CalmInv`: while nodes only move up or miss
  rounds, a reachable node keeps a statement at every common height (`UpInv`),
  the first pass comes to heights that are not below a common one (`LatestInv`),
  the search passes over no common height and does not wrap around (`BoundsInv`),
  a pass at a common height hits for every node and so ends the search
  (`SearchInv`), and the last pass reads what the search has hit (`ReadInv`).
  Theorems: `DifferenceReported`, `RoundsHideNothing`, `StatusIsExact`;
* `StreaksAreExact` has the counter reach the streak exactly when a window of bad
  rounds ends within the depth (`StreakIs`);
* `ComparisonsCorrect` has the walk of `mostFrequentBaseTarget` end at a most
  frequent value, and `IdentifiersDiffer` rests on the groups of a round being
  disjoint and on a group being determined by its sorted names.

**ForkFinderProofs.**  The loop invariant of the linear search: the height it left
last was rejected.  Of the bisection (`BisectInv`): equal hashes were seen just
below `start`, unless it never moved, different ones just above `stop`, unless it
never moved, and the result is one of the two ends.  When the ends meet the
result is a boundary.  Nothing is assumed about the storage, which may change at
every step; heights must be below half of the integers' range, or
`start + stop` overflows.  `LastInv` is about searches that nothing disturbs:
what was read is what is stored, and no common height is above what is left to
search (`AboveInv`).  This needs `OneFork`, that hashes do not agree
again above a fork.  `ForkInv` is about two branches: whatever was found equal is
below the fork, also of statements that are gone by now.  Theorems:
`SearchTypeCorrect`, `BoundaryCorrect`, `LastCommonIsFound`, `DeepForkCorrect`.

**L2AnalyzerProofs.**  The loop's steps are steps of the storage, whose invariant
carries over.  `ReaderInv` says what the reader knows: the open alerts, but for
the one being sent and those being closed.  `TimerInv` is the heart: once the
timer has fired for a height, the vacuums since the last report of the alert,
plus the minutes left on the timer, plus the vacuums this minute has still to
come, are at most `T + 2`; the quota is `T + 3`.  So the report of the next firing
always comes before the quota is used up, whichever of timer and answer wins a
minute.  Theorems: `TypesCorrect`, `StuckCorrect`, `NoFalseAlarmCorrect`.

**BotsProofs** is about BotAlerts and PairClient.

* `SubscriptionsAgree` needs what the users' commands know of each other: a
  subscription about to be recorded is known to nobody else (`AddIsOwn`), one
  about to be deleted from the record is dead and recorded for no other type
  (`DeleteIsDead`), and, unless `doubled`, who subscribes finds nothing recorded
  (`Orderly`).  Theorem: `RecordsAreSubscriptions`.
* What the bot remembers depends on what is under way.  Every message has a place
  in a subscription, 0 being the one its goroutine handles.  `OrderInv` says of
  every undisturbed alert that its messages are in the order of its episodes
  (`InOrder`), that an alert under way is of the open episode or will be looked
  for by its fix (`AlertsCover`), that what a fix looks for is shown or under way
  (`FixedCover`), and that open alerts are shown or under way and the converse
  (`OpenShown`, `ShownOpen`).  Theorems: `FixedAlertsFound`,
  `OpenAlertsRemembered`.
* `OwnAnswers` is nearly inductive: while nothing is lost, at most one handler
  waits and the loop is at its request.  `WaitsForAnswer` adds that this request
  is of a kind whose answer is passed on, or the loop could come back to `select`
  while the handler waits.  Theorem: `AnswersAreOwn`.

Assumptions are the `ASSUME`s of the modules.  Distinguished values are not members
of the sets they are told from; numbers are natural numbers; the configured nodes
are distinct; a bot has at least two subscriptions; two branches differ.  Three
have more to say: `heightDifference` is positive (50 in the code; when
no node is reachable the difference wraps around to 1), the
vacuum quota of the L2 analyzer is the one it computes from its timer, and its
stuck alerts need no confirmation, which the code asks for simple alerts only
(`l2analyzer.go:243`).

Only model-checked is liveness, which TLAPS cannot prove under fairness:
`ClosedEventually`, `EveryNotificationHandled`, `FixedReachesReader`,
`DeletedForgotten`, `ReportingIsGathered`, `SearchEnds`, `FixReachesReader`,
`StopsWhenCancelled`, `RequestsTaken` and `AnsweredUnlessLost`.  The three
disagreements among the findings are counterexamples of TLC.

## Not modelled

HTTP, JSON, NATS itself, the database, the Vault client, templates, the texts of
chat commands, flags, logging and metrics are I/O or formatting.  The start and
shutdown of the main program, with the fan-in of the alert channels, have state
worth modelling and are in the plan.  `FindLastCommonBlock` has no caller among
the criteria.  The criteria are evaluated on one state of the storage (in the
code they read a node in one transaction each, and each judges one node), and the
state hash criterion is followed for one pair of nodes whose statements of the
round are the last ones stored when the pair is picked.  Of aliases NodeList has
only whether they are read whole; they and the flag `Enabled` decide nothing about
the lists and how they are written.

## Plan

1. Done: AlertsStorage, Analyzer with AlertFeed, PrivateNodes, NodeList,
   EventsStorage with StatusQuery and Criteria, ForkFinder, L2Analyzer,
   PairClient, BotAlerts.
2. Done: proofs of all their safety properties.
3. The loop of the L2 analyzer as an implementation of `AlertFeed`, until its
   context is done; type correctness of PrivateNodes and PairClient.
4. Fan-in of the alert channels and the order of shutdown of the main program.
