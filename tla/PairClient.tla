----------------------------- MODULE PairClient -----------------------------
(***************************************************************************)
(* The requests of a bot to nodemon.  Every command, alert or health check *)
(* of a bot runs in a goroutine of its own and puts its requests on one    *)
(* channel; a single loop takes a request, asks nodemon over NATS, and     *)
(* puts what comes back on one response channel.  Both channels are        *)
(* unbuffered and shared by all handlers, and a response does not say      *)
(* which request it answers.                                               *)
(*                                                                         *)
(* nodemon is not here: a request over NATS is answered or fails.  What a  *)
(* handler does with the contents of an answer is left out, except for the *)
(* type of the answer, which it checks.                                    *)
(***************************************************************************)
EXTENDS Naturals, Sequences

CONSTANTS
    Handlers,  \* goroutines that run a command, an alert or a health check
    NoOne      \* not a handler

ASSUME HandlersAssumption == NoOne \notin Handlers

VARIABLES
    cmd,    \* what each handler runs, or "none"
    step,   \* the position in its requests
    pc,     \* idle, sending (its request is not taken), waiting (for an answer)
    loop,   \* select, nats (a request is out), reply (an answer is offered)
    asker,  \* whose request the loop is at, NoOne if it gave up waiting
    kind,   \* the kind of that request
    lost,   \* an answer a handler waits for was lost, or a handler gave up
    mixed   \* a handler got an answer to a request that is not its own

clientVars == <<cmd, step, pc, loop, asker, kind, lost, mixed>>

-----------------------------------------------------------------------------
(***************************************************************************)
(* The requests of every command                                           *)
(***************************************************************************)
RequestAllNodes == <<"list", "specific">>

\* A sequence of requests for each command, named after the function that
\* makes them.  AddNewNodeHandler and RemoveNodeHandler are those of Telegram.
health              == <<"list">>
SendAlertMessage    == RequestAllNodes
ScheduleNodesStatus == RequestAllNodes \o <<"statements">>

editPool          == RequestAllNodes
aliasesCmd        == RequestAllNodes
AddNewNodeHandler == <<"insert">> \o RequestAllNodes
addCmd            == AddNewNodeHandler \o <<"list">>
RemoveNodeHandler == RequestAllNodes \o <<"delete">> \o RequestAllNodes
addAliasCmd       == <<"update">>
statementCmd      == <<"statement">>
statusCmd         == RequestAllNodes \o <<"statements">>
viewChains        == RequestAllNodes \o <<"statements">>

RequestAddNode    == <<"insert">>
RequestRemoveNode == <<"delete">>
handleStatusCmd   == RequestAllNodes \o <<"statements">>

Program ==
    [ health |-> health, alert |-> SendAlertMessage, scheduled |-> ScheduleNodesStatus,
      pool |-> editPool, aliases |-> aliasesCmd, add |-> addCmd, remove |-> RemoveNodeHandler,
      addAlias |-> addAliasCmd, statement |-> statementCmd, status |-> statusCmd,
      chains |-> viewChains, addDiscord |-> RequestAddNode,
      removeDiscord |-> RequestRemoveNode, statusDiscord |-> handleStatusCmd ]

Commands == DOMAIN Program

\* The type of the answer; both lists have the same one.  The loop passes no
\* answer on for a request that changes a node.
Answer ==
    [ list |-> "NodesListResponse", specific |-> "NodesListResponse",
      statements |-> "NodesStatementsResponse",
      statement |-> "NodeStatementResponse",
      insert |-> "none", update |-> "none", delete |-> "none" ]

HasAnswer(k) == Answer[k] # "none"

Request(h) == Program[cmd[h]][step[h]]

\* Commands that go on without a list of nodes they failed to get.
IgnoresListError == {"status", "scheduled", "statusDiscord"}

\* Commands that go on without the statements, and dereference nil.
IgnoresStatementsError == {"scheduled", "statusDiscord"}

\* Commands that send a message between two requests, and end if that fails.
EndsEarly == {"add", "remove"}

-----------------------------------------------------------------------------
ClientInit ==
    /\ cmd = [h \in Handlers |-> "none"]
    /\ step = [h \in Handlers |-> 1]
    /\ pc = [h \in Handlers |-> "idle"]
    /\ loop = "select" /\ asker = NoOne /\ kind = "list"
    /\ lost = FALSE /\ mixed = FALSE

Begin(h, c) ==
    /\ pc[h] = "idle"
    /\ cmd' = [cmd EXCEPT ![h] = c]
    /\ step' = [step EXCEPT ![h] = 1]
    /\ pc' = [pc EXCEPT ![h] = "sending"]
    /\ UNCHANGED <<loop, asker, kind, lost, mixed>>

\* h goes on with request k of its command, or ends if there is none.
Continue(h, k) ==
    IF k <= Len(Program[cmd[h]])
    THEN /\ step' = [step EXCEPT ![h] = k]
         /\ pc' = [pc EXCEPT ![h] = "sending"]
         /\ UNCHANGED cmd
    ELSE /\ step' = [step EXCEPT ![h] = 1]
         /\ pc' = [pc EXCEPT ![h] = "idle"]
         /\ cmd' = [cmd EXCEPT ![h] = "none"]

End(h) == Continue(h, Len(Program[cmd[h]]) + 1)

\* A message to the chat between two requests fails, or the URL is not one.
EndEarly(h) ==
    /\ pc[h] = "sending"
    /\ cmd[h] \in EndsEarly
    /\ Request(h) \in {"list", "delete"} /\ step[h] > 1
    /\ End(h)
    /\ UNCHANGED <<loop, asker, kind, lost, mixed>>

-----------------------------------------------------------------------------
(***************************************************************************)
(* runPairLoop and handlePairRequest                                       *)
(***************************************************************************)
Take(h) ==
    /\ loop = "select"
    /\ pc[h] = "sending"
    /\ loop' = "nats"
    /\ asker' = h
    /\ kind' = Request(h)
    /\ IF HasAnswer(Request(h))
       THEN /\ pc' = [pc EXCEPT ![h] = "waiting"]
            /\ UNCHANGED <<cmd, step>>
       ELSE Continue(h, step[h] + 1)
    /\ UNCHANGED <<lost, mixed>>

\* Seeded error: the statement of one node is not passed on.
AnsweredNotStatement ==
    /\ loop = "nats"
    /\ loop' = IF HasAnswer(kind) /\ kind # "statement" THEN "reply" ELSE "select"
    /\ UNCHANGED <<cmd, step, pc, asker, kind, lost, mixed>>

Answered ==
    /\ loop = "nats"
    /\ loop' = IF HasAnswer(kind) THEN "reply" ELSE "select"
    /\ UNCHANGED <<cmd, step, pc, asker, kind, lost, mixed>>

\* No answer within the timeout, nobody subscribed, or not JSON: it is logged.
NatsFails ==
    /\ loop = "nats"
    /\ loop' = "select"
    /\ lost' = (lost \/ HasAnswer(kind))
    /\ UNCHANGED <<cmd, step, pc, asker, kind, mixed>>

\* Seeded error: the loop offers an answer until a handler takes it.
NeverTimesOut == FALSE /\ UNCHANGED clientVars

\* No handler took the answer before the timeout.
ReplyTimeout ==
    /\ loop = "reply"
    /\ loop' = "select"
    /\ lost' = TRUE
    /\ UNCHANGED <<cmd, step, pc, asker, kind, mixed>>

-----------------------------------------------------------------------------
(***************************************************************************)
(* A handler receives an answer: any handler that waits may get it         *)
(***************************************************************************)
TypeMatches(h) == Answer[kind] = Answer[Request(h)]

Deliver(h) ==
    /\ loop = "reply"
    /\ pc[h] = "waiting"
    /\ loop' = "select"
    /\ mixed' = (mixed \/ asker # h)
    /\ UNCHANGED <<asker, kind, lost>>

ReceiveOk(h) ==
    /\ Deliver(h)
    /\ TypeMatches(h)
    /\ Continue(h, step[h] + 1)

\* The conversion fails and the command ends with an error, or goes on with
\* its next request if that is not for a list.
ReceiveMismatch(h) ==
    /\ Deliver(h)
    /\ ~TypeMatches(h)
    /\ IF cmd[h] \in IgnoresListError /\ Request(h) # "statements"
       THEN Continue(h, Len(Program[cmd[h]]))
       ELSE ~(cmd[h] \in IgnoresStatementsError) /\ End(h)

\* HandleNodesStatus dereferences the statements the handler did not get; the
\* bot ends and is started again.
ReceiveCrash(h) ==
    /\ loop = "reply"
    /\ pc[h] = "waiting"
    /\ ~TypeMatches(h)
    /\ cmd[h] \in IgnoresStatementsError /\ Request(h) = "statements"
    /\ cmd' = [x \in Handlers |-> "none"]
    /\ step' = [x \in Handlers |-> 1]
    /\ pc' = [x \in Handlers |-> "idle"]
    /\ loop' = "select" /\ asker' = NoOne /\ kind' = "list"
    /\ lost' = FALSE /\ mixed' = FALSE

\* Only the health check has a deadline while it waits for its answer.
GiveUp(h) ==
    /\ pc[h] = "waiting"
    /\ cmd[h] = "health"
    /\ End(h)
    /\ asker' = IF asker = h THEN NoOne ELSE asker
    /\ lost' = TRUE
    /\ UNCHANGED <<loop, kind, mixed>>

\* The bot is stopped and started again.
ClientRestart ==
    /\ cmd' = [x \in Handlers |-> "none"]
    /\ step' = [x \in Handlers |-> 1]
    /\ pc' = [x \in Handlers |-> "idle"]
    /\ loop' = "select" /\ asker' = NoOne /\ kind' = "list"
    /\ lost' = FALSE /\ mixed' = FALSE

-----------------------------------------------------------------------------
ReceiveAnswer(h) == ReceiveOk(h) \/ ReceiveMismatch(h) \/ ReceiveCrash(h)

HandlerStep(h) == Take(h) \/ ReceiveAnswer(h) \/ EndEarly(h) \/ GiveUp(h)

LoopStep == Answered \/ NatsFails \/ ReplyTimeout

ClientNext ==
    \/ \E h \in Handlers, c \in Commands : Begin(h, c)
    \/ \E h \in Handlers : HandlerStep(h)
    \/ LoopStep
    \/ ClientRestart

ClientSpec == ClientInit /\ [][ClientNext]_clientVars

\* The runtime queues the senders of a channel, so the loop takes from each of
\* them in turn; NATS answers or the timeout of the request passes; an answer
\* that nobody takes is dropped after a timeout; the health check has a deadline.
ClientFairness ==
    /\ \A h \in Handlers : SF_clientVars(Take(h)) /\ WF_clientVars(GiveUp(h))
    /\ WF_clientVars(Answered \/ NatsFails)
    /\ WF_clientVars(ReplyTimeout \/ \E h \in Handlers : ReceiveAnswer(h))

ClientFairSpec == ClientSpec /\ ClientFairness

-----------------------------------------------------------------------------
(***************************************************************************)
(* Properties                                                              *)
(***************************************************************************)
TypeOK ==
    /\ cmd \in [Handlers -> Commands \cup {"none"}]
    /\ pc \in [Handlers -> {"idle", "sending", "waiting"}]
    /\ \A h \in Handlers : pc[h] = "idle" \/ step[h] \in 1..Len(Program[cmd[h]])
    /\ loop \in {"select", "nats", "reply"}
    /\ asker \in Handlers \cup {NoOne}
    /\ kind \in DOMAIN Answer
    /\ lost \in BOOLEAN /\ mixed \in BOOLEAN

Waiting == {h \in Handlers : pc[h] = "waiting"}

\* As long as no answer was lost and no health check gave up, nothing a handler
\* receives is the answer to another one's request, although responses carry no
\* identification: at most one handler waits, and it is the one whose request
\* the loop is at (handlers.go 80-157, pair_client.go 57-73).
OwnAnswers ==
    ~lost => /\ ~mixed
             /\ Waiting \subseteq (IF loop = "select" THEN {} ELSE {asker})

\* A handler that has a request to make gets it taken, whichever requests fail
\* and whoever gives up: the loop never stays at an answer that nobody takes
\* (pair_client.go 135-145, 171-181, 239-249).
RequestsTaken == \A h \in Handlers : pc[h] = "sending" ~> pc[h] # "sending"

\* A handler that waits is answered, unless an answer was lost or a health
\* check gave up (handlers.go 85-91, 108-118, 150-156; pair_client.go 78-103).
AnsweredUnlessLost ==
    \A h \in Handlers : pc[h] = "waiting" ~> (pc[h] # "waiting" \/ lost)

\* An alert a bot has received is shown: its handler gets past the request for
\* the list of nodes (environment.go 158-205 and 342-386).
AlertsAreShown ==
    \A h \in Handlers : cmd[h] = "alert" ~> cmd[h] # "alert"
=============================================================================
