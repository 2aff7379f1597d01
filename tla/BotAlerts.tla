------------------------------ MODULE BotAlerts ------------------------------
(***************************************************************************)
(* How a bot shows alerts.  nodemon publishes an alert on the topic of its *)
(* type, and a fixed alert on the topic of fixed alerts.  The bot has one  *)
(* NATS subscription per type, each with its own queue and goroutine, so   *)
(* alerts of one type are handled in order, and a fixed alert may overtake *)
(* the alert it is about.  The bot remembers the message in which it       *)
(* showed an alert until the alert is fixed, and answers that message.     *)
(*                                                                         *)
(* An alert goes through episodes: announced, perhaps repeatedly, then     *)
(* fixed.  An episode number stands for the identifier of the message in   *)
(* which the alert was shown.  The list of nodes a handler asks nodemon    *)
(* for (module PairClient) only delays it here.                            *)
(***************************************************************************)
EXTENDS Naturals, Sequences

CONSTANTS
    Alerts,       \* identifiers of alerts of one type
    Users,        \* goroutines that run /subscribe or /unsubscribe
    Switched,     \* the types /subscribe and /unsubscribe are used for
    Subs,         \* NATS subscriptions
    NoSub,        \* not a subscription
    MaxEpisodes,  \* bound of the episodes of an alert
    MaxQueue      \* bound of the messages waiting in a subscription

ASSUME BotAlertsAssumption ==
    /\ NoSub \notin Subs
    /\ \E r, s \in Subs : r # s
    /\ Switched \subseteq {"alert", "fixed"}
    /\ {MaxEpisodes, MaxQueue} \subseteq Nat

VARIABLES
    bot,         \* telegram or discord
    mute,        \* /mute
    open,        \* alerts whose last message published is not that they are fixed
    episode,     \* the number of the current or next episode of each alert
    sub,         \* the type each NATS subscription is for, or "none"
    queue,       \* the messages each subscription holds
    work,        \* what the goroutine of each subscription does
    registered,  \* the subscription recorded for each type, or NoSub
    user,        \* what each user's command does
    shown,       \* unhandledAlertMessages: the message of each alert, 0 if none
    disturbed,   \* alerts for which the bot missed or confused a message
    doubled      \* two commands have subscribed to one type at the same time

pubVars  == <<open, episode>>
subVars  == <<sub, registered, user, doubled>>
vars     == <<bot, mute, pubVars, subVars, queue, work, shown, disturbed>>

Types == {"alert", "fixed"}

Idle   == [pc |-> "idle", alert |-> CHOOSE a \in Alerts : TRUE, episode |-> 0, found |-> 0]
NoUser == [pc |-> "idle", type |-> "alert", sub |-> NoSub]

Message(a, e) == [alert |-> a, episode |-> e]

\* SubscribeToAllAlerts, when the bot starts.
First  == CHOOSE s \in Subs : TRUE
Second == CHOOSE s \in Subs \ {First} : TRUE

Started ==
    /\ sub' = [s \in Subs |-> IF s = First THEN "alert"
                              ELSE IF s = Second THEN "fixed" ELSE "none"]
    /\ registered' = [t \in Types |-> IF t = "alert" THEN First ELSE Second]
    /\ queue' = [s \in Subs |-> <<>>]
    /\ work' = [s \in Subs |-> Idle]
    /\ user' = [u \in Users |-> NoUser]
    /\ shown' = [a \in Alerts |-> 0]
    /\ mute' = FALSE /\ doubled' = FALSE

Init ==
    /\ bot \in {"telegram", "discord"}
    /\ mute = FALSE /\ doubled = FALSE
    /\ open = {} /\ episode = [a \in Alerts |-> 1]
    /\ sub = [s \in Subs |-> IF s = First THEN "alert"
                             ELSE IF s = Second THEN "fixed" ELSE "none"]
    /\ registered = [t \in Types |-> IF t = "alert" THEN First ELSE Second]
    /\ queue = [s \in Subs |-> <<>>]
    /\ work = [s \in Subs |-> Idle]
    /\ user = [u \in Users |-> NoUser]
    /\ shown = [a \in Alerts |-> 0]
    /\ disturbed = {}

-----------------------------------------------------------------------------
(***************************************************************************)
(* nodemon publishes                                                       *)
(***************************************************************************)
\* Alerts whose messages a subscription holds or is handling.
Held(s) ==
    {queue[s][i].alert : i \in 1..Len(queue[s])}
        \cup (IF work[s].pc = "idle" THEN {} ELSE {work[s].alert})

InFlight(a) == \E s \in Subs : a \in Held(s)

Live(t) == {s \in Subs : sub[s] = t}

\* A message reaches every subscription of its topic; without one it is lost.
Publish(t, m) ==
    /\ \A s \in Live(t) : Len(queue[s]) < MaxQueue
    /\ queue' = [s \in Subs |-> IF sub[s] = t THEN Append(queue[s], m) ELSE queue[s]]

PublishAlert(a) ==
    /\ episode[a] <= MaxEpisodes
    /\ Publish("alert", Message(a, episode[a]))
    /\ open' = open \cup {a}
    /\ disturbed' = IF Live("alert") = {} THEN disturbed \cup {a}
                    ELSE IF InFlight(a) THEN disturbed ELSE disturbed \ {a}
    /\ UNCHANGED <<bot, mute, episode, subVars, work, shown>>

PublishFixed(a) ==
    /\ a \in open
    /\ Publish("fixed", Message(a, episode[a]))
    /\ open' = open \ {a}
    /\ episode' = [episode EXCEPT ![a] = @ + 1]
    /\ disturbed' = IF Live("fixed") = {} THEN disturbed \cup {a} ELSE disturbed
    /\ UNCHANGED <<bot, mute, subVars, work, shown>>

\* The message cannot be built or sent: it is logged.
PublishFails(a) ==
    /\ episode[a] <= MaxEpisodes
    /\ \/ open' = open \cup {a} /\ UNCHANGED episode
       \/ /\ a \in open
          /\ open' = open \ {a}
          /\ episode' = [episode EXCEPT ![a] = @ + 1]
    /\ disturbed' = disturbed \cup {a}
    /\ UNCHANGED <<bot, mute, subVars, queue, work, shown>>

-----------------------------------------------------------------------------
(***************************************************************************)
(* SendAlertMessage, in the goroutine of subscription s                    *)
(***************************************************************************)
Rest(s) == [queue EXCEPT ![s] = Tail(@)]

\* A bot that sleeps drops the message.
ReceiveMuted(s) ==
    /\ work[s].pc = "idle" /\ queue[s] # <<>>
    /\ mute
    /\ queue' = Rest(s)
    /\ disturbed' = disturbed \cup {Head(queue[s]).alert}
    /\ UNCHANGED <<bot, mute, pubVars, subVars, work, shown>>

\* The text is made from the message and the list of nodes.
Receive(s) ==
    /\ work[s].pc = "idle" /\ queue[s] # <<>>
    /\ ~mute
    /\ queue' = Rest(s)
    /\ work' = [work EXCEPT ![s] =
           [pc |-> IF sub[s] = "fixed" THEN "lookup" ELSE "send",
            alert |-> Head(queue[s]).alert,
            episode |-> Head(queue[s]).episode, found |-> 0]]
    /\ UNCHANGED <<bot, mute, pubVars, subVars, shown, disturbed>>

\* The text cannot be made, and the message is dropped.
ConstructFails(s) ==
    /\ work[s].pc \in {"send", "lookup"}
    /\ work' = [work EXCEPT ![s] = Idle]
    /\ disturbed' = disturbed \cup {work[s].alert}
    /\ UNCHANGED <<bot, mute, pubVars, subVars, queue, shown>>

\* Seeded error: the message of an alert that is shown again is not recorded.
SendKeepsFirst(s) ==
    /\ work[s].pc = "send"
    /\ shown' = [shown EXCEPT ![work[s].alert] = IF @ = 0 THEN work[s].episode ELSE @]
    /\ work' = [work EXCEPT ![s] = Idle]
    /\ UNCHANGED <<bot, mute, pubVars, subVars, queue, disturbed>>

Send(s) ==
    /\ work[s].pc = "send"
    /\ shown' = [shown EXCEPT ![work[s].alert] = work[s].episode]
    /\ work' = [work EXCEPT ![s] = Idle]
    /\ UNCHANGED <<bot, mute, pubVars, subVars, queue, disturbed>>

\* Discord: the alert is not recorded.
SendFails(s) ==
    /\ work[s].pc = "send"
    /\ bot = "discord"
    /\ work' = [work EXCEPT ![s] = Idle]
    /\ disturbed' = disturbed \cup {work[s].alert}
    /\ UNCHANGED <<bot, mute, pubVars, subVars, queue, shown>>

\* An alert of the same episode is still on its way to the chat.
Overtaken(s) ==
    \E r \in Subs \ {s} :
        \/ /\ work[r].pc = "send"
           /\ work[r].alert = work[s].alert /\ work[r].episode = work[s].episode
        \/ \E i \in 1..Len(queue[r]) :
               sub[r] = "alert" /\ queue[r][i] = Message(work[s].alert, work[s].episode)

\* GetMessageIDByAlertID.  If there is none an error is told.  The message of a
\* later episode is taken for the one that is fixed.
Lookup(s) ==
    LET a == work[s].alert IN
    /\ work[s].pc = "lookup"
    /\ work' = [work EXCEPT ![s] = IF shown[a] = 0 THEN Idle
                                   ELSE [@ EXCEPT !.pc = "reply", !.found = shown[a]]]
    /\ disturbed' = IF Overtaken(s) \/ shown[a] > work[s].episode
                    THEN disturbed \cup {a} ELSE disturbed
    /\ UNCHANGED <<bot, mute, pubVars, subVars, queue, shown>>

\* Seeded error: the alert is forgotten only if the answer could be sent.
ReplyKeepsOnFailure(s) ==
    /\ work[s].pc = "reply"
    /\ \/ shown' = [shown EXCEPT ![work[s].alert] = 0]
       \/ UNCHANGED shown
    /\ work' = [work EXCEPT ![s] = Idle]
    /\ UNCHANGED <<bot, mute, pubVars, subVars, queue, disturbed>>

\* The answer is sent, or fails, and Delete follows.  If the alert has been shown
\* again since the lookup its new message is forgotten.
Reply(s) ==
    LET a == work[s].alert IN
    /\ work[s].pc = "reply"
    /\ shown' = [shown EXCEPT ![a] = 0]
    /\ work' = [work EXCEPT ![s] = Idle]
    /\ disturbed' = IF shown[a] # work[s].found THEN disturbed \cup {a} ELSE disturbed
    /\ UNCHANGED <<bot, mute, pubVars, subVars, queue>>

-----------------------------------------------------------------------------
(***************************************************************************)
(* /mute and /start, /subscribe and /unsubscribe, which only Telegram has  *)
(***************************************************************************)
Mute(m) ==
    /\ bot = "telegram"
    /\ mute' = m
    /\ UNCHANGED <<bot, pubVars, subVars, queue, work, shown, disturbed>>

SubscribeCheck(u, t) ==
    /\ bot = "telegram"
    /\ user[u].pc = "idle"
    /\ registered[t] = NoSub
    /\ user' = [user EXCEPT ![u] = [pc |-> "subscribe", type |-> t, sub |-> NoSub]]
    /\ doubled' = (doubled \/ \E w \in Users : /\ user[w].pc \in {"subscribe", "add"}
                                             /\ user[w].type = t)
    /\ UNCHANGED <<bot, mute, pubVars, sub, registered, queue, work, shown, disturbed>>

Free(s) ==
    /\ sub[s] = "none" /\ work[s].pc = "idle"
    /\ \A t \in Types : registered[t] # s
    /\ \A u \in Users : user[u].sub # s

SubscribeNats(u, s) ==
    /\ user[u].pc = "subscribe"
    /\ Free(s)
    /\ sub' = [sub EXCEPT ![s] = user[u].type]
    /\ user' = [user EXCEPT ![u] = [pc |-> "add", type |-> user[u].type, sub |-> s]]
    /\ UNCHANGED <<bot, mute, pubVars, registered, doubled, queue, work, shown, disturbed>>

SubscribeFails(u) ==
    /\ user[u].pc = "subscribe"
    /\ user' = [user EXCEPT ![u] = NoUser]
    /\ UNCHANGED <<bot, mute, pubVars, sub, registered, doubled, queue, work, shown, disturbed>>

SubscribeAdd(u) ==
    /\ user[u].pc = "add"
    /\ registered' = [registered EXCEPT ![user[u].type] = user[u].sub]
    /\ user' = [user EXCEPT ![u] = NoUser]
    /\ UNCHANGED <<bot, mute, pubVars, sub, doubled, queue, work, shown, disturbed>>

UnsubscribeRead(u, t) ==
    /\ bot = "telegram"
    /\ user[u].pc = "idle"
    /\ registered[t] # NoSub
    /\ user' = [user EXCEPT ![u] = [pc |-> "unsubscribe", type |-> t, sub |-> registered[t]]]
    /\ UNCHANGED <<bot, mute, pubVars, sub, registered, doubled, queue, work, shown, disturbed>>

\* Seeded error: an error of Unsubscribe is only logged.
UnsubscribeNatsLogged(u) ==
    LET s == user[u].sub IN
    /\ user[u].pc = "unsubscribe"
    /\ sub' = [sub EXCEPT ![s] = "none"]
    /\ queue' = [queue EXCEPT ![s] = <<>>]
    /\ disturbed' = disturbed \cup Held(s)
    /\ user' = [user EXCEPT ![u] = [pc |-> "delete", type |-> user[u].type, sub |-> s]]
    /\ UNCHANGED <<bot, mute, pubVars, registered, doubled, work, shown>>

\* Messages that wait in the subscription are dropped; the one that is handled is
\* finished, besides those of a later subscription.  Unsubscribing twice is an
\* error, and the command ends.
UnsubscribeNats(u) ==
    LET s == user[u].sub IN
    /\ user[u].pc = "unsubscribe"
    /\ IF sub[s] = user[u].type
       THEN /\ sub' = [sub EXCEPT ![s] = "none"]
            /\ queue' = [queue EXCEPT ![s] = <<>>]
            /\ disturbed' = disturbed \cup Held(s)
            /\ user' = [user EXCEPT ![u] = [pc |-> "delete", type |-> user[u].type, sub |-> s]]
       ELSE /\ user' = [user EXCEPT ![u] = NoUser]
            /\ UNCHANGED <<sub, queue, disturbed>>
    /\ UNCHANGED <<bot, mute, pubVars, registered, doubled, work, shown>>

\* Deletes whatever is recorded for the type by now.  If nothing is, the code finds
\* that out first and ends with an error, which comes to the same.
UnsubscribeDelete(u) ==
    /\ user[u].pc = "delete"
    /\ registered' = [registered EXCEPT ![user[u].type] = NoSub]
    /\ user' = [user EXCEPT ![u] = NoUser]
    /\ UNCHANGED <<bot, mute, pubVars, sub, doubled, queue, work, shown, disturbed>>

-----------------------------------------------------------------------------
\* The bot is stopped and started again, or ended by the failed send of an alert
\* on Telegram, which leaves no message to take the identifier of.
Restart ==
    /\ Started
    /\ disturbed' = Alerts
    /\ UNCHANGED <<bot, pubVars>>

SendPanics(s) ==
    /\ work[s].pc = "send"
    /\ bot = "telegram"
    /\ Restart

-----------------------------------------------------------------------------
Handle(s) ==
    \/ ReceiveMuted(s) \/ Receive(s) \/ ConstructFails(s)
    \/ Send(s) \/ SendFails(s) \/ SendPanics(s)
    \/ Lookup(s) \/ Reply(s)

Command(u) ==
    \/ \E t \in Switched : SubscribeCheck(u, t) \/ UnsubscribeRead(u, t)
    \/ \E s \in Subs : SubscribeNats(u, s)
    \/ SubscribeFails(u) \/ SubscribeAdd(u)
    \/ UnsubscribeNats(u) \/ UnsubscribeDelete(u)

Next ==
    \/ \E a \in Alerts : PublishAlert(a) \/ PublishFixed(a) \/ PublishFails(a)
    \/ \E s \in Subs : Handle(s)
    \/ \E m \in BOOLEAN : Mute(m)
    \/ \E u \in Users : Command(u)
    \/ Restart

Spec == Init /\ [][Next]_vars

-----------------------------------------------------------------------------
(***************************************************************************)
(* Properties                                                              *)
(***************************************************************************)
\* A bot that got everything finds, for a fixed alert, the message in which it
\* showed that alert in the same episode, or in a later one: neither an error is
\* told nor an earlier message answered, unless the fixed alert overtakes its alert
\* (environment.go 171-204 and 354-386, alert.go 18-35).
FixedFindsItsAlert ==
    \A s \in Subs :
        (/\ work[s].pc = "lookup" /\ ~doubled
         /\ work[s].alert \notin disturbed /\ ~Overtaken(s))
            => shown[work[s].alert] >= work[s].episode

\* When nothing is on its way, the bot remembers exactly the open alerts, each
\* with the message of its current episode, except for those it was disturbed in
\* since they were last announced (environment.go 190-204, 249-266, 373-386).
RemembersOpenAlerts ==
    \A a \in Alerts :
        (~InFlight(a) /\ a \notin disturbed /\ ~doubled)
            => shown[a] = (IF a \in open THEN episode[a] ELSE 0)

\* What the bot has recorded as a subscription receives messages, and whatever
\* receives messages is recorded, except while a command is at it and after two
\* commands that subscribed at the same time (environment.go 466-510).
SubscriptionsAgree ==
    \A s \in Subs, t \in Types :
        /\ registered[t] = s =>
               \/ sub[s] = t
               \/ \E u \in Users : user[u].pc = "delete" /\ user[u].sub = s
        /\ (sub[s] = t /\ ~doubled) =>
               \/ registered[t] = s
               \/ \E u \in Users : user[u].pc = "add" /\ user[u].sub = s
=============================================================================
