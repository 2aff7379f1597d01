----------------------------- MODULE BotsProofs -----------------------------
(***************************************************************************)
(* The two parts of a bot.  The subscriptions it has recorded are those it *)
(* has, for any number of users that subscribe and unsubscribe at the same *)
(* time, and the messages it remembers are those of the open alerts.  No   *)
(* answer of its pair client goes to the wrong handler, for any number of  *)
(* handlers.                                                               *)
(***************************************************************************)
EXTENDS BotAlerts, PairClient, TLAPS

UserSteps == {"idle", "subscribe", "add", "unsubscribe", "delete"}

SubsOK ==
    /\ sub \in [Subs -> Types \cup {"none"}]
    /\ registered \in [Types -> Subs \cup {NoSub}]
    /\ user \in [Users -> [pc : UserSteps, type : Types, sub : Subs \cup {NoSub}]]

\* Users that are about to subscribe to type t.
Subscribing(u) == user[u].pc \in {"subscribe", "add"}

\* A subscription that a user is about to record is a live one, and nobody else
\* knows of it.
AddIsOwn ==
    \A u \in Users : user[u].pc = "add" =>
        /\ user[u].sub \in Subs
        /\ sub[user[u].sub] = user[u].type
        /\ \A t \in Types : registered[t] # user[u].sub
        /\ \A w \in Users \ {u} : user[w].sub # user[u].sub

\* A subscription that a user is about to delete from the record, or to end, is
\* recorded for no other type; in the first case it is dead already, and no
\* other user is about to delete it.
DeleteIsDead ==
    \A u \in Users : user[u].pc \in {"unsubscribe", "delete"} =>
        /\ user[u].sub \in Subs
        /\ \A t \in Types : registered[t] = user[u].sub => t = user[u].type
        /\ user[u].pc = "delete" =>
             /\ sub[user[u].sub] = "none"
             /\ \A w \in Users \ {u} : user[w].pc = "delete" => user[w].sub # user[u].sub

\* No subscription is recorded for two types.
RecordedOnce ==
    \A t1, t2 \in Types : registered[t1] = registered[t2] /\ registered[t1] # NoSub => t1 = t2

\* As long as no two users subscribe to one type at the same time, a user who
\* does finds nothing recorded, and one who deletes a record deletes the one of
\* the subscription that was ended.
Orderly ==
    ~ doubled =>
        /\ \A u \in Users : Subscribing(u) =>
             /\ registered[user[u].type] = NoSub
             /\ \A w \in Users \ {u} : Subscribing(w) => user[w].type # user[u].type
        /\ \A u \in Users : user[u].pc = "delete" =>
             registered[user[u].type] = user[u].sub

IInv ==
    /\ SubsOK /\ AddIsOwn /\ DeleteIsDead /\ RecordedOnce /\ Orderly
    /\ SubscriptionsAgree

-----------------------------------------------------------------------------
LEMMA FirstAndSecond == First \in Subs /\ Second \in Subs /\ First # Second
<1>1. First \in Subs
  BY BotAlertsAssumption DEF First
<1>2. \E s \in Subs \ {First} : TRUE
  BY BotAlertsAssumption
<1>3. Second \in Subs \ {First}
  BY <1>2 DEF Second
<1> QED
  BY <1>1, <1>3

\* A bot that has just started has the two subscriptions it has recorded.
LEMMA StartedIInv ==
  ASSUME sub = [s \in Subs |-> IF s = First THEN "alert"
                               ELSE IF s = Second THEN "fixed" ELSE "none"],
         registered = [t \in Types |-> IF t = "alert" THEN First ELSE Second],
         user = [u \in Users |-> NoUser]
  PROVE  IInv
<1>1. SubsOK
  BY FirstAndSecond DEF SubsOK, NoUser, Types, UserSteps
<1>2. \A u \in Users : user[u].pc = "idle"
  BY DEF NoUser
<1>3. AddIsOwn /\ DeleteIsDead /\ Orderly
  BY <1>2 DEF AddIsOwn, DeleteIsDead, Orderly, Subscribing
<1>4. RecordedOnce /\ SubscriptionsAgree
  BY FirstAndSecond DEF RecordedOnce, SubscriptionsAgree, Types
<1> QED
  BY <1>1, <1>3, <1>4 DEF IInv

LEMMA InitIInv == Init => IInv
  BY StartedIInv DEF Init

\* The same for a bot that is started again.
LEMMA StartedAgain ==
  ASSUME Started
  PROVE  IInv'
<1>1. SubsOK'
  BY FirstAndSecond DEF Started, SubsOK, NoUser, Types, UserSteps
<1>2. \A u \in Users : user'[u].pc = "idle"
  BY DEF Started, NoUser
<1>3. AddIsOwn' /\ DeleteIsDead' /\ Orderly'
  BY <1>2 DEF AddIsOwn, DeleteIsDead, Orderly, Subscribing
<1>4. RecordedOnce' /\ SubscriptionsAgree'
  BY FirstAndSecond DEF Started, RecordedOnce, SubscriptionsAgree, Types
<1> QED
  BY <1>1, <1>3, <1>4 DEF IInv

\* Steps of nodemon, of the handlers and of /mute do not touch subscriptions.
LEMMA OtherStepsKeep ==
  ASSUME IInv, UNCHANGED subVars
  PROVE  IInv'
  BY DEF subVars, IInv, SubsOK, AddIsOwn, DeleteIsDead, RecordedOnce, Orderly,
         SubscriptionsAgree, Subscribing

-----------------------------------------------------------------------------
LEMMA SubscribeCheckKeeps ==
  ASSUME IInv, NEW u \in Users, NEW t \in Types, SubscribeCheck(u, t)
  PROVE  IInv'
<1> DEFINE me == [pc |-> "subscribe", type |-> t, sub |-> NoSub]
<1>1. user' = [user EXCEPT ![u] = me] /\ sub' = sub /\ registered' = registered
  BY DEF SubscribeCheck
<1>2. user[u].pc = "idle" /\ registered[t] = NoSub
  BY DEF SubscribeCheck
<1>3. \A w \in Users : user'[w] = IF w = u THEN me ELSE user[w]
  BY <1>1 DEF IInv, SubsOK
<1>4. SubsOK'
  BY <1>1 DEF IInv, SubsOK, UserSteps
<1>5. AddIsOwn'
  BY <1>1, <1>3, BotAlertsAssumption DEF IInv, AddIsOwn
<1>6. DeleteIsDead' /\ RecordedOnce'
  BY <1>1, <1>3 DEF IInv, DeleteIsDead, RecordedOnce
<1>7. Orderly'
  <2> SUFFICES ASSUME ~ doubled' PROVE Orderly'
    BY DEF Orderly
  <2>1. ~ doubled /\ \A w \in Users : Subscribing(w) => user[w].type # t
    BY DEF SubscribeCheck, Subscribing
  <2> QED
    BY <1>1, <1>2, <1>3, <2>1 DEF IInv, Orderly, Subscribing
<1>8. SubscriptionsAgree'
  <2>1. ~ doubled' => ~ doubled
    BY DEF SubscribeCheck
  <2> QED
    BY <1>1, <1>2, <1>3, <2>1 DEF IInv, SubscriptionsAgree
<1> QED
  BY <1>4, <1>5, <1>6, <1>7, <1>8 DEF IInv

LEMMA SubscribeNatsKeeps ==
  ASSUME IInv, NEW u \in Users, NEW s \in Subs, SubscribeNats(u, s)
  PROVE  IInv'
<1> DEFINE me == [pc |-> "add", type |-> user[u].type, sub |-> s]
<1>1. /\ sub' = [sub EXCEPT ![s] = user[u].type]
      /\ registered' = registered /\ doubled' = doubled
      /\ user[u].pc = "subscribe"
  BY DEF SubscribeNats
<1>2. \A w \in Users : user'[w] = IF w = u THEN me ELSE user[w]
  BY DEF SubscribeNats, IInv, SubsOK
<1>3. me.pc = "add" /\ me.sub = s /\ me.type = user[u].type /\ user[u].type \in Types
  BY DEF IInv, SubsOK
<1>4. /\ \A t \in Types : registered[t] # s
      /\ \A w \in Users : user[w].sub # s
  BY DEF SubscribeNats, Free
<1>5. SubsOK'
  BY DEF SubscribeNats, IInv, SubsOK, UserSteps
<1>6. \A r \in Subs : sub'[r] = IF r = s THEN user[u].type ELSE sub[r]
  BY <1>1 DEF IInv, SubsOK
<1>7. AddIsOwn'
  BY <1>1, <1>2, <1>3, <1>4, <1>6 DEF IInv, AddIsOwn
<1>8. DeleteIsDead' /\ RecordedOnce'
  BY <1>1, <1>2, <1>3, <1>4, <1>6 DEF IInv, DeleteIsDead, RecordedOnce
<1>9. Orderly'
  BY <1>1, <1>2, <1>3 DEF IInv, Orderly, Subscribing
<1>10. SubscriptionsAgree'
  BY <1>1, <1>2, <1>3, <1>4, <1>6 DEF IInv, SubscriptionsAgree
<1> QED
  BY <1>5, <1>7, <1>8, <1>9, <1>10 DEF IInv

\* A command that ends before it has changed anything.
LEMMA EndsKeep ==
  ASSUME IInv, NEW u \in Users, user[u].pc \in {"subscribe", "unsubscribe"},
         user' = [user EXCEPT ![u] = NoUser], UNCHANGED <<sub, registered, doubled>>
  PROVE  IInv'
<1>1. \A w \in Users : user'[w] = IF w = u THEN NoUser ELSE user[w]
  BY DEF IInv, SubsOK
<1>2. SubsOK'
  BY DEF IInv, SubsOK, NoUser, UserSteps, Types
<1>3. NoUser.pc = "idle" /\ NoUser.sub = NoSub /\ NoSub \notin Subs
  BY BotAlertsAssumption DEF NoUser
<1>4. AddIsOwn'
  BY <1>1, <1>3 DEF IInv, AddIsOwn
<1>5. DeleteIsDead' /\ RecordedOnce' /\ Orderly'
  BY <1>1, <1>3 DEF IInv, DeleteIsDead, RecordedOnce, Orderly, Subscribing
<1>6. SubscriptionsAgree'
  BY <1>1, <1>3 DEF IInv, SubscriptionsAgree
<1> QED
  BY <1>2, <1>4, <1>5, <1>6 DEF IInv

LEMMA SubscribeAddKeeps ==
  ASSUME IInv, NEW u \in Users, SubscribeAdd(u)
  PROVE  IInv'
<1> DEFINE t == user[u].type
           s == user[u].sub
<1>1. user[u].pc = "add" /\ sub' = sub /\ doubled' = doubled
  BY DEF SubscribeAdd
<1>2. /\ t \in Types /\ s \in Subs /\ sub[s] = t
      /\ \A x \in Types : registered[x] # s
      /\ \A w \in Users \ {u} : user[w].sub # s
  BY <1>1 DEF IInv, SubsOK, AddIsOwn
<1>3. \A w \in Users : user'[w] = IF w = u THEN NoUser ELSE user[w]
  BY DEF SubscribeAdd, IInv, SubsOK
<1>4. \A x \in Types : registered'[x] = IF x = t THEN s ELSE registered[x]
  BY DEF SubscribeAdd, IInv, SubsOK
<1>5. NoUser.pc = "idle" /\ NoUser.sub = NoSub /\ NoSub \notin Subs
  BY BotAlertsAssumption DEF NoUser
<1>6. SubsOK'
  BY <1>2 DEF SubscribeAdd, IInv, SubsOK, NoUser, UserSteps, Types
<1>7. AddIsOwn'
  BY <1>1, <1>2, <1>3, <1>4, <1>5 DEF IInv, AddIsOwn
<1>8. DeleteIsDead' /\ RecordedOnce'
  BY <1>1, <1>2, <1>3, <1>4, <1>5 DEF IInv, DeleteIsDead, RecordedOnce
<1>9. Orderly'
  <2> SUFFICES ASSUME ~ doubled PROVE Orderly'
    BY <1>1 DEF Orderly
  <2>1. registered[t] = NoSub /\ \A w \in Users \ {u} : Subscribing(w) => user[w].type # t
    BY <1>1 DEF IInv, Orderly, Subscribing
  <2>2. \A w \in Users : user[w].pc = "delete" => user[w].type # t
    BY <2>1, <1>5 DEF IInv, Orderly, DeleteIsDead
  <2>3. \A w \in Users : user[w].type \in Types
    BY DEF IInv, SubsOK
  <2> QED
    BY <1>1, <1>3, <1>4, <1>5, <2>1, <2>2, <2>3 DEF IInv, Orderly, Subscribing
<1>10. SubscriptionsAgree'
  <2> SUFFICES ASSUME NEW r \in Subs, NEW x \in Types
               PROVE  /\ registered'[x] = r =>
                           \/ sub'[r] = x
                           \/ \E w \in Users : user'[w].pc = "delete" /\ user'[w].sub = r
                      /\ (sub'[r] = x /\ ~ doubled') =>
                           \/ registered'[x] = r
                           \/ \E w \in Users : user'[w].pc = "add" /\ user'[w].sub = r
    BY DEF SubscriptionsAgree
  <2>1. registered'[x] = r =>
           sub'[r] = x \/ \E w \in Users : user'[w].pc = "delete" /\ user'[w].sub = r
    BY <1>1, <1>2, <1>3, <1>4 DEF IInv, SubscriptionsAgree
  <2>2. ASSUME sub[r] = x, ~ doubled, x = t
        PROVE  r = s
    <3>1. registered[t] = NoSub /\ \A w \in Users \ {u} : Subscribing(w) => user[w].type # t
      BY <1>1, <2>2 DEF IInv, Orderly, Subscribing
    <3>2. \E w \in Users : user[w].pc = "add" /\ user[w].sub = r
      BY <2>2, <3>1, <1>5 DEF IInv, SubscriptionsAgree
    <3>3. PICK w \in Users : user[w].pc = "add" /\ user[w].sub = r
      BY <3>2
    <3>4. user[w].type = t
      BY <2>2, <3>3 DEF IInv, AddIsOwn
    <3> QED
      BY <3>1, <3>3, <3>4 DEF Subscribing
  <2>3. ASSUME sub[r] = x, ~ doubled, x # t
        PROVE  registered'[x] = r \/ \E w \in Users : user'[w].pc = "add" /\ user'[w].sub = r
    <3>1. r # s
      BY <1>2, <2>3
    <3> QED
      BY <1>1, <1>3, <1>4, <2>3, <3>1 DEF IInv, SubscriptionsAgree
  <2> QED
    BY <1>1, <1>4, <2>1, <2>2, <2>3
<1> QED
  BY <1>6, <1>7, <1>8, <1>9, <1>10 DEF IInv

-----------------------------------------------------------------------------
LEMMA UnsubscribeReadKeeps ==
  ASSUME IInv, NEW u \in Users, NEW t \in Types, UnsubscribeRead(u, t)
  PROVE  IInv'
<1> DEFINE me == [pc |-> "unsubscribe", type |-> t, sub |-> registered[t]]
<1>1. /\ sub' = sub /\ registered' = registered /\ doubled' = doubled
      /\ user[u].pc = "idle" /\ registered[t] \in Subs
  BY DEF UnsubscribeRead, IInv, SubsOK
<1>2. \A w \in Users : user'[w] = IF w = u THEN me ELSE user[w]
  BY DEF UnsubscribeRead, IInv, SubsOK
<1>3. SubsOK'
  BY <1>1 DEF UnsubscribeRead, IInv, SubsOK, UserSteps
<1>4. AddIsOwn'
  BY <1>1, <1>2 DEF IInv, AddIsOwn
<1>5. DeleteIsDead' /\ RecordedOnce'
  BY <1>1, <1>2, BotAlertsAssumption DEF IInv, DeleteIsDead, RecordedOnce
<1>6. Orderly'
  BY <1>1, <1>2 DEF IInv, Orderly, Subscribing
<1>7. SubscriptionsAgree'
  BY <1>1, <1>2 DEF IInv, SubscriptionsAgree
<1> QED
  BY <1>3, <1>4, <1>5, <1>6, <1>7 DEF IInv

LEMMA UnsubscribeNatsKeeps ==
  ASSUME IInv, NEW u \in Users, UnsubscribeNats(u)
  PROVE  IInv'
<1> DEFINE s == user[u].sub
           t == user[u].type
<1>1. CASE sub[s] # t
  BY <1>1, EndsKeep DEF UnsubscribeNats
<1>2. CASE sub[s] = t
  <2>1. /\ user[u].pc = "unsubscribe" /\ registered' = registered /\ doubled' = doubled
        /\ sub' = [sub EXCEPT ![s] = "none"]
        /\ user' = [user EXCEPT ![u] = [pc |-> "delete", type |-> t, sub |-> s]]
    BY <1>2 DEF UnsubscribeNats
  <2>2. s \in Subs /\ t \in Types
    BY <2>1 DEF IInv, SubsOK, DeleteIsDead
  <2>3. \A w \in Users : /\ user'[w].pc = IF w = u THEN "delete" ELSE user[w].pc
                         /\ user'[w].sub = user[w].sub
                         /\ user'[w].type = user[w].type
    BY <2>1 DEF IInv, SubsOK
  <2>4. \A r \in Subs : sub'[r] = IF r = s THEN "none" ELSE sub[r]
    BY <2>1 DEF IInv, SubsOK
  <2>5. SubsOK'
    BY <2>1 DEF IInv, SubsOK, UserSteps
  <2>6. AddIsOwn'
    BY <2>1, <2>3, <2>4 DEF IInv, AddIsOwn
  <2>7. DeleteIsDead' /\ RecordedOnce'
    <3>1. "none" \notin Types
      BY DEF Types
    <3>2. \A w \in Users : user[w].pc = "delete" => user[w].sub # s
      BY <1>2, <2>2, <3>1 DEF IInv, DeleteIsDead
    <3>3. RecordedOnce'
      BY <2>1 DEF IInv, RecordedOnce
    <3>4. ASSUME NEW w \in Users, user'[w].pc \in {"unsubscribe", "delete"}
          PROVE  /\ user'[w].sub \in Subs
                 /\ \A x \in Types : registered'[x] = user'[w].sub => x = user'[w].type
      <4>1. user[w].pc \in {"unsubscribe", "delete"}
        BY <2>1, <2>3, <3>4
      <4> QED
        BY <2>1, <2>3, <4>1 DEF IInv, DeleteIsDead
    <3>5. ASSUME NEW w \in Users, user'[w].pc = "delete"
          PROVE  sub'[user'[w].sub] = "none"
      <4>1. CASE w = u
        BY <2>2, <2>3, <2>4, <4>1
      <4>2. CASE w # u
        BY <2>2, <2>3, <2>4, <3>5, <4>2 DEF IInv, DeleteIsDead
      <4> QED
        BY <4>1, <4>2
    <3>6. ASSUME NEW w \in Users, user'[w].pc = "delete",
                 NEW v \in Users \ {w}, user'[v].pc = "delete"
          PROVE  user'[v].sub # user'[w].sub
      BY <2>3, <3>2, <3>6 DEF IInv, DeleteIsDead
    <3> QED
      BY <3>3, <3>4, <3>5, <3>6 DEF DeleteIsDead
  <2>8. ~ doubled => registered[t] = s
    <3> SUFFICES ASSUME ~ doubled PROVE registered[t] = s
      OBVIOUS
    <3>1. ~ \E w \in Users : user[w].pc = "add" /\ user[w].sub = s
      BY <2>1 DEF IInv, AddIsOwn
    <3> QED
      BY <1>2, <2>2, <3>1 DEF IInv, SubscriptionsAgree
  <2>9. Orderly'
    BY <2>1, <2>3, <2>8 DEF IInv, Orderly, Subscribing
  <2>10. "none" \notin Types
    BY DEF Types
  <2>11. SubscriptionsAgree'
    <3> SUFFICES ASSUME NEW r \in Subs, NEW x \in Types
                 PROVE  /\ registered'[x] = r =>
                             \/ sub'[r] = x
                             \/ \E w \in Users : user'[w].pc = "delete" /\ user'[w].sub = r
                        /\ (sub'[r] = x /\ ~ doubled') =>
                             \/ registered'[x] = r
                             \/ \E w \in Users : user'[w].pc = "add" /\ user'[w].sub = r
      BY DEF SubscriptionsAgree
    <3>1. CASE r = s
      BY <2>1, <2>3, <2>4, <2>10, <3>1
    <3>2. CASE r # s
      BY <2>1, <2>3, <2>4, <3>2 DEF IInv, SubscriptionsAgree
    <3> QED
      BY <3>1, <3>2
  <2> QED
    BY <2>5, <2>6, <2>7, <2>9, <2>11 DEF IInv
<1> QED
  BY <1>1, <1>2

LEMMA UnsubscribeDeleteKeeps ==
  ASSUME IInv, NEW u \in Users, UnsubscribeDelete(u)
  PROVE  IInv'
<1> DEFINE s == user[u].sub
           t == user[u].type
<1>1. user[u].pc = "delete" /\ sub' = sub /\ doubled' = doubled
  BY DEF UnsubscribeDelete
<1>2. t \in Types /\ s \in Subs /\ sub[s] = "none" /\ "none" \notin Types
  BY <1>1 DEF IInv, SubsOK, DeleteIsDead, Types
<1>3. \A w \in Users : user'[w] = IF w = u THEN NoUser ELSE user[w]
  BY DEF UnsubscribeDelete, IInv, SubsOK
<1>4. \A x \in Types : registered'[x] = IF x = t THEN NoSub ELSE registered[x]
  BY DEF UnsubscribeDelete, IInv, SubsOK
<1>5. NoUser.pc = "idle" /\ NoUser.sub = NoSub /\ NoSub \notin Subs
  BY BotAlertsAssumption DEF NoUser
<1>6. SubsOK'
  BY DEF UnsubscribeDelete, IInv, SubsOK, NoUser, UserSteps, Types
<1>7. AddIsOwn'
  BY <1>1, <1>3, <1>4, <1>5 DEF IInv, AddIsOwn
<1>8. DeleteIsDead' /\ RecordedOnce'
  BY <1>1, <1>3, <1>4, <1>5 DEF IInv, DeleteIsDead, RecordedOnce
<1>9. Orderly'
  <2> SUFFICES ASSUME ~ doubled PROVE Orderly'
    BY <1>1 DEF Orderly
  <2>1. \A w \in Users \ {u} : user[w].pc = "delete" => user[w].type # t
    BY <1>1 DEF IInv, Orderly, DeleteIsDead
  <2>2. \A w \in Users : user[w].type \in Types
    BY DEF IInv, SubsOK
  <2> QED
    BY <1>1, <1>3, <1>4, <1>5, <2>1, <2>2 DEF IInv, Orderly, Subscribing
<1>10. SubscriptionsAgree'
  <2> SUFFICES ASSUME NEW r \in Subs, NEW x \in Types
               PROVE  /\ registered'[x] = r =>
                           \/ sub'[r] = x
                           \/ \E w \in Users : user'[w].pc = "delete" /\ user'[w].sub = r
                      /\ (sub'[r] = x /\ ~ doubled') =>
                           \/ registered'[x] = r
                           \/ \E w \in Users : user'[w].pc = "add" /\ user'[w].sub = r
    BY DEF SubscriptionsAgree
  <2>1. ASSUME registered'[x] = r
        PROVE  sub'[r] = x \/ \E w \in Users : user'[w].pc = "delete" /\ user'[w].sub = r
    <3>1. x # t /\ registered[x] = r
      BY <1>4, <1>5, <2>1
    <3>2. r # s
      BY <1>1, <3>1 DEF IInv, DeleteIsDead
    <3> QED
      BY <1>1, <1>3, <3>1, <3>2 DEF IInv, SubscriptionsAgree
  <2>2. ASSUME sub[r] = x, ~ doubled
        PROVE  registered'[x] = r \/ \E w \in Users : user'[w].pc = "add" /\ user'[w].sub = r
    <3>1. registered[t] = s /\ r # s
      BY <1>1, <1>2, <2>2 DEF IInv, Orderly
    <3> QED
      BY <1>1, <1>3, <1>4, <2>2, <3>1 DEF IInv, SubscriptionsAgree
  <2> QED
    BY <1>1, <2>1, <2>2
<1> QED
  BY <1>6, <1>7, <1>8, <1>9, <1>10 DEF IInv

-----------------------------------------------------------------------------
LEMMA NextKeeps == IInv /\ [Next]_vars => IInv'
<1> SUFFICES ASSUME IInv, [Next]_vars PROVE IInv'
  OBVIOUS
<1>1. CASE UNCHANGED vars
  BY <1>1, OtherStepsKeep DEF vars
<1>2. CASE \E a \in Alerts : PublishAlert(a) \/ PublishFixed(a) \/ PublishFails(a)
  BY <1>2, OtherStepsKeep DEF PublishAlert, PublishFixed, PublishFails
<1>3. ASSUME NEW s \in Subs, Handle(s)
      PROVE  IInv'
  <2>1. CASE SendPanics(s)
    BY <2>1, StartedAgain DEF SendPanics, Restart
  <2>2. CASE ~ SendPanics(s)
    <3>1. UNCHANGED subVars
      BY <1>3, <2>2 DEF Handle, ReceiveMuted, Receive, ConstructFails, Send, SendFails,
                        Lookup, Reply
    <3> QED
      BY <3>1, OtherStepsKeep
  <2> QED
    BY <2>1, <2>2
<1>4. CASE \E m \in BOOLEAN : Mute(m)
  BY <1>4, OtherStepsKeep DEF Mute
<1>5. ASSUME NEW u \in Users, Command(u)
      PROVE  IInv'
  <2>1. \A t \in Switched : t \in Types
    BY BotAlertsAssumption DEF Types
  <2>2. CASE SubscribeFails(u)
    BY <2>2, EndsKeep DEF SubscribeFails
  <2> QED
    BY <1>5, <2>1, <2>2, SubscribeCheckKeeps, UnsubscribeReadKeeps, SubscribeNatsKeeps,
       SubscribeAddKeeps, UnsubscribeNatsKeeps, UnsubscribeDeleteKeeps DEF Command
<1>6. CASE Restart
  BY <1>6, StartedAgain DEF Restart
<1> QED
  BY <1>1, <1>2, <1>3, <1>4, <1>5, <1>6 DEF Next

\* For any number of users who subscribe and unsubscribe at the same time, with
\* the steps of their commands interleaved in any way and the bot restarted at
\* any moment: what is recorded receives messages or is being deleted, and what
\* receives messages is recorded or about to be, unless two users have
\* subscribed to one type at the same time (environment.go 466-510).
THEOREM RecordsAreSubscriptions == Spec => []SubscriptionsAgree
<1>1. IInv => SubscriptionsAgree
  BY DEF IInv
<1> QED
  BY <1>1, InitIInv, NextKeeps, PTL DEF Spec

-----------------------------------------------------------------------------
(***************************************************************************)
(* What the bot remembers, and which message a fixed alert finds.  The     *)
(* messages of an alert in a subscription have places: 0 is the one its    *)
(* goroutine handles, the others are those of the queue.                   *)
(***************************************************************************)
At(s, i) == IF i = 0 THEN Message(work[s].alert, work[s].episode) ELSE queue[s][i]

Places(s, a) ==
    {i \in 0..Len(queue[s]) : At(s, i).alert = a /\ (i = 0 => work[s].pc # "idle")}

\* A message of the episode e of alert a is in flight on topic t.
Pending(t, a, e) ==
    \E s \in Subs : sub[s] = t /\ \E i \in Places(s, a) : At(s, i).episode = e

\* It says that a is fixed, and its handler has not looked for the alert yet.
Unread(a, e) ==
    \E s \in Subs : sub[s] = "fixed" /\ \E i \in Places(s, a) :
        At(s, i).episode = e /\ (i = 0 => work[s].pc = "lookup")

\* Messages in flight are those of subscriptions that are live.
Carried(a) ==
    \A s \in Subs : \A i \in Places(s, a) :
        /\ sub[s] \in Types
        /\ i = 0 => IF sub[s] = "alert" THEN work[s].pc = "send"
                    ELSE work[s].pc \in {"lookup", "reply"}

\* They are in the order of the episodes, and an episode is fixed once.
InOrder(a) ==
    \A s \in Subs : \A i, j \in Places(s, a) : i < j =>
        /\ At(s, i).episode <= At(s, j).episode
        /\ sub[s] = "fixed" => At(s, i).episode # At(s, j).episode

\* An alert that is not shown yet is no older than the one shown, and is open or
\* will be looked for by its fix.
AlertsCover(a) ==
    \A s \in Subs : \A i \in Places(s, a) : sub[s] = "alert" =>
        /\ shown[a] <= At(s, i).episode
        /\ (a \in open /\ At(s, i).episode = episode[a]) \/ Unread(a, At(s, i).episode)

\* What a fix looks for is in flight or has been shown, and what it has found is
\* the message of its own episode.
FixedCover(a) ==
    \A s \in Subs : \A i \in Places(s, a) : sub[s] = "fixed" =>
        /\ At(s, i).episode < episode[a]
        /\ IF i = 0 /\ work[s].pc = "reply" THEN work[s].found = At(s, i).episode
           ELSE shown[a] >= At(s, i).episode \/ Pending("alert", a, At(s, i).episode)

\* An open alert is shown or in flight; and a message that is remembered is that
\* of an open alert, or will be forgotten, or replaced by a later one.
OpenShown(a) == a \in open => shown[a] = episode[a] \/ Pending("alert", a, episode[a])
ShownOpen(a) ==
    (\A e \in Nat : ~ Pending("alert", a, e)) =>
        \/ shown[a] = 0
        \/ a \in open /\ shown[a] = episode[a]
        \/ Pending("fixed", a, shown[a])

AInv(a) ==
    /\ Carried(a) /\ InOrder(a) /\ AlertsCover(a) /\ FixedCover(a)
    /\ OpenShown(a) /\ ShownOpen(a)

Steps    == {"idle", "send", "lookup", "reply"}
Messages == [alert : Alerts, episode : Nat]

Typed ==
    /\ queue \in [Subs -> Seq(Messages)]
    /\ work \in [Subs -> [pc : Steps, alert : Alerts \cup {Idle.alert},
                          episode : Nat, found : Nat]]
    /\ \A s \in Subs : work[s].pc # "idle" => work[s].alert \in Alerts
    /\ shown \in [Alerts -> Nat] /\ episode \in [Alerts -> Nat \ {0}]
    /\ open \subseteq Alerts
    /\ \A s \in Subs : sub[s] = "none" => queue[s] = <<>>

Episodes ==
    \A a \in Alerts :
        /\ shown[a] <= episode[a]
        /\ \A s \in Subs : \A i \in Places(s, a) : At(s, i).episode \in 1..episode[a]

\* All this is so of the alerts the bot was not disturbed in, as long as no two
\* users have subscribed to one type at the same time.
OrderInv == ~ doubled => \A a \in Alerts \ disturbed : AInv(a)

NInv == IInv /\ Typed /\ Episodes /\ OrderInv

\* A step leaves the places of a alone.
Stays(s, a) ==
    /\ Places(s, a)' = Places(s, a)
    /\ \A i \in Places(s, a) : At(s, i)' = At(s, i) /\ sub'[s] = sub[s]

-----------------------------------------------------------------------------
\* What is at a place.
LEMMA PlaceIs ==
  ASSUME Typed, NEW s \in Subs, NEW a \in Alerts, NEW i \in Places(s, a)
  PROVE  /\ i \in Nat /\ i <= Len(queue[s]) /\ At(s, i).alert = a
         /\ At(s, i).episode \in Nat
         /\ i = 0 => At(s, i).episode = work[s].episode /\ work[s].alert = a
                     /\ work[s].pc \in Steps \ {"idle"}
         /\ i # 0 => i \in 1..Len(queue[s]) /\ At(s, i) = queue[s][i]
<1>1. i \in 0..Len(queue[s]) /\ At(s, i).alert = a /\ (i = 0 => work[s].pc # "idle")
  BY DEF Places
<1>2. queue[s] \in Seq(Messages)
  BY DEF Typed
<1>3. CASE i = 0
  BY <1>1, <1>2, <1>3 DEF At, Message, Typed
<1>4. CASE i # 0
  <2>1. i \in 1..Len(queue[s]) /\ i \in Nat /\ i <= Len(queue[s])
    BY <1>1, <1>2, <1>4
  <2>2. At(s, i) = queue[s][i]
    BY <1>4 DEF At
  <2>3. queue[s][i] \in Messages
    BY <1>2, <2>1
  <2> HIDE DEF At
  <2> QED
    BY <1>1, <1>4, <2>1, <2>2, <2>3 DEF Messages
<1> QED
  BY <1>3, <1>4

\* An alert whose messages all stay in flight, in their order: those of a
\* subscription may move up by one place, to the goroutine.
LEMMA MovedKeep ==
  ASSUME Typed, NEW a \in Alerts, AInv(a),
         shown'[a] = shown[a], episode'[a] = episode[a], a \in open' <=> a \in open,
         NEW d \in [Subs -> {0, 1}],
         \A s \in Subs : \A i \in Places(s, a) : i >= d[s],
         \A s \in Subs : Places(s, a)' = {i - d[s] : i \in Places(s, a)},
         \A s \in Subs : \A i \in Places(s, a) :
            /\ sub'[s] = sub[s]
            /\ At(s, i - d[s])'.episode = At(s, i).episode
            /\ i - d[s] = 0 =>
                 IF i = 0 THEN work'[s].pc = work[s].pc /\ work'[s].found = work[s].found
                 ELSE work'[s].pc = IF sub[s] = "alert" THEN "send" ELSE "lookup"
  PROVE  AInv(a)'
<1>1. \A t, e : Pending(t, a, e)' <=> Pending(t, a, e)
  BY DEF Pending
<1>2. \A s \in Subs : \A i \in Places(s, a) : i \in Nat /\ At(s, i).episode \in Nat
  BY PlaceIs
<1>3. \A s \in Subs : \A k \in Places(s, a)' : \E i \in Places(s, a) :
         /\ k = i - d[s] /\ At(s, k)'.episode = At(s, i).episode /\ sub'[s] = sub[s]
         /\ k \in Nat /\ i \in Nat /\ d[s] \in {0, 1}
         /\ k = 0 => IF i = 0 THEN work'[s].pc = work[s].pc /\ work'[s].found = work[s].found
                     ELSE work'[s].pc = IF sub[s] = "alert" THEN "send" ELSE "lookup"
  BY <1>2
<1>4. \A e : Unread(a, e) => Unread(a, e)'
  <2> SUFFICES ASSUME NEW e, NEW s \in Subs, sub[s] = "fixed", NEW i \in Places(s, a),
                      At(s, i).episode = e, i = 0 => work[s].pc = "lookup"
               PROVE  Unread(a, e)'
    BY DEF Unread
  <2>1. /\ i - d[s] \in Places(s, a)' /\ At(s, i - d[s])'.episode = e /\ sub'[s] = "fixed"
        /\ i - d[s] = 0 => work'[s].pc = "lookup"
    BY <1>2
  <2> QED
    BY <2>1 DEF Unread
<1>5. Carried(a)'
  BY <1>3 DEF AInv, Carried
<1>6. InOrder(a)'
  <2> SUFFICES ASSUME NEW s \in Subs, NEW k \in Places(s, a)', NEW l \in Places(s, a)', k < l
               PROVE  /\ At(s, k)'.episode <= At(s, l)'.episode
                      /\ sub'[s] = "fixed" => At(s, k)'.episode # At(s, l)'.episode
    BY DEF InOrder
  <2>1. PICK i \in Places(s, a) : k = i - d[s] /\ At(s, k)'.episode = At(s, i).episode
                                  /\ sub'[s] = sub[s] /\ i \in Nat
    BY <1>3
  <2>2. PICK j \in Places(s, a) : l = j - d[s] /\ At(s, l)'.episode = At(s, j).episode
                                  /\ j \in Nat
    BY <1>3
  <2>3. i < j
    BY <2>1, <2>2
  <2> QED
    BY <2>1, <2>2, <2>3 DEF AInv, InOrder
<1>7. AlertsCover(a)'
  BY <1>3, <1>4 DEF AInv, AlertsCover
<1>8. FixedCover(a)'
  <2> SUFFICES ASSUME NEW s \in Subs, NEW k \in Places(s, a)', sub'[s] = "fixed"
               PROVE  /\ At(s, k)'.episode < episode'[a]
                      /\ IF k = 0 /\ work'[s].pc = "reply"
                         THEN work'[s].found = At(s, k)'.episode
                         ELSE \/ shown'[a] >= At(s, k)'.episode
                              \/ Pending("alert", a, At(s, k).episode)'
    BY DEF FixedCover
  <2>1. PICK i \in Places(s, a) :
           /\ k = i - d[s] /\ At(s, k)'.episode = At(s, i).episode /\ sub'[s] = sub[s]
           /\ i \in Nat
           /\ k = 0 => IF i = 0 THEN work'[s].pc = work[s].pc /\ work'[s].found = work[s].found
                       ELSE work'[s].pc = "lookup"
    BY <1>3
  <2>2. k # 0 => i # 0
    BY <2>1
  <2> QED
    BY <1>1, <2>1, <2>2 DEF AInv, FixedCover
<1>9. OpenShown(a)' /\ ShownOpen(a)'
  BY <1>1 DEF AInv, OpenShown, ShownOpen
<1> QED
  BY <1>5, <1>6, <1>7, <1>8, <1>9 DEF AInv

\* The same for messages that do not move.
LEMMA StaysKeep ==
  ASSUME Typed, NEW a \in Alerts, AInv(a),
         shown'[a] = shown[a], episode'[a] = episode[a], a \in open' <=> a \in open,
         \A s \in Subs : Stays(s, a),
         \A s \in Subs : 0 \in Places(s, a) =>
            work'[s].pc = work[s].pc /\ work'[s].found = work[s].found
  PROVE  AInv(a)'
<1> DEFINE d == [s \in Subs |-> 0]
<1>1. \A s \in Subs : \A i \in Places(s, a) : i \in Nat
  BY PlaceIs
<1>2. d \in [Subs -> {0, 1}] /\ \A s \in Subs : d[s] = 0
  OBVIOUS
<1> HIDE DEF d
<1>3. \A s \in Subs : \A i \in Places(s, a) : i - d[s] = i /\ i >= d[s]
  BY <1>1, <1>2
<1>4. \A s \in Subs : Places(s, a)' = {i - d[s] : i \in Places(s, a)}
  BY <1>3 DEF Stays
<1>5. \A s \in Subs : \A i \in Places(s, a) :
            /\ sub'[s] = sub[s]
            /\ At(s, i - d[s])'.episode = At(s, i).episode
            /\ i - d[s] = 0 =>
                 IF i = 0 THEN work'[s].pc = work[s].pc /\ work'[s].found = work[s].found
                 ELSE work'[s].pc = IF sub[s] = "alert" THEN "send" ELSE "lookup"
  <2> SUFFICES ASSUME NEW s \in Subs, NEW i \in Places(s, a)
               PROVE  /\ sub'[s] = sub[s]
                      /\ At(s, i - d[s])'.episode = At(s, i).episode
                      /\ i - d[s] = 0 =>
                           IF i = 0 THEN work'[s].pc = work[s].pc /\ work'[s].found = work[s].found
                           ELSE work'[s].pc = IF sub[s] = "alert" THEN "send" ELSE "lookup"
    OBVIOUS
  <2>1. i - d[s] = i
    BY <1>3
  <2>2. At(s, i)' = At(s, i) /\ sub'[s] = sub[s]
    BY DEF Stays
  <2> HIDE DEF Stays
  <2>3. At(s, i - d[s])' = At(s, i)'
    BY <2>1 DEF At
  <2> QED
    BY <2>1, <2>2, <2>3
<1> QED
  BY <1>2, <1>3, <1>4, <1>5, MovedKeep

-----------------------------------------------------------------------------
\* A type has one live subscription at most.
LEMMA OneLive ==
  ASSUME IInv, ~ doubled, NEW r \in Subs, NEW s \in Subs, sub[r] = sub[s], sub[s] \in Types
  PROVE  r = s
<1> DEFINE t == sub[s]
           Adds(u, x) == u \in Users /\ user[u].pc = "add" /\ user[u].sub = x
<1>1. registered[t] = s \/ \E u \in Users : Adds(u, s)
  BY DEF IInv, SubscriptionsAgree
<1>2. registered[t] = r \/ \E u \in Users : Adds(u, r)
  BY DEF IInv, SubscriptionsAgree
<1>3. \A u, x : Adds(u, x) /\ sub[x] = t =>
        user[u].type = t /\ Subscribing(u) /\ registered[t] = NoSub
  BY DEF IInv, AddIsOwn, Orderly, Subscribing
<1>4. \A u, v : Adds(u, s) /\ Adds(v, r) => u = v
  BY <1>3 DEF IInv, Orderly
<1> QED
  BY <1>1, <1>2, <1>3, <1>4, BotAlertsAssumption

\* A subscription whose queue and goroutine hold what they held.
LEMMA Unmoved ==
  ASSUME NEW s \in Subs, NEW a \in Alerts, queue'[s] = queue[s], sub'[s] = sub[s],
         work'[s].alert = work[s].alert, work'[s].episode = work[s].episode,
         work'[s].pc = "idle" <=> work[s].pc = "idle"
  PROVE  Stays(s, a)
<1>1. \A i \in 0..Len(queue[s]) : At(s, i)' = At(s, i)
  BY DEF At, Message
<1> QED
  BY <1>1 DEF Stays, Places

\* The goroutine is done with a message.
LEMMA Finished ==
  ASSUME Typed, NEW s \in Subs, NEW a \in Alerts, queue'[s] = queue[s], work'[s].pc = "idle"
  PROVE  /\ Places(s, a)' = Places(s, a) \ {0}
         /\ \A i \in Places(s, a)' : At(s, i)' = At(s, i)
         /\ work[s].alert # a => 0 \notin Places(s, a)
<1>1. \A i \in 0..Len(queue[s]) : i # 0 => At(s, i)' = At(s, i)
  BY DEF At
<1>2. 0 \notin Places(s, a)'
  BY DEF Places
<1>3. Places(s, a)' = Places(s, a) \ {0}
  BY <1>1, <1>2 DEF Places
<1>4. \A i \in Places(s, a)' : At(s, i)' = At(s, i)
  BY <1>1, <1>2, <1>3 DEF Places
<1> QED
  BY <1>3, <1>4, PlaceIs

\* The goroutine takes the first message: all move up, unless it is dropped.
LEMMA Taken ==
  ASSUME Typed, NEW s \in Subs, NEW a \in Alerts, work[s].pc = "idle", queue[s] # <<>>,
         queue'[s] = Tail(queue[s]),
         work'[s].pc # "idle" => /\ work'[s].alert = Head(queue[s]).alert
                                 /\ work'[s].episode = Head(queue[s]).episode
  PROVE  /\ \A k \in Places(s, a)' : \E i \in Places(s, a) :
              k = i - 1 /\ At(s, k)'.episode = At(s, i).episode
         /\ \A i \in Places(s, a) : i \in Nat /\ i >= 1 /\ (i = 1 => Head(queue[s]).alert = a)
         /\ (work'[s].pc # "idle" \/ Head(queue[s]).alert # a) =>
              /\ \A i \in Places(s, a) : At(s, i - 1)'.episode = At(s, i).episode
              /\ Places(s, a)' = {i - 1 : i \in Places(s, a)}
<1> DEFINE q == queue[s]
<1>1. /\ q \in Seq(Messages) /\ q # <<>> /\ Len(q) \in Nat /\ Len(q) >= 1
      /\ Len(queue'[s]) = Len(q) - 1 /\ Head(q) = q[1]
      /\ \A i \in 1..Len(q) - 1 : queue'[s][i] = q[i + 1]
  BY DEF Typed
<1> HIDE DEF q
<1>2. \A i \in 1..Len(q) : i \in Nat /\ i >= 1 /\ (i = 1 => i - 1 = 0)
                           /\ (i # 1 => i - 1 \in 1..Len(q) - 1 /\ i - 1 # 0 /\ (i - 1) + 1 = i)
  BY <1>1
<1>3. \A i \in 2..Len(q) : At(s, i - 1)' = At(s, i)
  BY <1>1, <1>2 DEF At, q
<1>4. work'[s].pc # "idle" => /\ At(s, 0)'.episode = At(s, 1).episode
                              /\ At(s, 0)'.alert = At(s, 1).alert
  BY <1>1 DEF At, Message, q
<1>5. At(s, 1) = Head(q)
  BY <1>1 DEF At, q
<1>6. \A i \in Places(s, a) : i \in 1..Len(q)
  BY <1>1 DEF Places, q
<1>7. \A k \in Places(s, a)' : \E i \in Places(s, a) :
         k = i - 1 /\ At(s, k)'.episode = At(s, i).episode
  <2> SUFFICES ASSUME NEW k \in Places(s, a)'
               PROVE  /\ k + 1 \in Places(s, a) /\ k = (k + 1) - 1
                      /\ At(s, k)'.episode = At(s, k + 1).episode
    OBVIOUS
  <2>1. k \in 0..Len(q) - 1 /\ At(s, k)'.alert = a /\ (k = 0 => work'[s].pc # "idle")
    BY <1>1 DEF Places
  <2>2. k + 1 \in 0..Len(q) /\ k + 1 # 0 /\ k = (k + 1) - 1
    BY <1>1, <2>1
  <2>3. At(s, k + 1).alert = a /\ At(s, k)'.episode = At(s, k + 1).episode
    <3>1. CASE k = 0
      BY <1>4, <2>1, <3>1 DEF At
    <3>2. CASE k # 0
      <4>1. k + 1 \in 2..Len(q) /\ (k + 1) - 1 = k
        BY <1>1, <2>1, <3>2
      <4>2. At(s, (k + 1) - 1)' = At(s, k + 1)
        BY <1>3, <4>1
      <4> QED
        BY <2>1, <4>1, <4>2 DEF At
    <3> QED
      BY <3>1, <3>2
  <2> QED
    BY <2>2, <2>3 DEF Places, q
<1>8. \A i \in Places(s, a) : i \in Nat /\ i >= 1 /\ (i = 1 => Head(queue[s]).alert = a)
  BY <1>2, <1>5, <1>6 DEF Places, q
<1>9. ASSUME work'[s].pc # "idle" \/ Head(queue[s]).alert # a, NEW i \in Places(s, a)
      PROVE  i - 1 \in Places(s, a)' /\ At(s, i - 1)'.episode = At(s, i).episode
  <2>1. At(s, i).alert = a /\ i \in 1..Len(q) /\ i - 1 \in 0..Len(queue'[s])
    BY <1>1, <1>6 DEF Places
  <2>2. At(s, i - 1)'.alert = a /\ At(s, i - 1)'.episode = At(s, i).episode
    <3>1. CASE i = 1
      BY <1>4, <1>8, <1>9, <2>1, <3>1 DEF At
    <3>2. CASE i # 1
      BY <1>1, <1>2, <1>3, <2>1, <3>2
    <3> QED
      BY <3>1, <3>2
  <2>3. i - 1 = 0 => work'[s].pc # "idle"
    BY <1>2, <1>8, <1>9, <2>1
  <2> QED
    BY <2>1, <2>2, <2>3 DEF Places
<1> QED
  BY <1>7, <1>8, <1>9

\* A message is put in the queue.
LEMMA Appended ==
  ASSUME Typed, NEW s \in Subs, NEW a \in Alerts, NEW m \in Messages,
         queue'[s] = Append(queue[s], m), work'[s] = work[s],
         NEW n, n = Len(queue[s]) + 1
  PROVE  /\ Places(s, a)' = Places(s, a) \cup (IF m.alert = a THEN {n} ELSE {})
         /\ \A i \in Places(s, a) : At(s, i)' = At(s, i) /\ i < n
         /\ At(s, n)' = m /\ n # 0 /\ n \in Nat
<1>1. /\ queue[s] \in Seq(Messages) /\ Len(queue[s]) \in Nat
      /\ Len(queue'[s]) = n /\ queue'[s][n] = m
      /\ \A i \in 1..Len(queue[s]) : queue'[s][i] = queue[s][i]
  BY DEF Typed
<1>2. n # 0 /\ 0..n = (0..Len(queue[s])) \cup {n} /\ n \notin 0..Len(queue[s])
      /\ n \in Nat /\ \A i \in 0..Len(queue[s]) : i < n /\ (i # 0 => i \in 1..Len(queue[s]))
  BY <1>1
<1>3. \A i \in 0..Len(queue[s]) : At(s, i)' = At(s, i)
  BY <1>1, <1>2 DEF At
<1>4. At(s, n)' = m
  BY <1>1, <1>2 DEF At
<1>5. Places(s, a)' = Places(s, a) \cup (IF m.alert = a THEN {n} ELSE {})
  BY <1>1, <1>2, <1>3, <1>4 DEF Places
<1>6. \A i \in Places(s, a) : At(s, i)' = At(s, i) /\ i < n
  BY <1>2, <1>3 DEF Places
<1> QED
  BY <1>2, <1>4, <1>5, <1>6

-----------------------------------------------------------------------------
\* Messages in flight are those that have places.
LEMMA HeldIs ==
  ASSUME Typed, NEW s \in Subs, NEW a \in Alerts
  PROVE  Places(s, a) = {} <=> a \notin Held(s)
<1>1. queue[s] \in Seq(Messages) /\ Len(queue[s]) \in Nat
  BY DEF Typed
<1>2. ASSUME NEW i \in Places(s, a) PROVE a \in Held(s)
  <2>1. CASE i = 0
    BY <2>1, PlaceIs DEF Held
  <2>2. CASE i # 0
    <3>1. i \in 1..Len(queue[s]) /\ queue[s][i].alert = a
      BY <2>2, PlaceIs
    <3> QED
      BY <3>1 DEF Held
  <2> QED
    BY <2>1, <2>2
<1>3. ASSUME NEW i \in 1..Len(queue[s]), queue[s][i].alert = a PROVE i \in Places(s, a)
  BY <1>1, <1>3 DEF Places, At
<1>4. ASSUME work[s].pc # "idle", work[s].alert = a PROVE 0 \in Places(s, a)
  BY <1>1, <1>4 DEF Places, At, Message
<1> QED
  BY <1>2, <1>3, <1>4 DEF Held

\* No message is of an episode that has not begun.
LEMMA EpisodesKeep ==
  ASSUME Typed, Episodes, Typed',
         \A a \in Alerts : episode[a] <= episode'[a] /\ shown'[a] <= episode'[a],
         \A s \in Subs, a \in Alerts : \A i \in Places(s, a)' :
            \/ At(s, i)'.episode = episode[a]
            \/ \E j \in Places(s, a) : At(s, i)'.episode = At(s, j).episode
  PROVE  Episodes'
<1> SUFFICES ASSUME NEW a \in Alerts, NEW s \in Subs, NEW i \in Places(s, a)'
             PROVE  At(s, i)'.episode \in 1..episode'[a]
  BY DEF Episodes
<1>1. At(s, i)'.episode \in 1..episode[a]
  <2>1. episode[a] \in 1..episode[a]
    BY DEF Typed
  <2>2. \A j \in Places(s, a) : At(s, j).episode \in 1..episode[a]
    BY DEF Episodes
  <2> QED
    BY <2>1, <2>2
<1>2. episode[a] \in Nat /\ episode'[a] \in Nat /\ episode[a] <= episode'[a]
  BY DEF Typed
<1> QED
  BY <1>1, <1>2

\* A step that leaves the messages alone.  A subscription may become live.
LEMMA QuietKeeps ==
  ASSUME NInv, UNCHANGED <<queue, work, shown>>,
         \A s \in Subs : sub'[s] = sub[s] \/ (sub[s] = "none" /\ work[s].pc = "idle"),
         disturbed \subseteq disturbed', doubled => doubled',
         episode' \in [Alerts -> Nat \ {0}], open' \subseteq Alerts,
         \A a \in Alerts :
            /\ episode[a] <= episode'[a]
            /\ a \notin disturbed' => episode'[a] = episode[a] /\ (a \in open' <=> a \in open)
  PROVE  Typed' /\ Episodes' /\ OrderInv'
<1>1. Typed'
  BY DEF NInv, Typed
<1>2. \A s \in Subs, a \in Alerts : Stays(s, a)
  <2> SUFFICES ASSUME NEW s \in Subs, NEW a \in Alerts PROVE Stays(s, a)
    OBVIOUS
  <2>1. CASE sub'[s] = sub[s]
    BY <2>1, Unmoved
  <2>2. CASE sub[s] = "none" /\ work[s].pc = "idle"
    <3>1. queue[s] = <<>> /\ Typed
      BY <2>2 DEF NInv, Typed
    <3>2. Places(s, a) = {}
      BY <2>2, <3>1, HeldIs DEF Held
    <3>3. Places(s, a)' = {}
      BY <3>2 DEF Places, At
    <3> QED
      BY <3>2, <3>3 DEF Stays
  <2> QED
    BY <2>1, <2>2
<1>3. Episodes'
  <2>1. \A a \in Alerts : shown'[a] <= episode'[a]
    <3> SUFFICES ASSUME NEW a \in Alerts PROVE shown'[a] <= episode'[a]
      OBVIOUS
    <3>1. shown[a] \in Nat /\ episode[a] \in Nat /\ episode'[a] \in Nat
          /\ shown[a] <= episode[a] /\ episode[a] <= episode'[a]
      BY DEF NInv, Typed, Episodes
    <3> QED
      BY <3>1
  <2> QED
    BY <1>1, <1>2, <2>1, EpisodesKeep DEF NInv, Stays
<1>4. ASSUME ~ doubled', NEW a \in Alerts \ disturbed'
      PROVE  AInv(a)'
  BY <1>2, <1>4, StaysKeep DEF NInv, OrderInv
<1> QED
  BY <1>1, <1>3, <1>4 DEF OrderInv

\* One step of each handler.
LEMMA ReceiveKeeps ==
  ASSUME NInv, NEW s \in Subs, Receive(s) \/ ReceiveMuted(s)
  PROVE  Typed' /\ Episodes' /\ OrderInv'
<1> DEFINE m == Head(queue[s])
<1>1. /\ work[s].pc = "idle" /\ queue[s] # <<>>
      /\ queue' = [queue EXCEPT ![s] = Tail(queue[s])]
      /\ UNCHANGED <<bot, pubVars, subVars, shown>>
  BY DEF Receive, ReceiveMuted, Rest
<1>2. Typed /\ queue[s] \in Seq(Messages) /\ m \in Messages /\ Tail(queue[s]) \in Seq(Messages)
  BY <1>1 DEF NInv, Typed
<1>3. m.alert \in Alerts /\ m.episode \in Nat
  BY <1>2 DEF Messages
<1>4. \/ /\ work' = work /\ disturbed' = disturbed \cup {m.alert}
      \/ /\ disturbed' = disturbed
         /\ work' = [work EXCEPT ![s] = [pc |-> IF sub[s] = "fixed" THEN "lookup" ELSE "send",
                       alert |-> m.alert, episode |-> m.episode, found |-> 0]]
  BY DEF Receive, ReceiveMuted
<1>5. /\ queue'[s] = Tail(queue[s])
      /\ \A r \in Subs \ {s} : queue'[r] = queue[r] /\ work'[r] = work[r]
      /\ \/ work'[s] = work[s] /\ disturbed' = disturbed \cup {m.alert}
         \/ /\ disturbed' = disturbed
            /\ work'[s].pc = IF sub[s] = "fixed" THEN "lookup" ELSE "send"
            /\ work'[s].alert = m.alert /\ work'[s].episode = m.episode
  BY <1>1, <1>2, <1>4 DEF Typed
<1>6. Typed'
  <2>1. queue' \in [Subs -> Seq(Messages)] /\ work' \in [Subs -> [pc : Steps,
           alert : Alerts \cup {Idle.alert}, episode : Nat, found : Nat]]
    <3>1. queue' \in [Subs -> Seq(Messages)]
      BY <1>1, <1>2 DEF Typed
    <3>2. CASE work' = work
      BY <3>1, <3>2, <1>2 DEF Typed
    <3>3. CASE work' = [work EXCEPT ![s] =
                 [pc |-> IF sub[s] = "fixed" THEN "lookup" ELSE "send",
                  alert |-> m.alert, episode |-> m.episode, found |-> 0]]
      <4> HIDE DEF m
      <4> QED
        BY <1>2, <1>3, <3>1, <3>3 DEF Typed, Steps
    <3> QED
      BY <1>4, <3>2, <3>3
  <2>2. \A r \in Subs : work'[r].pc # "idle" => work'[r].alert \in Alerts
    BY <1>1, <1>2, <1>3, <1>5 DEF Typed
  <2>3. \A r \in Subs : sub'[r] = "none" => queue'[r] = <<>>
    BY <1>1, <1>2, <1>5 DEF Typed, subVars
  <2> QED
    BY <1>1, <1>2, <2>1, <2>2, <2>3 DEF Typed, pubVars
<1> HIDE DEF m
<1>7. ASSUME NEW a \in Alerts
      PROVE  /\ \A k \in Places(s, a)' : \E i \in Places(s, a) :
                  k = i - 1 /\ At(s, k)'.episode = At(s, i).episode
             /\ \A i \in Places(s, a) : i \in Nat /\ i >= 1 /\ (i = 1 => m.alert = a)
             /\ (work'[s].pc # "idle" \/ m.alert # a) =>
                  /\ \A i \in Places(s, a) : At(s, i - 1)'.episode = At(s, i).episode
                  /\ Places(s, a)' = {i - 1 : i \in Places(s, a)}
  <2>1. work'[s].pc # "idle" => work'[s].alert = m.alert /\ work'[s].episode = m.episode
    BY <1>1, <1>5
  <2> QED
    BY <1>1, <1>2, <1>5, <2>1, Taken DEF m
<1>8. \A r \in Subs \ {s}, a \in Alerts : Stays(r, a)
  BY <1>1, <1>5, Unmoved DEF subVars
<1>9. Episodes'
  <2> SUFFICES ASSUME NEW r \in Subs, NEW a \in Alerts, NEW k \in Places(r, a)'
               PROVE  \E j \in Places(r, a) : At(r, k)'.episode = At(r, j).episode
    <3>1. \A b \in Alerts : episode[b] <= episode'[b] /\ shown'[b] <= episode'[b]
      BY <1>1 DEF NInv, Episodes, pubVars, Typed
    <3>2. Episodes
      BY DEF NInv
    <3> QED
      BY <1>2, <1>6, <3>1, <3>2, EpisodesKeep
  <2> QED
    BY <1>7, <1>8 DEF Stays
<1>10. ASSUME ~ doubled', NEW a \in Alerts \ disturbed'
       PROVE  AInv(a)'
  <2> DEFINE d == [r \in Subs |-> IF r = s THEN 1 ELSE 0]
  <2>1. AInv(a) /\ shown'[a] = shown[a] /\ episode'[a] = episode[a] /\ (a \in open' <=> a \in open)
    BY <1>1, <1>5, <1>10 DEF NInv, OrderInv, subVars, pubVars
  <2>2. d \in [Subs -> {0, 1}] /\ d[s] = 1 /\ \A r \in Subs \ {s} : d[r] = 0
    OBVIOUS
  <2> HIDE DEF d
  <2>3. m.alert # a \/ work'[s].pc # "idle"
    BY <1>5, <1>10
  <2>4. ASSUME NEW r \in Subs
        PROVE  /\ \A i \in Places(r, a) : i >= d[r]
               /\ Places(r, a)' = {i - d[r] : i \in Places(r, a)}
               /\ \A i \in Places(r, a) :
                    /\ sub'[r] = sub[r]
                    /\ At(r, i - d[r])'.episode = At(r, i).episode
                    /\ i - d[r] = 0 =>
                         IF i = 0 THEN work'[r].pc = work[r].pc /\ work'[r].found = work[r].found
                         ELSE work'[r].pc = IF sub[r] = "alert" THEN "send" ELSE "lookup"
    <3>1. CASE r = s
      <4>1. ASSUME NEW i \in Places(s, a), i - 1 = 0
            PROVE  i # 0 /\ work'[s].pc = IF sub[s] = "alert" THEN "send" ELSE "lookup"
        <5>1. i = 1 /\ i # 0 /\ m.alert = a /\ sub[s] \in Types
          BY <1>7, <2>1, <4>1 DEF AInv, Carried
        <5> QED
          BY <1>1, <1>5, <2>3, <5>1 DEF Types
      <4> QED
        BY <1>1, <1>7, <2>2, <2>3, <3>1, <4>1 DEF subVars
    <3>2. CASE r # s
      <4>1. Stays(r, a) /\ work'[r] = work[r] /\ sub'[r] = sub[r] /\ d[r] = 0
        BY <1>1, <1>5, <1>8, <2>2, <3>2 DEF subVars
      <4>2. \A i \in Places(r, a) : i \in Nat /\ i - d[r] = i /\ i >= d[r]
        BY <1>2, <4>1, PlaceIs
      <4>3. \A i \in Places(r, a) : At(r, i - d[r])' = At(r, i)
        BY <4>1, <4>2 DEF Stays
      <4> QED
        BY <4>1, <4>2, <4>3 DEF Stays
    <3> QED
      BY <3>1, <3>2
  <2> QED
    BY <1>2, <2>1, <2>2, <2>4, MovedKeep
<1> QED
  BY <1>6, <1>9, <1>10 DEF OrderInv

\* The goroutine of a subscription is done with its message.
LEMMA DoneKeeps ==
  ASSUME NInv, NEW s \in Subs, work[s].pc # "idle", work' = [work EXCEPT ![s] = Idle],
         UNCHANGED <<queue, sub, episode, open>>,
         shown' \in [Alerts -> Nat], \A a \in Alerts : shown'[a] <= episode[a]
  PROVE  /\ Typed' /\ Episodes'
         /\ \A r \in Subs, a \in Alerts :
              Places(r, a)' = IF r = s THEN Places(r, a) \ {0} ELSE Places(r, a)
         /\ \A r \in Subs, a \in Alerts : \A i \in Places(r, a)' : At(r, i)' = At(r, i)
         /\ \A r \in Subs \ {s} : work'[r] = work[r]
         /\ \A a \in Alerts :
              (a # work[s].alert /\ AInv(a) /\ shown'[a] = shown[a]) => AInv(a)'
<1>1. Typed /\ Idle \in [pc : Steps, alert : Alerts \cup {Idle.alert}, episode : Nat, found : Nat]
      /\ Idle.pc = "idle"
  BY DEF NInv, Idle, Steps
<1>2. \A r \in Subs : work'[r] = IF r = s THEN Idle ELSE work[r]
  BY <1>1 DEF Typed
<1>3. Typed'
  BY <1>1, <1>2 DEF Typed
<1>4. \A r \in Subs, a \in Alerts :
        /\ Places(r, a)' = IF r = s THEN Places(r, a) \ {0} ELSE Places(r, a)
        /\ \A i \in Places(r, a)' : At(r, i)' = At(r, i)
        /\ (r = s /\ work[s].alert # a) => 0 \notin Places(r, a)
  <2> SUFFICES ASSUME NEW r \in Subs, NEW a \in Alerts
               PROVE  /\ Places(r, a)' = IF r = s THEN Places(r, a) \ {0} ELSE Places(r, a)
                      /\ \A i \in Places(r, a)' : At(r, i)' = At(r, i)
                      /\ (r = s /\ work[s].alert # a) => 0 \notin Places(r, a)
    OBVIOUS
  <2>1. CASE r = s
    BY <1>1, <1>2, <2>1, Finished
  <2>2. CASE r # s
    <3>1. Stays(r, a)
      BY <1>2, <2>2, Unmoved
    <3> QED
      BY <2>2, <3>1 DEF Stays
  <2> QED
    BY <2>1, <2>2
<1>5. Episodes'
  <2>1. \A a \in Alerts : episode[a] <= episode'[a] /\ shown'[a] <= episode'[a]
    BY <1>1 DEF Typed
  <2>2. Episodes
    BY DEF NInv
  <2> QED
    BY <1>1, <1>3, <1>4, <2>1, <2>2, EpisodesKeep
<1>6. ASSUME NEW a \in Alerts, a # work[s].alert, AInv(a), shown'[a] = shown[a]
      PROVE  AInv(a)'
  <2>1. \A r \in Subs : Stays(r, a)
    <3> SUFFICES ASSUME NEW r \in Subs PROVE Stays(r, a)
      OBVIOUS
    <3>1. Places(r, a)' = Places(r, a)
      <4>1. CASE r = s
        <5>1. 0 \notin Places(r, a) /\ Places(r, a)' = Places(r, a) \ {0}
          BY <1>4, <1>6, <4>1
        <5> QED
          BY <5>1
      <4>2. CASE r # s
        BY <1>4, <4>2
      <4> QED
        BY <4>1, <4>2
    <3>2. sub' = sub
      OBVIOUS
    <3> QED
      BY <1>4, <3>1, <3>2 DEF Stays
  <2>2. \A r \in Subs : 0 \in Places(r, a) =>
           work'[r].pc = work[r].pc /\ work'[r].found = work[r].found
    BY <1>2, <1>4, <1>6
  <2> QED
    BY <1>1, <1>6, <2>1, <2>2, StaysKeep
<1> QED
  BY <1>2, <1>3, <1>4, <1>5, <1>6

LEMMA DroppedKeeps ==
  ASSUME NInv, NEW s \in Subs, ConstructFails(s) \/ SendFails(s)
  PROVE  Typed' /\ Episodes' /\ OrderInv'
<1>1. /\ work[s].pc # "idle" /\ work' = [work EXCEPT ![s] = Idle] /\ shown' = shown
      /\ UNCHANGED <<queue, sub, episode, open, doubled>>
      /\ disturbed' = disturbed \cup {work[s].alert}
  BY DEF ConstructFails, SendFails, pubVars, subVars
<1>2. shown' \in [Alerts -> Nat] /\ \A a \in Alerts : shown'[a] <= episode[a]
  BY <1>1 DEF NInv, Typed, Episodes
<1>3. /\ Typed' /\ Episodes'
      /\ \A a \in Alerts :
           (a # work[s].alert /\ AInv(a) /\ shown'[a] = shown[a]) => AInv(a)'
  BY <1>1, <1>2, DoneKeeps
<1> QED
  BY <1>1, <1>3 DEF NInv, OrderInv

LEMMA SendKeeps ==
  ASSUME NInv, NEW s \in Subs, Send(s)
  PROVE  Typed' /\ Episodes' /\ OrderInv'
<1>0. PICK b, e : b = work[s].alert /\ e = work[s].episode
  OBVIOUS
<1>1. /\ work[s].pc = "send" /\ work' = [work EXCEPT ![s] = Idle]
      /\ shown' = [shown EXCEPT ![b] = e]
      /\ UNCHANGED <<queue, sub, episode, open, doubled, disturbed>>
  BY <1>0 DEF Send, pubVars, subVars
<1>2. Typed /\ Episodes /\ b \in Alerts /\ e \in Nat
  BY <1>0, <1>1 DEF NInv, Typed
<1>3. 0 \in Places(s, b) /\ At(s, 0).episode = e
  BY <1>0, <1>1, <1>2 DEF Places, At, Message, Typed
<1>4. e \in 1..episode[b] /\ episode[b] \in Nat
  BY <1>2, <1>3 DEF Episodes, Typed
<1>5. \A a \in Alerts : shown'[a] = IF a = b THEN e ELSE shown[a]
  BY <1>1, <1>2 DEF Typed
<1>6. shown' \in [Alerts -> Nat] /\ \A a \in Alerts : shown'[a] <= episode[a]
  BY <1>1, <1>2, <1>4, <1>5 DEF Typed, Episodes
<1>7. /\ Typed' /\ Episodes'
      /\ \A r \in Subs, a \in Alerts :
              Places(r, a)' = IF r = s THEN Places(r, a) \ {0} ELSE Places(r, a)
      /\ \A r \in Subs, a \in Alerts : \A i \in Places(r, a)' : At(r, i)' = At(r, i)
      /\ \A r \in Subs \ {s} : work'[r] = work[r]
      /\ \A a \in Alerts :
              (a # b /\ AInv(a) /\ shown'[a] = shown[a]) => AInv(a)'
  BY <1>0, <1>1, <1>6, DoneKeeps
<1>8. ASSUME ~ doubled, b \notin disturbed
      PROVE  AInv(b)'
  <2>1. AInv(b)
    BY <1>2, <1>8 DEF NInv, OrderInv
  <2>2. \A r \in Subs : \A i \in Places(r, b) : i \in Nat /\ At(r, i).episode \in Nat
    BY <1>2, PlaceIs
  <2>3. sub[s] = "alert" /\ \A r \in Subs : sub[r] = "alert" => r = s
    <3>1. sub[s] = "alert"
      BY <1>1, <1>3, <2>1 DEF AInv, Carried
    <3> QED
      BY <1>8, <3>1, OneLive DEF NInv, Types
  <2>4. \A r \in Subs : \A i \in Places(r, b)' :
           /\ i \in Places(r, b) /\ At(r, i)' = At(r, i) /\ i \in Nat
           /\ (i = 0 => r # s /\ work'[r] = work[r])
    BY <1>2, <1>7, <2>2
  <2>5. \A r \in Subs : r # s => Places(r, b)' = Places(r, b)
    BY <1>2, <1>7
  <2>6. shown[b] <= e /\ shown'[b] = e /\ ((b \in open /\ e = episode[b]) \/ Unread(b, e))
    BY <1>2, <1>3, <1>5, <2>1, <2>3 DEF AInv, AlertsCover
  <2>7. \A x : Unread(b, x) => Unread(b, x)'
    <3> SUFFICES ASSUME NEW x, NEW r \in Subs, sub[r] = "fixed", NEW i \in Places(r, b),
                        At(r, i).episode = x, i = 0 => work[r].pc = "lookup"
                 PROVE  Unread(b, x)'
      BY DEF Unread
    <3>1. r # s /\ i \in Places(r, b)'
      BY <2>3, <2>5
    <3>2. At(r, i)'.episode = x /\ sub'[r] = "fixed" /\ (i = 0 => work'[r].pc = "lookup")
      BY <1>1, <2>4, <3>1
    <3> QED
      BY <3>1, <3>2 DEF Unread
  <2>8. \A x : Pending("fixed", b, x) => Pending("fixed", b, x)'
    BY <1>1, <2>3, <2>4, <2>5 DEF Pending
  <2>9. \A x : Pending("alert", b, x) => x = e \/ Pending("alert", b, x)'
    <3> SUFFICES ASSUME NEW i \in Places(s, b), At(s, i).episode # e
                 PROVE  i \in Places(s, b)' /\ At(s, i)' = At(s, i)
      BY <1>1, <2>3 DEF Pending
    <3> QED
      BY <1>2, <1>3, <1>7
  <2>10. Carried(b)'
    BY <1>1, <2>1, <2>4 DEF AInv, Carried
  <2>11. InOrder(b)'
    BY <1>1, <2>1, <2>4 DEF AInv, InOrder
  <2>12. AlertsCover(b)'
    <3>1. \A i \in Places(s, b)' : e <= At(s, i)'.episode
      BY <1>2, <1>3, <2>1, <2>4, <2>2 DEF AInv, InOrder
    <3> QED
      BY <1>1, <2>1, <2>3, <2>4, <2>6, <2>7, <3>1 DEF AInv, AlertsCover
  <2>13. FixedCover(b)'
    <3> SUFFICES ASSUME NEW r \in Subs, NEW i \in Places(r, b)', sub'[r] = "fixed"
                 PROVE  /\ At(r, i)'.episode < episode'[b]
                        /\ IF i = 0 /\ work'[r].pc = "reply"
                           THEN work'[r].found = At(r, i)'.episode
                           ELSE \/ shown'[b] >= At(r, i)'.episode
                                \/ Pending("alert", b, At(r, i).episode)'
      BY DEF FixedCover
    <3>1. /\ i \in Places(r, b) /\ At(r, i)' = At(r, i) /\ (i = 0 => work'[r] = work[r])
          /\ At(r, i).episode \in Nat /\ sub[r] = "fixed"
      BY <1>1, <2>2, <2>4
    <3>2. /\ At(r, i).episode < episode[b]
          /\ IF i = 0 /\ work[r].pc = "reply" THEN work[r].found = At(r, i).episode
             ELSE shown[b] >= At(r, i).episode \/ Pending("alert", b, At(r, i).episode)
      BY <2>1, <3>1 DEF AInv, FixedCover
    <3>3. Pending("alert", b, At(r, i).episode)
            => At(r, i).episode = e \/ Pending("alert", b, At(r, i).episode)'
      <4>1. \E x : x = At(r, i).episode
        OBVIOUS
      <4>2. PICK x : x = At(r, i).episode
        BY <4>1
      <4>3. Pending("alert", b, x) => x = e \/ Pending("alert", b, x)'
        BY <2>9
      <4>4. x = At(r, i)'.episode
        BY <3>1, <4>2
      <4> QED
        BY <4>2, <4>3, <4>4 DEF Pending
    <3>4. shown[b] \in Nat
      BY <1>2 DEF Typed
    <3> QED
      BY <1>1, <1>2, <2>6, <3>1, <3>2, <3>3, <3>4
  <2>14. OpenShown(b)'
    <3> SUFFICES ASSUME b \in open
                 PROVE  e = episode[b] \/ Pending("alert", b, episode[b])'
      BY <1>1, <2>6 DEF OpenShown, Pending
    <3>1. shown[b] = episode[b] \/ Pending("alert", b, episode[b])
      BY <2>1 DEF AInv, OpenShown
    <3>2. PICK x : x = episode[b]
      OBVIOUS
    <3>3. Pending("alert", b, x) => x = e \/ Pending("alert", b, x)'
      BY <2>9
    <3>4. x = episode[b]'
      BY <1>1, <3>2
    <3> QED
      BY <1>4, <2>6, <3>1, <3>2, <3>3, <3>4 DEF Pending
  <2>15. ShownOpen(b)'
    <3>1. (b \in open /\ e = episode[b]) \/ Pending("fixed", b, e)
      BY <2>6 DEF Unread, Pending
    <3>2. PICK x : x = e
      OBVIOUS
    <3>3. (b \in open' /\ shown'[b] = episode'[b]) \/ Pending("fixed", b, x)'
      BY <1>1, <2>6, <2>8, <3>1, <3>2
    <3>4. x = shown[b]'
      BY <2>6, <3>2
    <3> QED
      BY <3>3, <3>4 DEF ShownOpen, Pending
  <2> QED
    BY <2>10, <2>11, <2>12, <2>13, <2>14, <2>15 DEF AInv
<1>9. ASSUME ~ doubled', NEW a \in Alerts \ disturbed'
      PROVE  AInv(a)'
  BY <1>1, <1>5, <1>7, <1>8, <1>9 DEF NInv, OrderInv
<1> QED
  BY <1>7, <1>9 DEF OrderInv

\* An alert that has not reached the chat is seen by the handler of its fix.
LEMMA InTheWay ==
  ASSUME Typed, NEW s \in Subs, NEW b \in Alerts, NEW e \in Nat, work[s].alert = b,
         work[s].episode = e, AInv(b), sub[s] = "fixed", ~ Overtaken(s)
  PROVE  ~ Pending("alert", b, e)
<1> SUFFICES ASSUME NEW r \in Subs, sub[r] = "alert", NEW i \in Places(r, b),
                    At(r, i).episode = e
             PROVE  FALSE
  BY DEF Pending
<1>1. r # s
  OBVIOUS
<1>2. CASE i = 0
  <2>1. work[r].pc = "send" /\ work[r].alert = b /\ work[r].episode = e
    BY <1>2, PlaceIs DEF AInv, Carried
  <2> QED
    BY <1>1, <2>1 DEF Overtaken
<1>3. CASE i # 0
  <2>1. i \in 1..Len(queue[r]) /\ queue[r][i].alert = b /\ queue[r][i].episode = e
    BY <1>3, PlaceIs
  <2>2. queue[r][i] \in Messages
    BY <2>1 DEF Typed
  <2>3. queue[r][i] = Message(b, e)
    BY <2>1, <2>2 DEF Messages, Message
  <2> QED
    BY <1>1, <2>1, <2>3 DEF Overtaken
<1> QED
  BY <1>2, <1>3

\* A fixed alert whose alert is in flight would be answered by no message or an
\* earlier one: it is told, or the answer goes to the message of its episode.
LEMMA LookupKeeps ==
  ASSUME NInv, NEW s \in Subs, Lookup(s)
  PROVE  Typed' /\ Episodes' /\ OrderInv'
<1>0. PICK b, e : b = work[s].alert /\ e = work[s].episode
  OBVIOUS
<1>1. /\ work[s].pc = "lookup" /\ UNCHANGED <<queue, sub, episode, open, doubled, shown>>
      /\ work' = [work EXCEPT ![s] = IF shown[b] = 0 THEN Idle
                                     ELSE [@ EXCEPT !.pc = "reply", !.found = shown[b]]]
      /\ disturbed' = IF Overtaken(s) \/ shown[b] > e THEN disturbed \cup {b} ELSE disturbed
  BY <1>0 DEF Lookup, pubVars, subVars
<1>2. Typed /\ Episodes /\ b \in Alerts /\ e \in Nat /\ shown[b] \in Nat
  BY <1>0, <1>1 DEF NInv, Typed
<1>3. 0 \in Places(s, b) /\ At(s, 0).episode = e
  BY <1>0, <1>1, <1>2 DEF Places, At, Message, Typed
<1>4. e \in 1..episode[b] /\ episode[b] \in Nat
  BY <1>2, <1>3 DEF Episodes, Typed
<1>5. ASSUME ~ doubled, b \notin disturbed'
      PROVE  sub[s] = "fixed" /\ shown[b] = e /\ ~ Pending("alert", b, e)
  <2>1. AInv(b) /\ ~ Overtaken(s) /\ ~ (shown[b] > e)
    BY <1>1, <1>2, <1>5 DEF NInv, OrderInv
  <2>2. sub[s] = "fixed"
    BY <1>1, <1>3, <2>1 DEF AInv, Carried, Types
  <2>3. ~ Pending("alert", b, e)
    BY <1>0, <1>2, <2>1, <2>2, InTheWay
  <2>4. shown[b] >= e
    BY <1>1, <1>3, <2>1, <2>2, <2>3 DEF AInv, FixedCover
  <2> QED
    BY <1>2, <2>1, <2>2, <2>3, <2>4
<1>6. CASE shown[b] = 0
  <2>1. work' = [work EXCEPT ![s] = Idle] /\ shown' \in [Alerts -> Nat]
        /\ \A a \in Alerts : shown'[a] <= episode[a]
    BY <1>1, <1>2, <1>6 DEF Typed, Episodes
  <2>2. /\ Typed' /\ Episodes'
        /\ \A a \in Alerts :
              (a # b /\ AInv(a) /\ shown'[a] = shown[a]) => AInv(a)'
    BY <1>0, <1>1, <2>1, DoneKeeps
  <2>3. ~ doubled => b \in disturbed'
    BY <1>4, <1>5, <1>6
  <2> QED
    BY <1>1, <2>2, <2>3 DEF NInv, OrderInv
<1>7. CASE shown[b] # 0
  <2>1. work' = [work EXCEPT ![s] = [@ EXCEPT !.pc = "reply", !.found = shown[b]]]
    BY <1>1, <1>7
  <2>2. \A r \in Subs : IF r = s
           THEN /\ work'[r].pc = "reply" /\ work'[r].found = shown[b]
                /\ work'[r].alert = b /\ work'[r].episode = e
           ELSE work'[r] = work[r]
    BY <1>0, <1>2, <2>1 DEF Typed
  <2>3. Typed'
    <3>1. work' \in [Subs -> [pc : Steps, alert : Alerts \cup {Idle.alert},
                              episode : Nat, found : Nat]]
      <4> DEFINE R == [pc : Steps, alert : Alerts \cup {Idle.alert}, episode : Nat, found : Nat]
                 w == [work[s] EXCEPT !.pc = "reply", !.found = shown[b]]
      <4>1. w \in R
        <5>1. work[s] \in R
          BY <1>2 DEF Typed
        <5> QED
          BY <1>2, <5>1 DEF Steps
      <4>2. work' = [work EXCEPT ![s] = w] /\ work \in [Subs -> R]
        BY <1>2, <2>1 DEF Typed
      <4> HIDE DEF R, w
      <4>3. work' \in [Subs -> R]
        BY <4>1, <4>2
      <4> QED
        BY <4>3 DEF R
    <3>2. \A r \in Subs : work'[r].pc # "idle" => work'[r].alert \in Alerts
      BY <1>2, <2>2 DEF Typed
    <3> QED
      BY <1>1, <1>2, <3>1, <3>2 DEF Typed
  <2>4. \A r \in Subs, a \in Alerts : Stays(r, a)
    BY <1>0, <1>1, <2>2, Unmoved
  <2>5. Episodes'
    <3>1. \A a \in Alerts : episode[a] <= episode'[a] /\ shown'[a] <= episode'[a]
      BY <1>1, <1>2 DEF Typed, Episodes
    <3> QED
      BY <1>2, <2>3, <2>4, <3>1, EpisodesKeep DEF Stays
  <2>6. ASSUME ~ doubled', NEW a \in Alerts \ disturbed', a # b
        PROVE  AInv(a)'
    <3>1. \A r \in Subs : 0 \in Places(r, a) => work'[r] = work[r]
      BY <1>0, <1>2, <2>2, <2>6, PlaceIs
    <3>2. AInv(a)
      BY <1>1, <2>6 DEF NInv, OrderInv
    <3> QED
      BY <1>1, <1>2, <2>4, <3>1, <3>2, StaysKeep
  <2>7. ASSUME ~ doubled, b \notin disturbed'
        PROVE  AInv(b)'
    <3>1. AInv(b) /\ sub[s] = "fixed" /\ shown[b] = e /\ ~ Pending("alert", b, e)
      BY <1>1, <1>2, <1>5, <2>7 DEF NInv, OrderInv
    <3>2. \A r \in Subs : /\ Places(r, b)' = Places(r, b)
                          /\ \A i \in Places(r, b) : At(r, i)' = At(r, i)
      BY <1>2, <2>4 DEF Stays
    <3>3. \A t, x : Pending(t, b, x)' <=> Pending(t, b, x)
      BY <1>1, <3>2 DEF Pending
    <3>4. \A x : Unread(b, x) /\ x # e => Unread(b, x)'
      <4> SUFFICES ASSUME NEW r \in Subs, sub[r] = "fixed", NEW i \in Places(r, b),
                          At(r, i).episode # e, i = 0 => work[r].pc = "lookup"
                   PROVE  i \in Places(r, b)' /\ At(r, i)' = At(r, i)
                          /\ (i = 0 => work'[r].pc = "lookup")
        BY <1>1 DEF Unread
      <4> QED
        BY <1>3, <2>2, <3>2
    <3>5. Carried(b)' /\ InOrder(b)'
      BY <1>1, <2>2, <3>1, <3>2 DEF AInv, Carried, InOrder
    <3>6. AlertsCover(b)'
      <4>1. \A r \in Subs : \A i \in Places(r, b) : sub[r] = "alert" => At(r, i).episode # e
        BY <3>1 DEF Pending
      <4> QED
        BY <1>1, <3>1, <3>2, <3>4, <4>1 DEF AInv, AlertsCover
    <3>7. FixedCover(b)'
      <4> SUFFICES ASSUME NEW r \in Subs, NEW i \in Places(r, b)', sub'[r] = "fixed"
                   PROVE  /\ At(r, i)'.episode < episode'[b]
                          /\ IF i = 0 /\ work'[r].pc = "reply"
                             THEN work'[r].found = At(r, i)'.episode
                             ELSE \/ shown'[b] >= At(r, i)'.episode
                                  \/ Pending("alert", b, At(r, i).episode)'
        BY DEF FixedCover
      <4>1. i \in Places(r, b) /\ At(r, i)' = At(r, i) /\ sub[r] = "fixed"
        BY <1>1, <3>2
      <4>2. /\ At(r, i).episode < episode[b]
            /\ IF i = 0 /\ work[r].pc = "reply" THEN work[r].found = At(r, i).episode
               ELSE shown[b] >= At(r, i).episode \/ Pending("alert", b, At(r, i).episode)
        BY <3>1, <4>1 DEF AInv, FixedCover
      <4>3. Pending("alert", b, At(r, i).episode) => Pending("alert", b, At(r, i).episode)'
        <5>1. PICK x : x = At(r, i).episode
          OBVIOUS
        <5>2. x = At(r, i)'.episode
          BY <4>1, <5>1
        <5> QED
          BY <3>3, <5>1, <5>2 DEF Pending
      <4> QED
        BY <1>1, <1>3, <2>2, <3>1, <4>1, <4>2, <4>3
    <3>8. OpenShown(b)' /\ ShownOpen(b)'
      BY <1>1, <3>1, <3>3 DEF AInv, OpenShown, ShownOpen
    <3> QED
      BY <3>5, <3>6, <3>7, <3>8 DEF AInv
  <2> QED
    BY <1>1, <2>3, <2>5, <2>6, <2>7 DEF OrderInv
<1> QED
  BY <1>6, <1>7

\* Answering forgets the message that was found, which the alert's next episodes
\* do not need.
LEMMA ReplyKeeps ==
  ASSUME NInv, NEW s \in Subs, Reply(s)
  PROVE  Typed' /\ Episodes' /\ OrderInv'
<1>0. PICK b, e : b = work[s].alert /\ e = work[s].episode
  OBVIOUS
<1>1. /\ work[s].pc = "reply" /\ work' = [work EXCEPT ![s] = Idle]
      /\ shown' = [shown EXCEPT ![b] = 0]
      /\ UNCHANGED <<queue, sub, episode, open, doubled>>
      /\ disturbed' = IF shown[b] # work[s].found THEN disturbed \cup {b} ELSE disturbed
  BY <1>0 DEF Reply, pubVars, subVars
<1>2. Typed /\ Episodes /\ b \in Alerts /\ e \in Nat
  BY <1>0, <1>1 DEF NInv, Typed
<1>3. 0 \in Places(s, b) /\ At(s, 0).episode = e
  BY <1>0, <1>1, <1>2 DEF Places, At, Message, Typed
<1>4. e \in 1..episode[b] /\ episode[b] \in Nat
  BY <1>2, <1>3 DEF Episodes, Typed
<1>5. \A a \in Alerts : shown'[a] = IF a = b THEN 0 ELSE shown[a]
  BY <1>1, <1>2 DEF Typed
<1>6. shown' \in [Alerts -> Nat] /\ \A a \in Alerts : shown'[a] <= episode[a]
  BY <1>1, <1>2, <1>4, <1>5 DEF Typed, Episodes
<1>7. /\ Typed' /\ Episodes'
      /\ \A r \in Subs, a \in Alerts :
              Places(r, a)' = IF r = s THEN Places(r, a) \ {0} ELSE Places(r, a)
      /\ \A r \in Subs, a \in Alerts : \A i \in Places(r, a)' : At(r, i)' = At(r, i)
      /\ \A r \in Subs \ {s} : work'[r] = work[r]
      /\ \A a \in Alerts :
              (a # b /\ AInv(a) /\ shown'[a] = shown[a]) => AInv(a)'
  BY <1>0, <1>1, <1>6, DoneKeeps
<1>8. ASSUME ~ doubled, b \notin disturbed'
      PROVE  AInv(b)'
  <2>1. AInv(b)
    BY <1>1, <1>2, <1>8 DEF NInv, OrderInv
  <2>2. \A r \in Subs : \A i \in Places(r, b) : i \in Nat /\ At(r, i).episode \in Nat
    BY <1>2, PlaceIs
  <2>3. sub[s] = "fixed" /\ \A r \in Subs : sub[r] = "fixed" => r = s
    <3>1. sub[s] = "fixed"
      BY <1>1, <1>3, <2>1 DEF AInv, Carried, Types
    <3> QED
      BY <1>8, <3>1, OneLive DEF NInv, Types
  <2>4. \A r \in Subs : \A i \in Places(r, b)' :
           /\ i \in Places(r, b) /\ At(r, i)' = At(r, i) /\ i \in Nat
           /\ (i = 0 => r # s /\ work'[r] = work[r])
    BY <1>2, <1>7, <2>2
  <2>5. \A r \in Subs : r # s => Places(r, b)' = Places(r, b)
    BY <1>2, <1>7
  <2>6. shown[b] = e /\ e < episode[b] /\ shown'[b] = 0
    <3>1. work[s].found = e /\ e < episode[b]
      BY <1>1, <1>3, <2>1, <2>3 DEF AInv, FixedCover
    <3> QED
      BY <1>1, <1>2, <1>5, <1>8, <3>1
  <2>7. \A x : Unread(b, x) => Unread(b, x)'
    <3> SUFFICES ASSUME NEW r \in Subs, sub[r] = "fixed", NEW i \in Places(r, b),
                        i = 0 => work[r].pc = "lookup"
                 PROVE  i \in Places(r, b)' /\ At(r, i)' = At(r, i) /\ i # 0
      BY <1>1 DEF Unread
    <3> QED
      BY <1>1, <1>2, <1>7, <2>3
  <2>8. \A x : Pending("alert", b, x)' <=> Pending("alert", b, x)
    BY <1>1, <2>3, <2>4, <2>5 DEF Pending
  <2>9. Carried(b)' /\ InOrder(b)'
    BY <1>1, <2>1, <2>4 DEF AInv, Carried, InOrder
  <2>10. AlertsCover(b)'
    BY <1>1, <2>1, <2>2, <2>3, <2>4, <2>6, <2>7 DEF AInv, AlertsCover
  <2>11. FixedCover(b)'
    <3> SUFFICES ASSUME NEW i \in Places(s, b)'
                 PROVE  /\ At(s, i)'.episode < episode'[b]
                        /\ i # 0 /\ Pending("alert", b, At(s, i).episode)'
      BY <1>1, <2>3 DEF FixedCover
    <3>1. i \in Places(s, b) /\ At(s, i)' = At(s, i) /\ i \in Nat /\ i # 0
          /\ At(s, i).episode \in Nat
      BY <2>2, <2>4
    <3>2. e <= At(s, i).episode /\ e # At(s, i).episode
      BY <1>2, <1>3, <2>1, <2>3, <3>1 DEF AInv, InOrder
    <3>3. At(s, i).episode < episode[b] /\ Pending("alert", b, At(s, i).episode)
      <4>1. /\ At(s, i).episode < episode[b]
            /\ shown[b] >= At(s, i).episode \/ Pending("alert", b, At(s, i).episode)
        BY <2>1, <2>3, <3>1 DEF AInv, FixedCover
      <4> QED
        BY <1>2, <2>6, <3>1, <3>2, <4>1
    <3>4. PICK x : x = At(s, i).episode
      OBVIOUS
    <3>5. x = At(s, i)'.episode /\ Pending("alert", b, x)'
      BY <2>8, <3>1, <3>3, <3>4
    <3> QED
      BY <1>1, <3>1, <3>3, <3>5 DEF Pending
  <2>12. OpenShown(b)' /\ ShownOpen(b)'
    <3>1. b \in open => Pending("alert", b, episode[b])
      BY <1>4, <2>1, <2>6 DEF AInv, OpenShown
    <3>2. PICK x : x = episode[b]
      OBVIOUS
    <3>3. b \in open => Pending("alert", b, x)' /\ x = episode'[b]
      BY <1>1, <2>8, <3>1, <3>2
    <3> QED
      BY <1>1, <2>6, <3>3 DEF OpenShown, ShownOpen, Pending
  <2> QED
    BY <2>9, <2>10, <2>11, <2>12 DEF AInv
<1>9. ASSUME ~ doubled', NEW a \in Alerts \ disturbed'
      PROVE  AInv(a)'
  BY <1>1, <1>5, <1>7, <1>8, <1>9 DEF NInv, OrderInv
<1> QED
  BY <1>7, <1>9 DEF OrderInv

-----------------------------------------------------------------------------
\* A message of alert b is published on topic t.
LEMMA PublishedIs ==
  ASSUME NInv, NEW t \in Types, NEW b \in Alerts, Publish(t, Message(b, episode[b])),
         UNCHANGED <<work, sub, shown>>, episode' \in [Alerts -> Nat \ {0}],
         \A a \in Alerts : episode[a] <= episode'[a], open' \subseteq Alerts
  PROVE  /\ Typed' /\ Episodes'
         /\ \A a \in Alerts : (a # b /\ AInv(a) /\ episode'[a] = episode[a]
                               /\ (a \in open' <=> a \in open)) => AInv(a)'
         /\ \A r \in Subs : \A i \in Places(r, b) : i \in Places(r, b)' /\ At(r, i)' = At(r, i)
         /\ \A r \in Subs : \A k \in Places(r, b)' : k \notin Places(r, b) =>
               /\ sub[r] = t /\ k # 0 /\ k \in Nat /\ At(r, k)'.episode = episode[b]
               /\ \A i \in Places(r, b)' : i = k \/ (i < k /\ i \in Places(r, b))
         /\ \A r \in Subs : sub[r] = t => \E k \in Places(r, b)' : At(r, k)'.episode = episode[b]
<1>0. PICK m : m = Message(b, episode[b])
  OBVIOUS
<1>1. Typed /\ Episodes /\ m \in Messages /\ m.alert = b /\ m.episode = episode[b]
  BY <1>0 DEF NInv, Typed, Messages, Message
<1>2. \A r \in Subs : queue'[r] = IF sub[r] = t THEN Append(queue[r], m) ELSE queue[r]
  BY <1>0 DEF Publish
<1>3. Typed'
  <2>1. queue' \in [Subs -> Seq(Messages)]
    <3>1. ASSUME NEW r \in Subs PROVE queue'[r] \in Seq(Messages)
      <4>1. queue[r] \in Seq(Messages)
        BY <1>1 DEF Typed
      <4> QED
        <5>1. CASE sub[r] = t
          <6>1. queue'[r] = Append(queue[r], m) /\ m \in Messages
            BY <1>1, <1>2, <5>1
          <6> QED
            BY <4>1, <6>1
        <5>2. CASE sub[r] # t
          BY <1>2, <4>1, <5>2
        <5> QED
          BY <5>1, <5>2
    <3>2. queue' = [r \in Subs |-> queue'[r]]
      BY DEF Publish
    <3> QED
      BY <3>1, <3>2
  <2>2. \A r \in Subs : sub'[r] = "none" => queue'[r] = <<>>
    BY <1>1, <1>2 DEF Typed, Types
  <2> QED
    BY <1>1, <2>1, <2>2 DEF Typed
<1>4. ASSUME NEW r \in Subs, sub[r] # t, NEW a \in Alerts
      PROVE  Stays(r, a)
  BY <1>2, <1>4, Unmoved
<1>5. ASSUME NEW r \in Subs, NEW a \in Alerts, NEW n, n = Len(queue[r]) + 1, sub[r] = t
      PROVE  /\ Places(r, a)' = Places(r, a) \cup (IF b = a THEN {n} ELSE {})
             /\ \A i \in Places(r, a) : At(r, i)' = At(r, i) /\ i < n
             /\ At(r, n)' = m /\ n # 0 /\ n \in Nat
  <2>1. queue'[r] = Append(queue[r], m) /\ work'[r] = work[r]
    BY <1>2, <1>5
  <2> QED
    BY <1>1, <1>5, <2>1, Appended
<1>6. ASSUME NEW r \in Subs, NEW a \in Alerts, a # b
      PROVE  Stays(r, a)
  <2>1. CASE sub[r] # t
    BY <1>4, <2>1
  <2>2. CASE sub[r] = t
    <3>1. PICK n : n = Len(queue[r]) + 1
      OBVIOUS
    <3>2. Places(r, a)' = Places(r, a) \cup {} /\ \A i \in Places(r, a) : At(r, i)' = At(r, i)
      BY <1>5, <1>6, <2>2, <3>1
    <3>3. sub' = sub
      OBVIOUS
    <3> QED
      BY <3>2, <3>3 DEF Stays
  <2> QED
    BY <2>1, <2>2
<1>7. ASSUME NEW a \in Alerts, a # b, AInv(a), episode'[a] = episode[a],
             a \in open' <=> a \in open
      PROVE  AInv(a)'
  BY <1>1, <1>6, <1>7, StaysKeep
<1>8. ASSUME NEW r \in Subs
      PROVE  /\ \A i \in Places(r, b) : i \in Places(r, b)' /\ At(r, i)' = At(r, i)
             /\ \A k \in Places(r, b)' : k \notin Places(r, b) =>
                  /\ sub[r] = t /\ k # 0 /\ k \in Nat /\ At(r, k)'.episode = episode[b]
                  /\ \A i \in Places(r, b)' : i = k \/ (i < k /\ i \in Places(r, b))
             /\ sub[r] = t => \E k \in Places(r, b)' : At(r, k)'.episode = episode[b]
  <2>1. CASE sub[r] # t
    BY <1>4, <2>1 DEF Stays
  <2>2. CASE sub[r] = t
    <3>1. PICK n : n = Len(queue[r]) + 1
      OBVIOUS
    <3>2. /\ Places(r, b)' = Places(r, b) \cup {n}
          /\ \A i \in Places(r, b) : At(r, i)' = At(r, i) /\ i < n
          /\ At(r, n)' = m /\ n # 0 /\ n \in Nat
      BY <1>5, <2>2, <3>1
    <3>3. At(r, n)'.episode = episode[b]
      BY <1>1, <3>2
    <3> QED
      BY <2>2, <3>2, <3>3
  <2> QED
    BY <2>1, <2>2
<1>9. Episodes'
  <2>1. \A a \in Alerts : shown'[a] <= episode'[a]
    <3> SUFFICES ASSUME NEW a \in Alerts PROVE shown'[a] <= episode'[a]
      OBVIOUS
    <3>1. shown[a] \in Nat /\ episode[a] \in Nat /\ episode'[a] \in Nat
          /\ shown[a] <= episode[a] /\ episode[a] <= episode'[a]
      BY <1>1 DEF Typed, Episodes
    <3> QED
      BY <3>1
  <2>2. ASSUME NEW r \in Subs, NEW a \in Alerts, NEW i \in Places(r, a)'
        PROVE  \/ At(r, i)'.episode = episode[a]
               \/ \E j \in Places(r, a) : At(r, i)'.episode = At(r, j).episode
    <3>1. CASE a = b
      BY <1>8, <3>1
    <3>2. CASE a # b
      BY <1>6, <3>2 DEF Stays
    <3> QED
      BY <3>1, <3>2
  <2> QED
    BY <1>1, <1>3, <2>1, <2>2, EpisodesKeep
<1> QED
  BY <1>3, <1>7, <1>8, <1>9

\* An alert published again when nothing of it is in flight is seen as if the bot
\* had missed nothing.
LEMMA PublishAlertKeeps ==
  ASSUME NInv, NEW b \in Alerts, PublishAlert(b)
  PROVE  Typed' /\ Episodes' /\ OrderInv'
<1>1. /\ Publish("alert", Message(b, episode[b])) /\ open' = open \cup {b}
      /\ UNCHANGED <<work, sub, shown, episode, doubled>>
      /\ disturbed' = IF Live("alert") = {} THEN disturbed \cup {b}
                      ELSE IF InFlight(b) THEN disturbed ELSE disturbed \ {b}
  BY DEF PublishAlert, subVars
<1>2. Typed /\ Episodes
  BY DEF NInv
<1>3. /\ "alert" \in Types /\ episode' \in [Alerts -> Nat \ {0}] /\ open' \subseteq Alerts
      /\ \A a \in Alerts : episode[a] <= episode'[a]
  BY <1>1, <1>2 DEF Typed, Types
<1>4. /\ Typed' /\ Episodes'
      /\ \A a \in Alerts : (a # b /\ AInv(a) /\ episode'[a] = episode[a]
                            /\ (a \in open' <=> a \in open)) => AInv(a)'
      /\ \A r \in Subs : \A i \in Places(r, b) : i \in Places(r, b)' /\ At(r, i)' = At(r, i)
      /\ \A r \in Subs : \A k \in Places(r, b)' : k \notin Places(r, b) =>
            /\ sub[r] = "alert" /\ k # 0 /\ k \in Nat /\ At(r, k)'.episode = episode[b]
            /\ \A i \in Places(r, b)' : i = k \/ (i < k /\ i \in Places(r, b))
      /\ \A r \in Subs :
            sub[r] = "alert" => \E k \in Places(r, b)' : At(r, k)'.episode = episode[b]
  BY <1>1, <1>3, PublishedIs
<1>5. ASSUME ~ doubled, b \notin disturbed'
      PROVE  AInv(b)'
  <2>1. Live("alert") # {} /\ (AInv(b) \/ \A r \in Subs : Places(r, b) = {})
    <3>1. Live("alert") # {} /\ (b \notin disturbed \/ ~ InFlight(b))
      BY <1>1, <1>5
    <3>2. ~ InFlight(b) => \A r \in Subs : Places(r, b) = {}
      BY <1>2, HeldIs DEF InFlight
    <3> QED
      BY <1>5, <3>1, <3>2 DEF NInv, OrderInv
  <2>2. shown[b] \in Nat /\ episode[b] \in Nat /\ shown[b] <= episode[b]
    BY <1>2 DEF Typed, Episodes
  <2>3. PICK e : e = episode[b]
    OBVIOUS
  <2>4. Pending("alert", b, e)'
    BY <1>1, <1>4, <2>1, <2>3 DEF Live, Pending
  <2>5. \A t, x : Pending(t, b, x) => Pending(t, b, x)'
    BY <1>1, <1>4 DEF Pending
  <2>6. \A x : Unread(b, x) => Unread(b, x)'
    <3> SUFFICES ASSUME NEW x, NEW r \in Subs, sub[r] = "fixed", NEW i \in Places(r, b),
                        At(r, i).episode = x, i = 0 => work[r].pc = "lookup"
                 PROVE  Unread(b, x)'
      BY DEF Unread
    <3>1. i \in Places(r, b)' /\ At(r, i)'.episode = x /\ sub'[r] = "fixed"
          /\ (i = 0 => work'[r].pc = "lookup")
      BY <1>1, <1>4
    <3> QED
      BY <3>1 DEF Unread
  <2>7. \A r \in Subs : \A i \in Places(r, b) :
          /\ AInv(b) /\ i \in Nat /\ At(r, i).episode \in Nat /\ At(r, i).episode <= episode[b]
    BY <1>2, <2>1, <2>2, PlaceIs DEF Episodes
  <2>8. Carried(b)'
    BY <1>1, <1>4, <2>7 DEF AInv, Carried, Types
  <2>9. InOrder(b)'
    <3> SUFFICES ASSUME NEW r \in Subs, NEW i \in Places(r, b)', NEW j \in Places(r, b)', i < j
                 PROVE  /\ At(r, i)'.episode <= At(r, j)'.episode
                        /\ sub'[r] = "fixed" => At(r, i)'.episode # At(r, j)'.episode
      BY DEF InOrder
    <3>1. CASE i \in Places(r, b) /\ j \in Places(r, b)
      BY <1>1, <1>4, <2>7, <3>1 DEF AInv, InOrder
    <3>2. CASE i \in Places(r, b) /\ j \notin Places(r, b)
      BY <1>1, <1>4, <2>7, <3>2
    <3>3. CASE i \notin Places(r, b)
      <4>1. i \in Nat /\ (j = i \/ j < i)
        BY <1>4, <3>3
      <4>2. j \in Nat
        BY <1>4, <2>7
      <4> QED
        BY <4>1, <4>2
    <3> QED
      BY <3>1, <3>2, <3>3
  <2>10. AlertsCover(b)'
    <3> SUFFICES ASSUME NEW r \in Subs, NEW i \in Places(r, b)', sub'[r] = "alert"
                 PROVE  /\ shown'[b] <= At(r, i)'.episode
                        /\ \/ b \in open' /\ At(r, i)'.episode = episode'[b]
                           \/ Unread(b, At(r, i).episode)'
      BY DEF AlertsCover
    <3>1. CASE i \notin Places(r, b)
      BY <1>1, <1>4, <2>2, <3>1
    <3>2. CASE i \in Places(r, b)
      <4>1. /\ shown[b] <= At(r, i).episode
            /\ (b \in open /\ At(r, i).episode = episode[b]) \/ Unread(b, At(r, i).episode)
        BY <1>1, <2>7, <3>2 DEF AInv, AlertsCover
      <4>2. PICK x : x = At(r, i).episode
        OBVIOUS
      <4>3. At(r, i)' = At(r, i)
        BY <1>4, <3>2
      <4>4. Unread(b, At(r, i).episode) => Unread(b, At(r, i).episode)'
        BY <2>6, <4>2, <4>3 DEF Unread
      <4> QED
        BY <1>1, <4>1, <4>3, <4>4
    <3> QED
      BY <3>1, <3>2
  <2>11. FixedCover(b)'
    <3> SUFFICES ASSUME NEW r \in Subs, NEW i \in Places(r, b)', sub'[r] = "fixed"
                 PROVE  /\ At(r, i)'.episode < episode'[b]
                        /\ IF i = 0 /\ work'[r].pc = "reply"
                           THEN work'[r].found = At(r, i)'.episode
                           ELSE \/ shown'[b] >= At(r, i)'.episode
                                \/ Pending("alert", b, At(r, i).episode)'
      BY DEF FixedCover
    <3>1. i \in Places(r, b) /\ At(r, i)' = At(r, i) /\ sub[r] = "fixed"
      BY <1>1, <1>4
    <3>2. /\ At(r, i).episode < episode[b]
          /\ IF i = 0 /\ work[r].pc = "reply" THEN work[r].found = At(r, i).episode
             ELSE shown[b] >= At(r, i).episode \/ Pending("alert", b, At(r, i).episode)
      BY <2>7, <3>1 DEF AInv, FixedCover
    <3>3. PICK x : x = At(r, i).episode
      OBVIOUS
    <3>4. Pending("alert", b, At(r, i).episode) => Pending("alert", b, At(r, i).episode)'
      BY <2>5, <3>1, <3>3 DEF Pending
    <3> QED
      BY <1>1, <3>1, <3>2, <3>4
  <2>12. OpenShown(b)' /\ ShownOpen(b)'
    <3>1. e = episode'[b] /\ e \in Nat
      BY <1>1, <2>2, <2>3
    <3> QED
      BY <2>4, <3>1 DEF OpenShown, ShownOpen, Pending
  <2> QED
    BY <2>8, <2>9, <2>10, <2>11, <2>12 DEF AInv
<1>6. ASSUME ~ doubled', NEW a \in Alerts \ disturbed'
      PROVE  AInv(a)'
  BY <1>1, <1>4, <1>5, <1>6 DEF NInv, OrderInv
<1> QED
  BY <1>4, <1>6 DEF OrderInv

\* An alert is fixed after it was published, so it is shown or in flight.
LEMMA PublishFixedKeeps ==
  ASSUME NInv, NEW b \in Alerts, PublishFixed(b)
  PROVE  Typed' /\ Episodes' /\ OrderInv'
<1>1. /\ Publish("fixed", Message(b, episode[b])) /\ b \in open /\ open' = open \ {b}
      /\ episode' = [episode EXCEPT ![b] = @ + 1]
      /\ UNCHANGED <<work, sub, shown, doubled>>
      /\ disturbed' = IF Live("fixed") = {} THEN disturbed \cup {b} ELSE disturbed
  BY DEF PublishFixed, subVars
<1>2. Typed /\ Episodes
  BY DEF NInv
<1>3. \A a \in Alerts : /\ episode'[a] = IF a = b THEN episode[a] + 1 ELSE episode[a]
                        /\ episode[a] \in Nat \ {0} /\ shown[a] \in Nat
  BY <1>1, <1>2 DEF Typed
<1>4. /\ "fixed" \in Types /\ episode' \in [Alerts -> Nat \ {0}] /\ open' \subseteq Alerts
      /\ \A a \in Alerts : episode[a] <= episode'[a]
  BY <1>1, <1>2, <1>3 DEF Typed, Types
<1>5. /\ Typed' /\ Episodes'
      /\ \A a \in Alerts : (a # b /\ AInv(a) /\ episode'[a] = episode[a]
                            /\ (a \in open' <=> a \in open)) => AInv(a)'
      /\ \A r \in Subs : \A i \in Places(r, b) : i \in Places(r, b)' /\ At(r, i)' = At(r, i)
      /\ \A r \in Subs : \A k \in Places(r, b)' : k \notin Places(r, b) =>
            /\ sub[r] = "fixed" /\ k # 0 /\ k \in Nat /\ At(r, k)'.episode = episode[b]
            /\ \A i \in Places(r, b)' : i = k \/ (i < k /\ i \in Places(r, b))
      /\ \A r \in Subs :
            sub[r] = "fixed" => \E k \in Places(r, b)' : At(r, k)'.episode = episode[b]
  BY <1>1, <1>4, PublishedIs
<1>6. ASSUME ~ doubled, b \notin disturbed'
      PROVE  AInv(b)'
  <2>1. Live("fixed") # {} /\ AInv(b)
    BY <1>1, <1>6 DEF NInv, OrderInv
  <2>2. PICK e : e = episode[b] /\ e \in Nat /\ episode'[b] = e + 1
    BY <1>3
  <2>3. \A r \in Subs : \A k \in Places(r, b)' : k \notin Places(r, b) =>
           sub[r] = "fixed" /\ k # 0 /\ k \in Nat /\ At(r, k)'.episode = e
    BY <1>5, <2>2
  <2>4. \A t, x : Pending(t, b, x) => Pending(t, b, x)'
    BY <1>1, <1>5 DEF Pending
  <2>5. \A x : Pending("alert", b, x)' => Pending("alert", b, x)
    BY <1>1, <1>5 DEF Pending
  <2>6. \A x : Unread(b, x) => Unread(b, x)'
    <3> SUFFICES ASSUME NEW x, NEW r \in Subs, sub[r] = "fixed", NEW i \in Places(r, b),
                        At(r, i).episode = x, i = 0 => work[r].pc = "lookup"
                 PROVE  Unread(b, x)'
      BY DEF Unread
    <3>1. i \in Places(r, b)' /\ At(r, i)'.episode = x /\ sub'[r] = "fixed"
          /\ (i = 0 => work'[r].pc = "lookup")
      BY <1>1, <1>5
    <3> QED
      BY <3>1 DEF Unread
  <2>7. Pending("fixed", b, e)'
    BY <1>1, <1>5, <2>1, <2>2 DEF Live, Pending
  <2>8. Unread(b, e)'
    <3>1. PICK r \in Subs : sub[r] = "fixed"
      BY <2>1 DEF Live
    <3>2. PICK k \in Places(r, b)' : At(r, k)'.episode = e
      BY <1>5, <2>2, <3>1
    <3>3. CASE k \in Places(r, b)
      <4>1. At(r, k).episode = e /\ At(r, k).episode < episode[b]
        BY <1>5, <2>1, <3>1, <3>2, <3>3 DEF AInv, FixedCover
      <4> QED
        BY <2>2, <4>1
    <3>4. CASE k \notin Places(r, b)
      BY <1>1, <2>3, <3>1, <3>2, <3>4 DEF Unread
    <3> QED
      BY <3>3, <3>4
  <2>9. \A r \in Subs : \A i \in Places(r, b) : i \in Nat /\ At(r, i).episode \in Nat
    BY <1>2, PlaceIs
  <2>10. Carried(b)'
    BY <1>1, <1>5, <2>1 DEF AInv, Carried, Types
  <2>11. InOrder(b)'
    <3> SUFFICES ASSUME NEW r \in Subs, NEW i \in Places(r, b)', NEW j \in Places(r, b)', i < j
                 PROVE  /\ At(r, i)'.episode <= At(r, j)'.episode
                        /\ sub'[r] = "fixed" => At(r, i)'.episode # At(r, j)'.episode
      BY DEF InOrder
    <3>1. CASE i \in Places(r, b) /\ j \in Places(r, b)
      BY <1>1, <1>5, <2>1, <3>1 DEF AInv, InOrder
    <3>2. CASE i \in Places(r, b) /\ j \notin Places(r, b)
      <4>1. At(r, j)'.episode = e /\ At(r, i)' = At(r, i) /\ sub[r] = "fixed"
        BY <1>5, <2>3, <3>2
      <4>2. At(r, i).episode < e /\ At(r, i).episode \in Nat
        BY <2>1, <2>2, <2>9, <3>2, <4>1 DEF AInv, FixedCover
      <4> QED
        BY <2>2, <4>1, <4>2
    <3>3. CASE i \notin Places(r, b)
      <4>1. i \in Nat /\ (j = i \/ j < i)
        BY <1>5, <3>3
      <4>2. j \in Nat
        BY <2>3, <2>9
      <4> QED
        BY <4>1, <4>2
    <3> QED
      BY <3>1, <3>2, <3>3
  <2>12. AlertsCover(b)'
    <3> SUFFICES ASSUME NEW r \in Subs, NEW i \in Places(r, b)', sub'[r] = "alert"
                 PROVE  shown'[b] <= At(r, i)'.episode /\ Unread(b, At(r, i).episode)'
      BY DEF AlertsCover
    <3>1. i \in Places(r, b) /\ At(r, i)' = At(r, i)
      BY <1>1, <1>5
    <3>2. /\ shown[b] <= At(r, i).episode
          /\ At(r, i).episode = e \/ Unread(b, At(r, i).episode)
      BY <1>1, <2>1, <2>2, <3>1 DEF AInv, AlertsCover
    <3>3. PICK x : x = At(r, i).episode
      OBVIOUS
    <3>4. Unread(b, x)' /\ x = At(r, i)'.episode
      BY <2>6, <2>8, <3>1, <3>2, <3>3
    <3> QED
      BY <1>1, <3>1, <3>2, <3>4 DEF Unread
  <2>13. FixedCover(b)'
    <3> SUFFICES ASSUME NEW r \in Subs, NEW i \in Places(r, b)', sub'[r] = "fixed"
                 PROVE  /\ At(r, i)'.episode < episode'[b]
                        /\ IF i = 0 /\ work'[r].pc = "reply"
                           THEN work'[r].found = At(r, i)'.episode
                           ELSE \/ shown'[b] >= At(r, i)'.episode
                                \/ Pending("alert", b, At(r, i).episode)'
      BY DEF FixedCover
    <3>1. CASE i \in Places(r, b)
      <4>1. At(r, i)' = At(r, i) /\ sub[r] = "fixed" /\ At(r, i).episode \in Nat
        BY <1>1, <1>5, <2>9, <3>1
      <4>2. /\ At(r, i).episode < e
            /\ IF i = 0 /\ work[r].pc = "reply" THEN work[r].found = At(r, i).episode
               ELSE shown[b] >= At(r, i).episode \/ Pending("alert", b, At(r, i).episode)
        BY <2>1, <2>2, <3>1, <4>1 DEF AInv, FixedCover
      <4>3. PICK x : x = At(r, i).episode
        OBVIOUS
      <4>4. Pending("alert", b, At(r, i).episode) => Pending("alert", b, At(r, i).episode)'
        BY <2>4, <4>1, <4>3 DEF Pending
      <4> QED
        BY <1>1, <2>2, <4>1, <4>2, <4>4
    <3>2. CASE i \notin Places(r, b)
      <4>1. At(r, i)'.episode = e /\ i # 0
        BY <2>3, <3>2
      <4>2. shown[b] = e \/ Pending("alert", b, e)
        BY <1>1, <2>1, <2>2 DEF AInv, OpenShown
      <4>3. Pending("alert", b, e) => Pending("alert", b, At(r, i).episode)'
        BY <2>4, <4>1 DEF Pending
      <4> QED
        BY <1>1, <2>2, <4>1, <4>2, <4>3
    <3> QED
      BY <3>1, <3>2
  <2>14. OpenShown(b)' /\ ShownOpen(b)'
    <3>1. (\A x \in Nat : ~ Pending("alert", b, x)') =>
             \/ shown[b] = 0 \/ shown[b] = e \/ Pending("fixed", b, shown[b])
      BY <1>1, <2>1, <2>2, <2>4 DEF AInv, ShownOpen
    <3>2. PICK x : x = shown[b]
      OBVIOUS
    <3>3. x = shown'[b] /\ (x = e \/ Pending("fixed", b, x) => Pending("fixed", b, x)')
      BY <1>1, <2>4, <2>7, <3>2
    <3> QED
      BY <1>1, <3>1, <3>2, <3>3 DEF OpenShown, ShownOpen, Pending
  <2> QED
    BY <2>10, <2>11, <2>12, <2>13, <2>14 DEF AInv
<1>7. ASSUME ~ doubled', NEW a \in Alerts \ disturbed'
      PROVE  AInv(a)'
  <2>1. CASE a = b
    BY <1>1, <1>6, <1>7, <2>1
  <2>2. CASE a # b
    <3>1. episode'[a] = episode[a] /\ (a \in open' <=> a \in open) /\ AInv(a)
      BY <1>1, <1>3, <1>7, <2>2 DEF NInv, OrderInv
    <3> QED
      BY <1>5, <2>2, <3>1
  <2> QED
    BY <2>1, <2>2
<1> QED
  BY <1>5, <1>7 DEF OrderInv

LEMMA PublishFailsKeeps ==
  ASSUME NInv, NEW b \in Alerts, PublishFails(b)
  PROVE  Typed' /\ Episodes' /\ OrderInv'
<1>1. /\ UNCHANGED <<queue, work, shown, sub, doubled>>
      /\ disturbed' = disturbed \cup {b}
      /\ open' \subseteq open \cup {b} /\ open \ {b} \subseteq open'
      /\ episode' = episode \/ episode' = [episode EXCEPT ![b] = @ + 1]
  BY DEF PublishFails, subVars
<1>2. episode \in [Alerts -> Nat \ {0}] /\ open \subseteq Alerts
  BY DEF NInv, Typed
<1>3. /\ episode' \in [Alerts -> Nat \ {0}] /\ open' \subseteq Alerts
      /\ \A a \in Alerts : /\ episode[a] <= episode'[a]
                           /\ a # b => episode'[a] = episode[a] /\ (a \in open' <=> a \in open)
  BY <1>1, <1>2
<1> QED
  BY <1>1, <1>3, QuietKeeps

-----------------------------------------------------------------------------
\* The messages that wait in an ended subscription are lost.
LEMMA UnsubscribeNatsDrops ==
  ASSUME NInv, NEW u \in Users, UnsubscribeNats(u)
  PROVE  Typed' /\ Episodes' /\ OrderInv'
<1>0. PICK s : s = user[u].sub
  OBVIOUS
<1>1. /\ UNCHANGED <<work, shown, episode, open, doubled>>
      /\ user[u].pc = "unsubscribe" /\ s \in Subs
      /\ \/ UNCHANGED <<sub, queue, disturbed>>
         \/ /\ sub' = [sub EXCEPT ![s] = "none"] /\ queue' = [queue EXCEPT ![s] = <<>>]
            /\ disturbed' = disturbed \cup Held(s)
  BY <1>0 DEF UnsubscribeNats, pubVars, NInv, IInv, DeleteIsDead
<1>2. Typed /\ Episodes /\ sub \in [Subs -> Types \cup {"none"}]
  BY DEF NInv, IInv, SubsOK
<1>3. CASE UNCHANGED <<sub, queue, disturbed>>
  BY <1>1, <1>2, <1>3, QuietKeeps DEF Typed
<1>4. CASE /\ sub' = [sub EXCEPT ![s] = "none"] /\ queue' = [queue EXCEPT ![s] = <<>>]
           /\ disturbed' = disturbed \cup Held(s)
  <2>1. /\ queue'[s] = <<>>
        /\ \A r \in Subs \ {s} : queue'[r] = queue[r] /\ sub'[r] = sub[r]
        /\ queue' \in [Subs -> Seq(Messages)]
    BY <1>1, <1>2, <1>4 DEF Typed
  <2>2. Typed'
    <3>1. \A r \in Subs : sub'[r] = "none" => queue'[r] = <<>>
      BY <1>2, <2>1 DEF Typed
    <3> QED
      BY <1>1, <1>2, <2>1, <3>1 DEF Typed
  <2>3. \A r \in Subs \ {s}, a \in Alerts : Stays(r, a)
    BY <1>1, <2>1, Unmoved
  <2>4. ASSUME NEW a \in Alerts
        PROVE  /\ Places(s, a)' \subseteq Places(s, a)
               /\ \A i \in Places(s, a)' : At(s, i)' = At(s, i)
    <3>1. Len(queue'[s]) = 0 /\ Len(queue[s]) \in Nat
      BY <1>1, <1>2, <2>1 DEF Typed
    <3>2. At(s, 0)' = At(s, 0)
      BY <1>1 DEF At, Message
    <3>3. \A i \in Places(s, a)' : i = 0
      BY <3>1 DEF Places
    <3>4. 0 \in Places(s, a)' => 0 \in Places(s, a)
      BY <1>1, <3>1, <3>2 DEF Places
    <3> QED
      BY <3>2, <3>3, <3>4
  <2>5. Episodes'
    <3>1. \A a \in Alerts : episode[a] <= episode'[a] /\ shown'[a] <= episode'[a]
      BY <1>1, <1>2 DEF Typed, Episodes
    <3>2. ASSUME NEW r \in Subs, NEW a \in Alerts, NEW i \in Places(r, a)'
          PROVE  \E j \in Places(r, a) : At(r, i)'.episode = At(r, j).episode
      BY <1>1, <2>3, <2>4 DEF Stays
    <3> QED
      BY <1>2, <2>2, <3>1, <3>2, EpisodesKeep
  <2>6. ASSUME ~ doubled', NEW a \in Alerts \ disturbed'
        PROVE  AInv(a)'
    <3>1. Places(s, a) = {} /\ AInv(a)
      BY <1>1, <1>2, <1>4, <2>6, HeldIs DEF NInv, OrderInv
    <3>2. Stays(s, a)
      BY <2>4, <3>1 DEF Stays
    <3>3. \A r \in Subs : Stays(r, a)
      BY <2>3, <3>2
    <3> QED
      BY <1>1, <1>2, <3>1, <3>3, StaysKeep
  <2> QED
    BY <2>2, <2>5, <2>6 DEF OrderInv
<1> QED
  BY <1>1, <1>3, <1>4

\* A bot that is started again has missed what was in flight.
LEMMA StartedOrder ==
  ASSUME NInv, Restart
  PROVE  Typed' /\ Episodes' /\ OrderInv'
<1>1. /\ queue' = [s \in Subs |-> <<>>] /\ work' = [s \in Subs |-> Idle]
      /\ shown' = [a \in Alerts |-> 0] /\ disturbed' = Alerts /\ UNCHANGED <<open, episode>>
  BY DEF Restart, Started, pubVars
<1>2. Typed /\ Idle \in [pc : Steps, alert : Alerts \cup {Idle.alert}, episode : Nat, found : Nat]
      /\ Idle.pc = "idle" /\ <<>> \in Seq(Messages)
  BY DEF NInv, Idle, Steps
<1>3. Typed'
  BY <1>1, <1>2 DEF Typed
<1>4. \A s \in Subs, a \in Alerts : Places(s, a)' = {}
  BY <1>1, <1>2 DEF Places
<1>5. Episodes'
  BY <1>1, <1>2, <1>4 DEF Episodes, Typed
<1> QED
  BY <1>1, <1>3, <1>5 DEF OrderInv

LEMMA InitNInv == Init => NInv
<1> SUFFICES ASSUME Init PROVE NInv
  OBVIOUS
<1>1. /\ queue = [s \in Subs |-> <<>>] /\ work = [s \in Subs |-> Idle]
      /\ shown = [a \in Alerts |-> 0] /\ open = {} /\ episode = [a \in Alerts |-> 1]
  BY DEF Init
<1>2. Idle \in [pc : Steps, alert : Alerts \cup {Idle.alert}, episode : Nat, found : Nat]
      /\ Idle.pc = "idle" /\ <<>> \in Seq(Messages)
  BY DEF Idle, Steps
<1>3. Typed
  BY <1>1, <1>2 DEF Typed
<1>4. \A s \in Subs, a \in Alerts : Places(s, a) = {}
  <2>1. \A s \in Subs : Len(queue[s]) = 0 /\ work[s].pc = "idle"
    BY <1>1, <1>2
  <2> QED
    BY <2>1 DEF Places
<1>5. Episodes
  <2>1. \A a \in Alerts : shown[a] = 0 /\ episode[a] = 1
    BY <1>1
  <2>2. \A a \in Alerts : shown[a] <= episode[a]
    <3> SUFFICES ASSUME NEW a \in Alerts PROVE shown[a] <= episode[a]
      OBVIOUS
    <3>1. shown[a] \in Nat /\ episode[a] \in Nat /\ shown[a] = 0
      BY <2>1
    <3> QED
      BY <3>1
  <2> QED
    BY <1>4, <2>2 DEF Episodes
<1>6. \A a \in Alerts : AInv(a)
  BY <1>1, <1>4 DEF AInv, Carried, InOrder, AlertsCover, FixedCover, OpenShown, ShownOpen
<1> QED
  BY <1>3, <1>5, <1>6, InitIInv DEF NInv, OrderInv

LEMMA NextKeepsOrder == NInv /\ [Next]_vars => NInv'
<1> SUFFICES ASSUME NInv, [Next]_vars PROVE NInv'
  OBVIOUS
<1>1. IInv'
  BY NextKeeps DEF NInv
<1> SUFFICES Typed' /\ Episodes' /\ OrderInv'
  BY <1>1 DEF NInv
<1> DEFINE Quiet == /\ UNCHANGED <<queue, work, shown, episode, open, disturbed>>
                    /\ doubled => doubled'
                    /\ \A s \in Subs : \/ sub'[s] = sub[s]
                                       \/ sub[s] = "none" /\ work[s].pc = "idle"
<1>2. CASE Quiet
  <2>1. episode \in [Alerts -> Nat \ {0}] /\ open \subseteq Alerts
    BY DEF NInv, Typed
  <2>2. /\ episode' \in [Alerts -> Nat \ {0}] /\ open' \subseteq Alerts
        /\ \A a \in Alerts : episode[a] <= episode'[a] /\ episode'[a] = episode[a]
                             /\ (a \in open' <=> a \in open)
    BY <1>2, <2>1
  <2> QED
    BY <1>2, <2>2, QuietKeeps
<1> HIDE DEF Quiet
<1>3. CASE UNCHANGED vars
  BY <1>2, <1>3 DEF Quiet, vars, pubVars, subVars
<1>4. ASSUME NEW a \in Alerts, PublishAlert(a) \/ PublishFixed(a) \/ PublishFails(a)
      PROVE  Typed' /\ Episodes' /\ OrderInv'
  BY <1>4, PublishAlertKeeps, PublishFixedKeeps, PublishFailsKeeps
<1>5. ASSUME NEW s \in Subs, Handle(s)
      PROVE  Typed' /\ Episodes' /\ OrderInv'
  BY <1>5, ReceiveKeeps, DroppedKeeps, SendKeeps, LookupKeeps, ReplyKeeps, StartedOrder
     DEF Handle, SendPanics
<1>6. ASSUME NEW m \in BOOLEAN, Mute(m)
      PROVE  Typed' /\ Episodes' /\ OrderInv'
  BY <1>2, <1>6 DEF Quiet, Mute, pubVars, subVars
<1>7. ASSUME NEW u \in Users, Command(u)
      PROVE  Typed' /\ Episodes' /\ OrderInv'
  <2>1. ASSUME NEW t \in Switched, SubscribeCheck(u, t) \/ UnsubscribeRead(u, t)
        PROVE  Typed' /\ Episodes' /\ OrderInv'
    BY <1>2, <2>1 DEF Quiet, SubscribeCheck, UnsubscribeRead, pubVars
  <2>2. ASSUME NEW s \in Subs, SubscribeNats(u, s)
        PROVE  Typed' /\ Episodes' /\ OrderInv'
    <3>1. sub \in [Subs -> Types \cup {"none"}]
      BY DEF NInv, IInv, SubsOK
    <3> QED
      BY <1>2, <2>2, <3>1 DEF Quiet, SubscribeNats, Free, pubVars
  <2>3. CASE SubscribeFails(u) \/ SubscribeAdd(u) \/ UnsubscribeDelete(u)
    BY <1>2, <2>3 DEF Quiet, SubscribeFails, SubscribeAdd, UnsubscribeDelete, pubVars
  <2> QED
    BY <1>7, <2>1, <2>2, <2>3, UnsubscribeNatsDrops DEF Command
<1> QED
  BY <1>3, <1>4, <1>5, <1>6, <1>7, StartedOrder DEF Next

\* For any number of alerts and of messages in flight, in whatever order the
\* subscriptions are served: a bot that missed nothing finds, for a fixed alert,
\* the message of the same episode or of a later one, unless the fix overtakes
\* its alert (environment.go 171-204 and 354-386, alert.go 18-35).
THEOREM FixedAlertsFound == Spec => []FixedFindsItsAlert
<1>1. NInv => FixedFindsItsAlert
  <2> SUFFICES ASSUME NInv, NEW s \in Subs, work[s].pc = "lookup", ~ doubled,
                      work[s].alert \notin disturbed, ~ Overtaken(s)
               PROVE  shown[work[s].alert] >= work[s].episode
    BY DEF FixedFindsItsAlert
  <2>1. PICK b, e : b = work[s].alert /\ e = work[s].episode
    OBVIOUS
  <2>2. Typed /\ b \in Alerts /\ e \in Nat
    BY <2>1 DEF NInv, Typed
  <2>3. 0 \in Places(s, b) /\ At(s, 0).episode = e /\ AInv(b)
    <3>1. Len(queue[s]) \in Nat
      BY <2>2 DEF Typed
    <3> QED
      BY <2>1, <2>2, <3>1 DEF Places, At, Message, NInv, OrderInv
  <2>4. sub[s] = "fixed"
    BY <2>3 DEF AInv, Carried, Types
  <2>5. ~ Pending("alert", b, e)
    BY <2>1, <2>2, <2>3, <2>4, InTheWay
  <2> QED
    BY <2>1, <2>3, <2>4, <2>5 DEF AInv, FixedCover
<1> QED
  BY <1>1, InitNInv, NextKeepsOrder, PTL DEF Spec

\* For the same: when nothing is in flight the bot remembers exactly the open
\* alerts, each with the message of its current episode, but for those in which
\* it missed or confused a message since they were last announced
\* (environment.go 190-204, 249-266, 373-386).
THEOREM OpenAlertsRemembered == Spec => []RemembersOpenAlerts
<1>1. NInv => RemembersOpenAlerts
  <2> SUFFICES ASSUME NInv, NEW a \in Alerts, ~ InFlight(a), a \notin disturbed, ~ doubled
               PROVE  shown[a] = (IF a \in open THEN episode[a] ELSE 0)
    BY DEF RemembersOpenAlerts
  <2>1. \A s \in Subs : Places(s, a) = {}
    BY HeldIs DEF NInv, InFlight
  <2>2. AInv(a) /\ \A t, x : ~ Pending(t, a, x)
    BY <2>1 DEF NInv, OrderInv, Pending
  <2>3. shown[a] \in Nat /\ episode[a] \in Nat \ {0}
    BY DEF NInv, Typed
  <2> QED
    BY <2>2, <2>3 DEF AInv, OpenShown, ShownOpen
<1> QED
  BY <1>1, InitNInv, NextKeepsOrder, PTL DEF Spec

-----------------------------------------------------------------------------
(***************************************************************************)
(* The pair client: no answer goes to the wrong handler                    *)
(***************************************************************************)
\* The types the argument rests on.
ClientOK ==
    /\ pc \in [Handlers -> {"idle", "sending", "waiting"}]
    /\ loop \in {"select", "nats", "reply"}
    /\ lost \in BOOLEAN

\* While nothing is lost, a handler that waits is the one whose request is out,
\* and that request is one that is answered: the loop passes an answer on for
\* every handler that waits.
WaitsForAnswer ==
    ~lost /\ loop # "select" /\ Waiting # {} => HasAnswer(kind)

ClientInv == ClientOK /\ OwnAnswers /\ WaitsForAnswer

LEMMA ClientInitInv == ClientInit => ClientInv
  BY DEF ClientInit, ClientInv, ClientOK, OwnAnswers, WaitsForAnswer, Waiting

\* However a handler goes on, it does not wait for an answer then.
LEMMA ContinueStopsWaiting ==
  ASSUME ClientOK, NEW h \in Handlers, NEW k, Continue(h, k)
  PROVE  /\ pc' \in [Handlers -> {"idle", "sending", "waiting"}]
         /\ Waiting' = Waiting \ {h}
  BY DEF ClientOK, Continue, Waiting

\* The lemma again for the end of a command.
LEMMA EndStopsWaiting ==
  ASSUME ClientOK, NEW h \in Handlers, End(h)
  PROVE  /\ pc' \in [Handlers -> {"idle", "sending", "waiting"}]
         /\ Waiting' = Waiting \ {h}
  BY ContinueStopsWaiting DEF End

\* A bot that starts again waits for nothing.
LEMMA ClientStarts ==
  ASSUME pc' = [x \in Handlers |-> "idle"], loop' = "select",
         lost' = FALSE, mixed' = FALSE
  PROVE  ClientInv'
  BY DEF ClientInv, ClientOK, OwnAnswers, WaitsForAnswer, Waiting

LEMMA TakeKeeps ==
  ASSUME ClientInv, NEW h \in Handlers, Take(h)
  PROVE  ClientInv'
<1>1. CASE HasAnswer(Request(h))
  <2>1. pc' = [pc EXCEPT ![h] = "waiting"]
    BY <1>1 DEF Take
  <2>2. Waiting' = Waiting \cup {h} /\ ClientOK'
    BY <2>1 DEF Waiting, ClientInv, ClientOK, Take
  <2> QED
    BY <1>1, <2>2 DEF ClientInv, OwnAnswers, WaitsForAnswer, Take
<1>2. CASE ~ HasAnswer(Request(h))
  <2>1. Continue(h, step[h] + 1)
    BY <1>2 DEF Take
  <2>2. Waiting' = Waiting \ {h} /\ ClientOK'
    BY <2>1, ContinueStopsWaiting DEF ClientInv, ClientOK, Take
  <2> QED
    BY <2>2 DEF ClientInv, OwnAnswers, WaitsForAnswer, Take
<1> QED
  BY <1>1, <1>2

\* Whoever receives an answer while nothing is lost has asked for it.
LEMMA DeliverKeeps ==
  ASSUME ClientInv, NEW h \in Handlers, Deliver(h), NEW k, Continue(h, k)
  PROVE  ClientInv'
<1>1. Waiting' = Waiting \ {h} /\ ClientOK'
  BY ContinueStopsWaiting DEF ClientInv, ClientOK, Deliver
<1>2. h \in Waiting
  BY DEF Deliver, Waiting
<1>3. ~ lost => asker = h /\ Waiting' = {}
  BY <1>1, <1>2 DEF ClientInv, OwnAnswers, Deliver
<1> QED
  BY <1>1, <1>3 DEF ClientInv, OwnAnswers, WaitsForAnswer, Deliver

LEMMA ReceiveAnswerKeeps ==
  ASSUME ClientInv, NEW h \in Handlers, ReceiveAnswer(h)
  PROVE  ClientInv'
<1>1. CASE ReceiveOk(h)
  BY <1>1, DeliverKeeps DEF ReceiveOk
<1>2. CASE ReceiveMismatch(h)
  <2>1. Deliver(h)
    BY <1>2 DEF ReceiveMismatch
  <2>2. \E k : Continue(h, k)
    BY <1>2 DEF ReceiveMismatch, End
  <2> QED
    BY <2>1, <2>2, DeliverKeeps
<1>3. CASE ReceiveCrash(h)
  BY <1>3, ClientStarts DEF ReceiveCrash
<1> QED
  BY <1>1, <1>2, <1>3 DEF ReceiveAnswer

LEMMA HandlerStepKeeps ==
  ASSUME ClientInv, NEW h \in Handlers, HandlerStep(h)
  PROVE  ClientInv'
<1>1. CASE EndEarly(h)
  <2>1. Waiting' = Waiting \ {h} /\ ClientOK'
    BY <1>1, EndStopsWaiting DEF EndEarly, ClientInv, ClientOK
  <2> QED
    BY <1>1, <2>1 DEF EndEarly, ClientInv, OwnAnswers, WaitsForAnswer
<1>2. CASE GiveUp(h)
  <2>1. ClientOK'
    BY <1>2, EndStopsWaiting DEF GiveUp, ClientInv, ClientOK
  <2> QED
    BY <1>2, <2>1 DEF GiveUp, ClientInv, OwnAnswers, WaitsForAnswer
<1> QED
  BY <1>1, <1>2, TakeKeeps, ReceiveAnswerKeeps DEF HandlerStep

LEMMA LoopStepKeeps ==
  ASSUME ClientInv, LoopStep
  PROVE  ClientInv'
<1>1. Waiting' = Waiting
  BY DEF LoopStep, Answered, NatsFails, ReplyTimeout, Waiting
<1>2. CASE Answered
  BY <1>1, <1>2 DEF Answered, ClientInv, ClientOK, OwnAnswers, WaitsForAnswer
<1>3. CASE NatsFails
  BY <1>1, <1>3 DEF NatsFails, ClientInv, ClientOK, OwnAnswers, WaitsForAnswer, HasAnswer
<1>4. CASE ReplyTimeout
  BY <1>1, <1>4 DEF ReplyTimeout, ClientInv, ClientOK, OwnAnswers, WaitsForAnswer
<1> QED
  BY <1>2, <1>3, <1>4 DEF LoopStep

LEMMA BeginKeeps ==
  ASSUME ClientInv, NEW h \in Handlers, NEW c \in Commands, Begin(h, c)
  PROVE  ClientInv'
<1>1. Waiting' = Waiting /\ ClientOK'
  BY DEF Begin, ClientInv, ClientOK, Waiting
<1> QED
  BY <1>1 DEF Begin, ClientInv, OwnAnswers, WaitsForAnswer

LEMMA ClientNextKeeps == ClientInv /\ [ClientNext]_clientVars => ClientInv'
<1> SUFFICES ASSUME ClientInv, [ClientNext]_clientVars PROVE ClientInv'
  OBVIOUS
<1>1. CASE UNCHANGED clientVars
  BY <1>1 DEF clientVars, ClientInv, ClientOK, OwnAnswers, WaitsForAnswer, Waiting
<1>2. CASE ClientRestart
  BY <1>2, ClientStarts DEF ClientRestart
<1> QED
  BY <1>1, <1>2, BeginKeeps, HandlerStepKeeps, LoopStepKeeps DEF ClientNext

\* For any number of handlers and any interleaving of their commands: while no
\* answer was lost and no health check gave up, every answer a handler receives
\* from the shared response channel is the one to its own request, and nobody
\* waits when the loop is free (handlers.go 80-157, pair_client.go 57-103).
THEOREM AnswersAreOwn == ClientSpec => []OwnAnswers
<1>1. ClientInv => OwnAnswers
  BY DEF ClientInv
<1> QED
  BY <1>1, ClientInitInv, ClientNextKeeps, PTL DEF ClientSpec
=============================================================================
