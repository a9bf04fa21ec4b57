----------------------------- MODULE GuiClient -----------------------------
(***************************************************************************)
(* The GUI client: its cache of messages, the list of topics, the message  *)
(* view, and the goroutines that the user's inputs start.  Goroutines      *)
(* change the client's state under clientMu; inputs and drawings run one   *)
(* at a time in the application's main loop.                               *)
(*                                                                         *)
(* The board is external.  A message is told by its id, and its contents   *)
(* by the number of the topic's event that made them.  Left out: names of  *)
(* users and topics, who is logged in and so what the modal offers, the    *)
(* highlighted message, unread marks, the status bar.                      *)
(***************************************************************************)
EXTENDS Integers, FiniteSets, SequencesExt, Functions, SortedIds

CONSTANTS
  Topics,     \* topics there may be
  Existing,   \* those there are at the beginning, newest first
  Threads,    \* goroutines there may be at a time
  None,       \* no cache entry, no channel, no index
  Limit,      \* of GetMessages, which begins at id 0 (50)
  MaxEvents,  \* bound: writes to the board
  MaxInputs   \* bound: inputs of the user

Orphan == "orphan"  \* the channel of a stream that has ended by an error

ASSUME GuiClientAssumption ==
  /\ Existing \in Seq(Topics) /\ Existing # <<>> /\ IsInjective(Existing)
  /\ None \notin Topics \cup Threads /\ Orphan \notin Threads
  /\ Limit \in Nat \ {0, 1} /\ MaxEvents \in Nat \ {0} /\ MaxInputs \in Nat

(* For what the cache holds: no topics without end, and no entry is None. *)
ASSUME CacheAssumption ==
  /\ IsFiniteSet(Topics)
  /\ None \notin [messages : [1..MaxEvents -> Nat], order : Seq(Nat)]

VARIABLES
  exists,           \* the topics of the board, newest first
  board,            \* topic -> the event that made message i, 0 if deleted
  events,           \* topic -> how many events there have been
  topics,           \* gc.topics, its keys
  topicOrder,       \* gc.topicOrder
  list,             \* the list of topics on the screen
  displaying,       \* displayTopics goroutines have begun, one or more
  listDrawings,     \* what they have copied and not drawn yet
  currentTopicId,
  messageCache,     \* topic -> messages and order, or None
  view,             \* the message view: topic, rows of id and contents
  subscribedTopics, \* the topics marked as subscribed
  streamsChans,     \* topic -> the goroutine whose stream it closes, or None
  thread,           \* the goroutines
  ui,               \* an index into the list that has passed its check
  inputs,           \* how many inputs there have been
  panicked,         \* the client has crashed
  outdated,         \* history: the last drawing was not of the newest state
  brought,          \* history: topic -> last event a subscription accounts for
  spoilt            \* history: topics whose cache got something too old

boardVars == <<exists, board, events>>
displayVars == <<displaying, listDrawings>>
topicVars == <<topics, topicOrder, list, displayVars>>
viewVars == <<currentTopicId, view, outdated>>
streamVars == <<subscribedTopics, streamsChans>>
cacheVars == <<messageCache, spoilt, brought>>
vars == <<boardVars, topicVars, viewVars, streamVars, cacheVars, thread, ui,
          inputs, panicked>>

Ids == 1..MaxEvents
Idle == [pc |-> "idle"]

-----------------------------------------------------------------------------
(* The cache.  messages[id] is 0 if there is none. *)

Event(op, id, v) == [op |-> op, id |-> id, v |-> v]

(* Mutant: changes to messages are not applied. *)
AppliedToKnown(c, e) ==
  CASE e.op = "post" -> [order |-> IF c.messages[e.id] = 0
                                   THEN Append(c.order, e.id) ELSE c.order,
                         messages |-> [c.messages EXCEPT ![e.id] = e.v]]
    [] e.op = "change" -> c
    [] e.op = "delete" -> [c EXCEPT !.messages[e.id] = 0]

(* The order keeps the ids of deleted messages. *)
Applied(c, e) ==
  CASE e.op = "post" -> [order |-> IF c.messages[e.id] = 0
                                   THEN Append(c.order, e.id) ELSE c.order,
                         messages |-> [c.messages EXCEPT ![e.id] = e.v]]
    [] e.op = "change" -> [c EXCEPT !.messages[e.id] = e.v]
    [] e.op = "delete" -> [c EXCEPT !.messages[e.id] = 0]

NewEntry == [messages |-> [i \in Ids |-> 0], order |-> <<>>]

Entry(t) == IF messageCache[t] = None THEN NewEntry ELSE messageCache[t]

(* The messages of topic t with ids from first on, below bound. *)
Messages(t, first, bound) ==
  InOrder({i \in DOMAIN board[t] :
             first <= i /\ i < bound /\ board[t][i] # 0})

(* GetMessages from 0, with the limit. *)
Page(t) == [order |-> Messages(t, 0, Limit),
            messages |-> [i \in Ids |-> IF i \in ToSet(Messages(t, 0, Limit))
                                        THEN board[t][i] ELSE 0]]

(* What updateMessageView makes of an entry. *)
Rows(c) ==
  LET shown == InOrder({k \in DOMAIN c.order : c.messages[c.order[k]] # 0})
  IN  [r \in DOMAIN shown |-> [id |-> c.order[shown[r]],
                               v |-> c.messages[c.order[shown[r]]]]]

(* As far as pages go, an entry shows what there is, and nothing twice. *)
IsTheBoard(t, c) ==
  LET onPage == Restrict(Rows(c),
                         {r \in DOMAIN Rows(c) : Rows(c)[r].id < Limit})
  IN  /\ IsInjective(onPage)
      /\ Range(onPage) = {[id |-> i, v |-> board[t][i]] :
                             i \in ToSet(Messages(t, 0, Limit))}

-----------------------------------------------------------------------------

Init ==
  /\ exists = Existing
  /\ board = [t \in Topics |-> IF t = Head(Existing) THEN <<1>> ELSE <<>>]
  /\ events = [t \in Topics |-> Len(board[t])]
  /\ topics = ToSet(Existing) /\ topicOrder = Existing /\ list = Existing
  /\ displaying = FALSE /\ listDrawings = {}
  /\ currentTopicId = Head(Existing)
  /\ messageCache = [t \in Topics |->
                       IF t = currentTopicId THEN Page(t) ELSE None]
  /\ view = [topic |-> currentTopicId, rows |-> Rows(Entry(currentTopicId))]
  /\ subscribedTopics = {}
  /\ streamsChans = [t \in Topics |-> None]
  /\ thread = [h \in Threads |-> Idle]
  /\ ui = None /\ inputs = 0
  /\ panicked = FALSE /\ outdated = FALSE
  /\ brought = [t \in Topics |-> 0] /\ spoilt = {}

At(h, pc) == ~panicked /\ thread[h].pc = pc

Become(h, r) == thread' = [thread EXCEPT ![h] = r]

(* The main loop starts a goroutine. *)
Go(r) ==
  \E h \in Threads : At(h, "idle") /\ Become(h, r)

Input ==
  /\ ~panicked /\ ui = None
  /\ inputs < MaxInputs /\ inputs' = inputs + 1

IsStream(r) == "pending" \in DOMAIN r

(* The topics of which these goroutines have streams. *)
Streamed(hs) ==
  {thread[h].topic : h \in {k \in hs : IsStream(thread[k]) /\ thread[k].open}}

(* A drawing is done.  Before a stream is waited for again the goroutine   *)
(* looks whether it has been closed.                                       *)
Resumed(r) == IF IsStream(r) /\ ~r.closed
              THEN [r EXCEPT !.pc = "recv", !.rows = <<>>] ELSE Idle

(* The board publishes an event to the topic's streams, also to that of a  *)
(* goroutine that has just asked for it.                                   *)
Published(threads, t, e) ==
  [h \in Threads |->
     IF IsStream(threads[h]) /\ threads[h].topic = t /\ threads[h].open
     THEN [threads[h] EXCEPT !.pending = Append(@, e)] ELSE threads[h]]

Happens(t, op, id) ==
  /\ FoldFunction(+, 0, events) < MaxEvents
  /\ events' = [events EXCEPT ![t] = @ + 1]
  /\ board' = [board EXCEPT ![t] =
       CASE op = "post"   -> Append(@, events'[t])
         [] op = "change" -> [@ EXCEPT ![id] = events'[t]]
         [] op = "delete" -> [@ EXCEPT ![id] = 0]]
  /\ UNCHANGED exists

EventOf(t, op, id) == Event(op, id, events[t] + 1)

NextId(t) == Len(board[t]) + 1

Alive(t) == {i \in DOMAIN board[t] : board[t][i] # 0}

(* Other clients write. *)
Others ==
  /\ ~panicked
  /\ \E t \in ToSet(exists), op \in {"post", "change", "delete"} :
       \E id \in IF op = "post" THEN {NextId(t)} ELSE Alive(t) :
         /\ Happens(t, op, id)
         /\ thread' = Published(thread, t, EventOf(t, op, id))
  /\ UNCHANGED <<topicVars, viewVars, streamVars, cacheVars, ui, inputs,
                 panicked>>

-----------------------------------------------------------------------------
(* Drawing, by the main loop when it is not at an input. *)

(* displayTopics starts a goroutine. *)
DisplayTopics == displaying' = TRUE

(* The goroutine goes on to updateMessageView. *)
Show(t) == [pc |-> "show", topic |-> t, rows |-> <<>>]

(* updateMessageView: the goroutine copies the entry and waits for the     *)
(* main loop to draw it.  A stream has the selected topic drawn only, and  *)
(* others marked as unread in the list, if they are not yet.  The drawing  *)
(* is dropped if there is no entry, or the topic is unknown, which a       *)
(* refresh may have made it.                                               *)
UpdateMessageView(h) ==
  LET r == thread[h]
      drawn == /\ r.topic \in topics /\ messageCache[r.topic] # None
               /\ ~IsStream(r) \/ r.topic = currentTopicId
  IN  /\ At(h, "show")
      /\ Become(h, IF drawn
                   THEN [r EXCEPT !.pc = "draw", !.rows = Rows(Entry(r.topic))]
                   ELSE Resumed(r))
      /\ outdated' = (outdated \/ (~drawn /\ r.topic = currentTopicId))
      /\ \/ UNCHANGED displaying
         \/ IsStream(r) /\ r.topic # currentTopicId /\ DisplayTopics
      /\ UNCHANGED <<boardVars, topics, topicOrder, list, listDrawings,
                     currentTopicId, view, streamVars, cacheVars, ui, inputs,
                     panicked>>

Newest(t, rows) == t = currentTopicId /\ rows = Rows(Entry(t))

Draws(t, rows) ==
  /\ view' = [topic |-> t, rows |-> rows]
  /\ outdated' = ~Newest(t, rows)
  /\ UNCHANGED currentTopicId

Draw(h) ==
  /\ At(h, "draw") /\ ui = None
  /\ Draws(thread[h].topic, thread[h].rows)
  /\ Become(h, Resumed(thread[h]))
  /\ UNCHANGED <<boardVars, topicVars, streamVars, cacheVars, ui, inputs,
                 panicked>>

-----------------------------------------------------------------------------
(* The messages of the selected topic. *)

LoadMessages == [pc |-> "load"]

(* The 'r' key in the message view. *)
PressReload ==
  /\ Input
  /\ Go(LoadMessages)
  /\ UNCHANGED <<boardVars, topicVars, viewVars, streamVars, cacheVars, ui,
                 panicked>>

(* loadMessagesForCurrentTopic, up to the answer. *)
LoadAsks(h) ==
  /\ At(h, "load")
  /\ LET t == currentTopicId IN
     Become(h, [pc |-> "loaded", topic |-> t, page |-> Page(t),
                asOf |-> events[t]])
  /\ UNCHANGED <<boardVars, topicVars, viewVars, streamVars, cacheVars, ui,
                 inputs, panicked>>

(* An answer of that time lacks what a subscription has accounted for.     *)
TooOld(t, asOf) == asOf < brought[t]

(* The answer takes the place of what there was.                           *)
LoadStores(h) ==
  /\ At(h, "loaded")
  /\ LET r == thread[h] IN
     /\ messageCache' = [messageCache EXCEPT ![r.topic] = r.page]
     /\ spoilt' = IF TooOld(r.topic, r.asOf) THEN spoilt \cup {r.topic}
                  ELSE spoilt \ {r.topic}
     /\ Become(h, Show(r.topic))
  /\ UNCHANGED <<boardVars, topicVars, viewVars, streamVars, brought, ui,
                 inputs, panicked>>

(* The messages the modal opens for, and offers op for: one of the rows,   *)
(* looked up in the selected topic's entry.  Without an entry the author   *)
(* is not known.                                                           *)
ModalOffers(op) ==
  {id \in {r.id : r \in ToSet(view.rows)} :
     IF messageCache[currentTopicId] = None THEN op = "like"
     ELSE messageCache[currentTopicId].messages[id] # 0}

(* handlePostMessage and handleUpdateMessage read the topic when their     *)
(* goroutine begins; likes and deletions have it from the main loop.       *)
PressWrite(op) ==
  /\ Input
  /\ \E id \in IF op = "post" THEN {0} ELSE ModalOffers(op) :
       /\ Go([pc |-> "write", op |-> op, id |-> id,
              topic |-> IF op \in {"post", "update"} THEN None
                        ELSE currentTopicId])
  /\ UNCHANGED <<boardVars, topicVars, viewVars, streamVars, cacheVars, ui,
                 panicked>>

(* The request is carried out at the HEAD. *)
WriteAsks(h) ==
  /\ At(h, "write")
  /\ LET r == thread[h]
         t == IF r.topic = None THEN currentTopicId ELSE r.topic
         op == IF r.op \in {"like", "update"} THEN "change" ELSE r.op
         id == IF op = "post" THEN NextId(t) ELSE r.id
     IN  /\ op = "post" \/ id \in Alive(t)
         /\ Happens(t, op, id)
         /\ thread' = Published([thread EXCEPT ![h] =
                        [pc |-> "written", topic |-> t,
                         event |-> EventOf(t, op, id)]],
                      t, EventOf(t, op, id))
  /\ UNCHANGED <<topicVars, viewVars, streamVars, cacheVars, ui, inputs,
                 panicked>>

(* The answer is put into the entry if there is one. *)
WritesEntry(t, e) ==
  IF messageCache[t] = None THEN UNCHANGED <<messageCache, spoilt>>
  ELSE /\ messageCache' = [messageCache EXCEPT ![t] = Applied(@, e)]
       /\ spoilt' = spoilt \cup ({t} \cap Streamed(Threads))

(* Mutant: the new state of the cache is not drawn. *)
WriteStoresUnseen(h) ==
  /\ At(h, "written")
  /\ LET t == thread[h].topic IN
     IF t \in subscribedTopics
     THEN Become(h, Idle) /\ UNCHANGED <<messageCache, spoilt>>
     ELSE /\ Become(h, Idle)
          /\ WritesEntry(t, thread[h].event)
  /\ UNCHANGED <<boardVars, topicVars, viewVars, streamVars, brought, ui,
                 inputs, panicked>>

(* The answer is left to the stream if the topic is marked as subscribed.  *)
WriteStores(h) ==
  /\ At(h, "written")
  /\ LET t == thread[h].topic IN
     IF t \in subscribedTopics
     THEN Become(h, Idle) /\ UNCHANGED <<messageCache, spoilt>>
     ELSE /\ Become(h, Show(t))
          /\ WritesEntry(t, thread[h].event)
  /\ UNCHANGED <<boardVars, topicVars, viewVars, streamVars, brought, ui,
                 inputs, panicked>>

-----------------------------------------------------------------------------
(* The list of topics. *)

(* An item is chosen, or 's' pressed on it; the index is checked here and  *)
(* used when the lock is had.                                              *)
PressTopic(op) ==
  /\ Input
  /\ \E i \in DOMAIN list :
       /\ i <= IF op = "select" THEN Cardinality(topics) ELSE Len(topicOrder)
       /\ ui' = [op |-> op, index |-> i]
  /\ UNCHANGED <<boardVars, topicVars, viewVars, streamVars, cacheVars,
                 thread, panicked>>

Chosen == topicOrder[ui.index]

(* The index may be out of range by now. *)
IndexPanics ==
  /\ ~panicked /\ ui # None
  /\ ui.index > Len(topicOrder)
  /\ panicked' = TRUE
  /\ UNCHANGED <<boardVars, topicVars, viewVars, streamVars, cacheVars,
                 thread, ui, inputs>>

(* handleSelectTopic. *)
SelectTopic ==
  /\ ~panicked /\ ui # None /\ ui.op = "select"
  /\ ui.index <= Len(topicOrder)
  /\ currentTopicId' = Chosen
  /\ DisplayTopics
  /\ Go(LoadMessages)
  /\ ui' = None
  /\ UNCHANGED <<boardVars, topics, topicOrder, list, listDrawings, view,
                 outdated, streamVars, cacheVars, inputs, panicked>>

(* handleTopicSubscription. *)
ChooseSubscription ==
  /\ ~panicked /\ ui # None /\ ui.op = "subscribe"
  /\ ui.index <= Len(topicOrder)
  /\ Go([pc |-> "subscribe", topic |-> Chosen])
  /\ ui' = None
  /\ UNCHANGED <<boardVars, topicVars, viewVars, streamVars, cacheVars,
                 inputs, panicked>>

PressRefresh ==
  /\ Input
  /\ Go([pc |-> "refresh"])
  /\ UNCHANGED <<boardVars, topicVars, viewVars, streamVars, cacheVars, ui,
                 panicked>>

PressCreateTopic ==
  /\ Input
  /\ Go([pc |-> "create"])
  /\ UNCHANGED <<boardVars, topicVars, viewVars, streamVars, cacheVars, ui,
                 panicked>>

(* refreshTopics: the answer comes newest first. *)
RefreshAsks(h) ==
  /\ At(h, "refresh")
  /\ Become(h, [pc |-> "refreshed", order |-> exists])
  /\ UNCHANGED <<boardVars, topicVars, viewVars, streamVars, cacheVars, ui,
                 inputs, panicked>>

RefreshStores(h) ==
  /\ At(h, "refreshed")
  /\ topics' = ToSet(thread[h].order)
  /\ topicOrder' = thread[h].order
  /\ DisplayTopics
  /\ Become(h, Idle)
  /\ UNCHANGED <<boardVars, list, listDrawings, viewVars, streamVars, cacheVars,
                 ui, inputs, panicked>>

(* handleCreateTopic. *)
CreateAsks(h) ==
  /\ At(h, "create")
  /\ \E t \in Topics \ ToSet(exists) :
       /\ exists' = <<t>> \o exists
       /\ Become(h, [pc |-> "created", topic |-> t])
  /\ UNCHANGED <<board, events, topicVars, viewVars, streamVars, cacheVars, ui,
                 inputs, panicked>>

AddTopic(t) ==
  topicOrder' = <<t>> \o topicOrder /\ topics' = topics \cup {t}

CreateStores(h) ==
  /\ At(h, "created")
  /\ AddTopic(thread[h].topic)
  /\ DisplayTopics
  /\ Become(h, Idle)
  /\ UNCHANGED <<boardVars, list, listDrawings, viewVars, streamVars, cacheVars,
                 ui, inputs, panicked>>

(* displayTopics: it may not be the only one that has begun. *)
CopyTopics ==
  /\ ~panicked /\ displaying
  /\ displaying' \in BOOLEAN
  /\ listDrawings' = listDrawings \cup
       {[order |-> topicOrder, known |-> ToSet(topicOrder) \subseteq topics]}
  /\ UNCHANGED <<boardVars, topics, topicOrder, list, viewVars, streamVars,
                 cacheVars, thread, ui, inputs, panicked>>

(* Every topic of the order is looked up: one that is missing panics.      *)
DrawTopics(d) ==
  /\ ~panicked /\ ui = None
  /\ IF d.known THEN list' = d.order /\ UNCHANGED panicked
     ELSE panicked' = TRUE /\ UNCHANGED list
  /\ listDrawings' = listDrawings \ {d}
  /\ UNCHANGED <<boardVars, topics, topicOrder, displaying, viewVars,
                 streamVars, cacheVars, thread, ui, inputs>>

-----------------------------------------------------------------------------
(* Subscriptions. *)

(* subscribeToTopic: the check, then the control plane's choice of a node  *)
(* and the first message that is missing.                                  *)
SubscribeChecks(h) ==
  /\ At(h, "subscribe")
  /\ Become(h, IF thread[h].topic \in subscribedTopics THEN Idle
               ELSE [thread[h] EXCEPT !.pc = "ask"])
  /\ UNCHANGED <<boardVars, topicVars, viewVars, streamVars, cacheVars, ui,
                 inputs, panicked>>

FirstMissing(t) ==
  IF Entry(t).order = <<>> THEN 1 ELSE Last(Entry(t).order) + 1

(* SubscribeTopic returns before the node has seen the request. *)
SubscribeAsks(h) ==
  /\ At(h, "ask")
  /\ LET t == thread[h].topic IN
     Become(h, [pc |-> "mark", topic |-> t, from |-> FirstMissing(t),
                open |-> FALSE, pending |-> <<>>, closed |-> FALSE,
                rows |-> <<>>])
  /\ UNCHANGED <<boardVars, topicVars, viewVars, streamVars, cacheVars, ui,
                 inputs, panicked>>

PastMessages(t, from) ==
  LET ids == Messages(t, from, MaxEvents + 1)
  IN  [i \in DOMAIN ids |-> Event("post", ids[i], board[t][ids[i]])]

(* What the cache will be when the stream has been read. *)
Outlook(t, pending) == FoldLeft(Applied, Entry(t), pending)

(* The node sends what there is and then what will be.  The cache may lack *)
(* changes that the client has not asked for.                              *)
StreamOpens(h) ==
  LET r == thread[h]
      past == PastMessages(r.topic, r.from)
  IN  /\ ~panicked /\ IsStream(r) /\ ~r.open
      /\ Become(h, [r EXCEPT !.open = TRUE, !.pending = past])
      /\ brought' = [brought EXCEPT ![r.topic] = events[r.topic]]
      /\ spoilt' = IF IsTheBoard(r.topic, Outlook(r.topic, past)) THEN spoilt
                   ELSE spoilt \cup {r.topic}
      /\ UNCHANGED <<boardVars, topicVars, viewVars, streamVars, messageCache,
                     ui, inputs, panicked>>

MarkSubscribed(h) ==
  /\ At(h, "mark")
  /\ subscribedTopics' = subscribedTopics \cup {thread[h].topic}
  /\ Become(h, [thread[h] EXCEPT !.pc = "register"])
  /\ DisplayTopics
  /\ UNCHANGED <<boardVars, topics, topicOrder, list, listDrawings, viewVars,
                 streamsChans, cacheVars, ui,
                 inputs, panicked>>

RegisterChannel(h) ==
  /\ At(h, "register")
  /\ streamsChans' = [streamsChans EXCEPT ![thread[h].topic] = h]
  /\ Become(h, [thread[h] EXCEPT !.pc = "recv"])
  /\ UNCHANGED <<boardVars, topicVars, viewVars, subscribedTopics, cacheVars,
                 ui, inputs, panicked>>

(* An event goes into the cache, and to the screen if its topic is there.  *)
(* It may be late if the topic's other stream has delivered it already.    *)
Receive(h) ==
  LET r == [thread[h] EXCEPT !.pending = Tail(@)]
      e == Head(thread[h].pending)
  IN  /\ At(h, "recv") /\ thread[h].pending # <<>>
      /\ messageCache' = [messageCache EXCEPT
                            ![r.topic] = Applied(Entry(r.topic), e)]
      /\ brought' = [brought EXCEPT ![r.topic] = IF e.v > @ THEN e.v ELSE @]
      /\ spoilt' = spoilt \cup ({r.topic} \cap Streamed(Threads \ {h}))
      /\ Become(h, [r EXCEPT !.pc = "show"])
      /\ UNCHANGED <<boardVars, topicVars, viewVars, streamVars, ui, inputs,
                     panicked>>

(* The node refuses, ends or is gone.  The channel stays behind.           *)
StreamBreaks(h) ==
  /\ At(h, "recv")
  /\ subscribedTopics' = subscribedTopics \ {thread[h].topic}
  /\ streamsChans' = [t \in Topics |-> IF streamsChans[t] = h THEN Orphan
                                       ELSE streamsChans[t]]
  /\ DisplayTopics
  /\ Become(h, Idle)
  /\ UNCHANGED <<boardVars, topics, topicOrder, list, listDrawings, viewVars,
                 cacheVars, ui, inputs,
                 panicked>>

PressCreateUser ==
  /\ Input
  /\ Go([pc |-> "signup"])
  /\ UNCHANGED <<boardVars, topicVars, viewVars, streamVars, cacheVars, ui,
                 panicked>>

(* Mutant: the closed channels stay in the map. *)
CloseSubscriptionsOnly(open) ==
  /\ subscribedTopics' = subscribedTopics \ open
  /\ UNCHANGED streamsChans

CloseSubscriptions(open) ==
  /\ subscribedTopics' = subscribedTopics \ open
  /\ streamsChans' = [t \in Topics |-> None]

(* handleCreateUser, once the user has been created: closeSubscriptions,   *)
(* which panics if it closes a channel again, and refreshTopics.           *)
SignUp(h) ==
  LET open == {t \in Topics : streamsChans[t] # None}
      streams == {streamsChans[t] : t \in open} \cap Threads
  IN  /\ At(h, "signup")
      /\ CloseSubscriptions(open)
      /\ thread' = [k \in Threads |->
           IF k = h THEN [pc |-> "refresh"]
           ELSE IF k \in streams THEN [thread[k] EXCEPT !.closed = TRUE]
           ELSE thread[k]]
      /\ panicked' = \E k \in streams : thread[k].closed
      /\ UNCHANGED <<boardVars, topicVars, viewVars, cacheVars, ui, inputs>>

-----------------------------------------------------------------------------

(* RetryFetch fails, whether or not the request has been carried out, and  *)
(* the user is told so.                                                    *)
Fails(h) ==
  /\ ~panicked
  /\ thread[h].pc \in {"load", "write", "written", "refresh", "create",
                       "created", "ask", "signup"}
  /\ outdated' = (outdated \/ thread[h].pc = "load")
  /\ Become(h, Idle)
  /\ UNCHANGED <<boardVars, topicVars, currentTopicId, view, streamVars,
                 cacheVars, ui, inputs, panicked>>

MainLoop ==
  \/ PressReload \/ PressRefresh \/ PressCreateTopic \/ PressCreateUser
  \/ \E op \in {"post", "update", "like", "delete"} : PressWrite(op)
  \/ \E op \in {"select", "subscribe"} : PressTopic(op)
  \/ IndexPanics \/ SelectTopic \/ ChooseSubscription

Step(h) ==
  \/ LoadAsks(h) \/ LoadStores(h) \/ WriteAsks(h) \/ WriteStores(h)
  \/ UpdateMessageView(h) \/ Draw(h)
  \/ RefreshAsks(h) \/ RefreshStores(h) \/ CreateAsks(h) \/ CreateStores(h)
  \/ SubscribeChecks(h) \/ SubscribeAsks(h) \/ StreamOpens(h)
  \/ MarkSubscribed(h) \/ RegisterChannel(h) \/ Receive(h)
  \/ StreamBreaks(h) \/ SignUp(h) \/ Fails(h)

Next ==
  \/ MainLoop \/ Others
  \/ CopyTopics
  \/ \E d \in listDrawings : DrawTopics(d)
  \/ \E h \in Threads : Step(h)

Spec == Init /\ [][Next]_vars

-----------------------------------------------------------------------------
(* Properties. *)

(* Nothing is under way: streams have been read. *)
Quiet ==
  /\ ui = None /\ ~panicked
  /\ \A h \in Threads :
       \/ thread[h] = Idle
       \/ thread[h].pc = "recv" /\ thread[h].open /\ thread[h].pending = <<>>

(* When all is quiet, a topic that is marked as subscribed has the board's *)
(* messages in its cache, each of them once, unless something too old has  *)
(* been put there: an answer or an event that was late, or what there was  *)
(* when the subscription began (loadMessagesForCurrentTopic,               *)
(* handlePostMessage, subscribeToTopic, handleSubscriptionStream).         *)
CacheIsTheBoard ==
  Quiet => \A t \in subscribedTopics \ spoilt : IsTheBoard(t, Entry(t))

(* When all is quiet, the message view shows the selected topic as it is   *)
(* in the cache, unless the last drawing was out of date, or none could be *)
(* made, when its turn came: whoever changes what should be on the screen  *)
(* has it drawn afterwards (updateMessageView and its callers).            *)
ViewFollowsSelection ==
  Quiet /\ ~outdated =>
    view = [topic |-> currentTopicId, rows |-> Rows(Entry(currentTopicId))]

(* The list on the screen has more topics than the client knows of. *)
ListOutdated == Len(list) > Len(topicOrder)

(* The client panics only by an index into a list on the screen that has   *)
(* been refreshed to a shorter one meanwhile: no channel is closed twice   *)
(* and no topic of the order is unknown (handleTopicSubscription,          *)
(* closeSubscriptions, displayTopics).                                     *)
GuiNeverPanics == panicked => ui # None /\ ListOutdated

=============================================================================
