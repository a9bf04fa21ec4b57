-------------------------- MODULE GuiClientProofs --------------------------
(***************************************************************************)
(* Theorems about GuiClient: what is on the screen is the newest state of  *)
(* the selected topic unless a drawing is to come, the only panic is that  *)
(* of an index into a list that has been refreshed meanwhile, and what the *)
(* client has of a subscribed topic is what the board has of it.           *)
(***************************************************************************)
EXTENDS GuiClient, FiniteSetTheorems, WellFoundedInduction, TLAPS

USE GuiClientAssumption

(***************************************************************************)
(* The invariant.                                                          *)
(***************************************************************************)

StreamFields == {"pc", "topic", "from", "open", "pending", "closed", "rows"}

PcsAlone == {"idle", "load", "refresh", "create", "signup"}
PcsOfTopic == {"created", "subscribe", "ask"}
PcsOfStream == {"mark", "register", "recv"}
PcsOfDrawing == {"show", "draw"}

(* The fields of a goroutine at each of its places. *)
Fields(r) ==
  /\ r.pc \in PcsAlone => DOMAIN r = {"pc"}
  /\ r.pc = "refreshed" => DOMAIN r = {"pc", "order"}
  /\ r.pc = "loaded" => DOMAIN r = {"pc", "topic", "page", "asOf"}
  /\ r.pc = "write" => DOMAIN r = {"pc", "op", "id", "topic"}
  /\ r.pc = "written" => DOMAIN r = {"pc", "topic", "event"}
  /\ r.pc \in PcsOfTopic => DOMAIN r = {"pc", "topic"}
  /\ r.pc \in PcsOfStream => DOMAIN r = StreamFields
  /\ r.pc \in PcsOfDrawing => DOMAIN r \in {StreamFields,
                                            {"pc", "topic", "rows"}}

(* Only a writer may leave open what its topic is. *)
ThreadOK(r) ==
  /\ r.pc \in PcsAlone \cup PcsOfTopic \cup PcsOfStream \cup PcsOfDrawing
             \cup {"refreshed", "loaded", "write", "written"}
  /\ Fields(r)
  /\ "topic" \in DOMAIN r =>
       r.topic \in Topics \/ (r.pc = "write" /\ r.topic = None)
  /\ r.pc = "refreshed" => r.order \in Seq(Topics)

ShapeInv ==
  /\ DOMAIN thread = Threads
  /\ \A h \in Threads : ThreadOK(thread[h])
  /\ DOMAIN messageCache = Topics
  /\ DOMAIN streamsChans = Topics
  /\ currentTopicId \in Topics

(* Whoever is in the order of topics is known, also in what has been       *)
(* copied of it, and an index that has been checked is one into the list   *)
(* on the screen.                                                          *)
ListInv ==
  /\ exists \in Seq(Topics) /\ topicOrder \in Seq(Topics)
  /\ list \in Seq(Topics)
  /\ ToSet(topicOrder) \subseteq topics
  /\ \A d \in listDrawings : d.known /\ d.order \in Seq(Topics)
  /\ ui # None => ui.index \in DOMAIN list

(* The goroutine reads a stream of topic t that nobody has closed. *)
Reads(r, t) ==
  /\ IsStream(r) /\ r.topic = t /\ ~r.closed
  /\ r.pc \in {"recv", "show", "draw"}

(* A channel in the map belongs to a goroutine that has not been told to   *)
(* end, and so is the one that a goroutine is about to put there.          *)
ChannelsInv ==
  /\ \A t \in Topics : streamsChans[t] \in Threads =>
                         Reads(thread[streamsChans[t]], t)
  /\ \A h \in Threads :
       thread[h].pc \in {"mark", "register"} => ~thread[h].closed

(* The goroutine has a drawing of topic t before it. *)
WillDraw(r, t) ==
  \/ r.pc = "load"
  \/ r.pc \in {"loaded", "show", "draw"} /\ r.topic = t

ViewInv ==
  \/ outdated
  \/ view = [topic |-> currentTopicId, rows |-> Rows(Entry(currentTopicId))]
  \/ \E h \in Threads : WillDraw(thread[h], currentTopicId)

IInv == ShapeInv /\ ListInv /\ ChannelsInv /\ ViewInv

-----------------------------------------------------------------------------
(* What most actions have in common. *)

(* Where one goroutine goes on, the others stay as they are. *)
LEMMA OthersStay ==
  ASSUME ShapeInv, NEW h \in Threads, NEW r, Become(h, r)
  PROVE  /\ DOMAIN thread' = Threads
         /\ thread'[h] = r
         /\ \A k \in Threads \ {h} : thread'[k] = thread[k]
BY DEF ShapeInv, Become

(* The goroutines keep their shape. *)
LEMMA ShapeKept ==
  ASSUME ShapeInv, NEW h \in Threads, NEW r, Become(h, r), ThreadOK(r),
         DOMAIN messageCache' = Topics, DOMAIN streamsChans' = Topics,
         currentTopicId' \in Topics
  PROVE  ShapeInv'
<1>1. \A k \in Threads : ThreadOK(thread'[k])
  <2> SUFFICES ASSUME NEW k \in Threads PROVE ThreadOK(thread'[k])
    OBVIOUS
  <2>1. CASE k = h
    BY <2>1, OthersStay
  <2>2. CASE k # h
    BY <2>2, OthersStay DEF ShapeInv
  <2> QED
    BY <2>1, <2>2
<1>2. DOMAIN thread' = Threads
  BY OthersStay
<1> QED
  BY <1>1, <1>2 DEF ShapeInv

(* Nothing has happened to the lists of topics. *)
LEMMA ListKept ==
  ASSUME ListInv, UNCHANGED <<exists, topicOrder, topics, list, listDrawings>>,
         ui' \in {ui, None}
  PROVE  ListInv'
BY DEF ListInv

(* A goroutine that reads a registered stream goes on reading it. *)
LEMMA ChannelsKept ==
  ASSUME ShapeInv, ChannelsInv, NEW h \in Threads, NEW r, Become(h, r),
         UNCHANGED streamsChans,
         \A t \in Topics : Reads(thread[h], t) => Reads(r, t),
         r.pc \in {"mark", "register"} => ~r.closed
  PROVE  ChannelsInv'
<1>1. \A t \in Topics : streamsChans'[t] \in Threads =>
                          Reads(thread'[streamsChans'[t]], t)
  <2> SUFFICES ASSUME NEW t \in Topics, streamsChans[t] \in Threads
               PROVE  Reads(thread'[streamsChans[t]], t)
    OBVIOUS
  <2>1. Reads(thread[streamsChans[t]], t)
    BY DEF ChannelsInv
  <2>2. CASE streamsChans[t] = h
    BY <2>1, <2>2, OthersStay
  <2>3. CASE streamsChans[t] # h
    BY <2>1, <2>3, OthersStay
  <2> QED
    BY <2>2, <2>3
<1>2. \A k \in Threads :
        thread'[k].pc \in {"mark", "register"} => ~thread'[k].closed
  <2> SUFFICES ASSUME NEW k \in Threads,
                      thread'[k].pc \in {"mark", "register"}
               PROVE  ~thread'[k].closed
    OBVIOUS
  <2>1. CASE k = h
    BY <2>1, OthersStay
  <2>2. CASE k # h
    BY <2>2, OthersStay DEF ChannelsInv
  <2> QED
    BY <2>1, <2>2
<1> QED
  BY <1>1, <1>2 DEF ChannelsInv

(* A goroutine that does not read a stream and becomes one that does not   *)
(* have to either.                                                         *)
LEMMA ChannelsUntouched ==
  ASSUME ShapeInv, ChannelsInv, NEW h \in Threads, NEW r, Become(h, r),
         UNCHANGED streamsChans,
         thread[h].pc \notin {"recv", "show", "draw"},
         r.pc \notin {"mark", "register"}
  PROVE  ChannelsInv'
<1>1. \A t \in Topics : Reads(thread[h], t) => Reads(r, t)
  BY DEF Reads
<1> QED
  BY <1>1, ChannelsKept

(* Nothing that is on the screen, or should be, has changed, and whoever   *)
(* had a drawing before it still does.                                     *)
LEMMA ViewKept ==
  ASSUME ShapeInv, ViewInv, NEW h \in Threads, NEW r, Become(h, r),
         UNCHANGED <<currentTopicId, view>>, outdated => outdated',
         messageCache'[currentTopicId] = messageCache[currentTopicId],
         \/ ~WillDraw(thread[h], currentTopicId)
         \/ WillDraw(r, currentTopicId)
         \/ outdated'
  PROVE  ViewInv'
<1>1. CASE outdated'
  BY <1>1 DEF ViewInv
<1>2. CASE view = [topic |-> currentTopicId,
                   rows |-> Rows(Entry(currentTopicId))]
  <2>1. Entry(currentTopicId)' = Entry(currentTopicId)
    BY DEF Entry
  <2>2. Rows(Entry(currentTopicId))' = Rows(Entry(currentTopicId))
    BY <2>1
  <2> QED
    BY <1>2, <2>2 DEF ViewInv
<1>3. ASSUME NEW k \in Threads, WillDraw(thread[k], currentTopicId),
             ~outdated'
      PROVE  ViewInv'
  <2>1. CASE k = h
    BY <1>3, <2>1, OthersStay DEF ViewInv
  <2>2. CASE k # h
    BY <1>3, <2>2, OthersStay DEF ViewInv
  <2> QED
    BY <2>1, <2>2
<1> QED
  BY <1>1, <1>2, <1>3 DEF ViewInv

(* Somebody has a drawing before him. *)
LEMMA ViewToCome ==
  ASSUME NEW h \in Threads, WillDraw(thread'[h], currentTopicId')
  PROVE  ViewInv'
BY DEF ViewInv

-----------------------------------------------------------------------------
(* The main loop. *)

(* Where a goroutine begins. *)
Begins == {"load", "refresh", "create", "signup", "write", "subscribe"}

(* An input starts a goroutine, and does nothing else. *)
LEMMA GoKeeps ==
  ASSUME IInv, NEW r, Go(r), ThreadOK(r), r.pc \in Begins,
         UNCHANGED <<boardVars, topicVars, viewVars, streamVars, cacheVars>>,
         ui' \in {ui, None}
  PROVE  IInv'
<1>1. PICK h \in Threads : At(h, "idle") /\ Become(h, r)
  BY DEF Go
<1>2. /\ UNCHANGED <<exists, topicOrder, topics, list, listDrawings>>
      /\ UNCHANGED <<currentTopicId, view, outdated>>
      /\ UNCHANGED <<streamsChans, messageCache>>
  BY DEF boardVars, topicVars, displayVars, viewVars, streamVars, cacheVars
<1>3. ShapeInv'
  BY <1>1, <1>2, ShapeKept DEF IInv, ShapeInv
<1>4. ListInv'
  BY <1>2, ListKept DEF IInv
<1>5. ChannelsInv'
  BY <1>1, <1>2, ChannelsUntouched DEF IInv, At, Begins
<1>6. ViewInv'
  BY <1>1, <1>2, ViewKept DEF IInv, At, WillDraw
<1> QED
  BY <1>3, <1>4, <1>5, <1>6 DEF IInv

LEMMA PressesKeep ==
  ASSUME IInv, PressReload \/ PressRefresh \/ PressCreateTopic
               \/ PressCreateUser
  PROVE  IInv'
<1>1. PICK r \in {[pc |-> "load"], [pc |-> "refresh"], [pc |-> "create"],
                  [pc |-> "signup"]} :
        /\ Go(r) /\ ui' = ui
        /\ UNCHANGED <<boardVars, topicVars, viewVars, streamVars, cacheVars>>
  BY DEF PressReload, PressRefresh, PressCreateTopic, PressCreateUser,
         LoadMessages
<1>2. ThreadOK(r) /\ r.pc \in Begins
  BY DEF ThreadOK, Fields, PcsAlone, PcsOfTopic, PcsOfStream, PcsOfDrawing,
         Begins
<1> QED
  BY <1>1, <1>2, GoKeeps

LEMMA PressWriteKeeps ==
  ASSUME IInv, NEW op \in {"post", "update", "like", "delete"}, PressWrite(op)
  PROVE  IInv'
<1>1. PICK r : /\ \E id, t : /\ r = [pc |-> "write", op |-> op, id |-> id,
                                     topic |-> t]
                             /\ t \in {None, currentTopicId}
               /\ Go(r) /\ ui' = ui
               /\ UNCHANGED <<boardVars, topicVars, viewVars, streamVars,
                              cacheVars>>
  BY DEF PressWrite
<1>2. ThreadOK(r) /\ r.pc \in Begins
  BY <1>1 DEF IInv, ShapeInv, ThreadOK, Fields, PcsAlone, PcsOfTopic,
              PcsOfStream, PcsOfDrawing, Begins
<1> QED
  BY <1>1, <1>2, GoKeeps

LEMMA PressTopicKeeps ==
  ASSUME IInv, NEW op \in {"select", "subscribe"}, PressTopic(op)
  PROVE  IInv'
<1>1. /\ UNCHANGED <<exists, topicOrder, topics, list, listDrawings>>
      /\ UNCHANGED <<currentTopicId, view, outdated>>
      /\ UNCHANGED <<streamsChans, messageCache, thread>>
      /\ ui'.index \in DOMAIN list
  BY DEF PressTopic, boardVars, topicVars, displayVars, viewVars, streamVars,
         cacheVars
<1>2. ShapeInv'
  BY <1>1 DEF IInv, ShapeInv
<1>3. ListInv'
  BY <1>1 DEF IInv, ListInv
<1>4. ChannelsInv'
  BY <1>1 DEF IInv, ChannelsInv
<1>5. Rows(Entry(currentTopicId))' = Rows(Entry(currentTopicId))
  BY <1>1 DEF Entry
<1>6. ViewInv'
  BY <1>1, <1>5 DEF IInv, ViewInv
<1> QED
  BY <1>2, <1>3, <1>4, <1>6 DEF IInv

(* The index has been checked against the order as it is now. *)
LEMMA ChosenIsKnown ==
  ASSUME IInv, ui # None, ui.index <= Len(topicOrder)
  PROVE  Chosen \in Topics
<1>1. ui.index \in 1..Len(list)
  BY DEF IInv, ListInv
<1>2. ui.index \in 1..Len(topicOrder)
  BY <1>1 DEF IInv, ListInv
<1> QED
  BY <1>2 DEF IInv, ListInv, Chosen

LEMMA SelectTopicKeeps ==
  ASSUME IInv, SelectTopic
  PROVE  IInv'
<1>1. PICK h \in Threads : At(h, "idle") /\ Become(h, LoadMessages)
  BY DEF SelectTopic, Go
<1>2. /\ UNCHANGED <<exists, topicOrder, topics, list, listDrawings>>
      /\ UNCHANGED <<streamsChans, messageCache>>
      /\ ui' = None /\ currentTopicId' = Chosen
  BY DEF SelectTopic, boardVars, streamVars, cacheVars
<1>3. ThreadOK(LoadMessages) /\ LoadMessages.pc = "load"
  BY DEF ThreadOK, Fields, PcsAlone, PcsOfTopic, PcsOfStream, PcsOfDrawing,
         LoadMessages
<1>4. currentTopicId' \in Topics
  BY <1>2, ChosenIsKnown DEF SelectTopic
<1>5. ShapeInv'
  BY <1>1, <1>2, <1>3, <1>4, ShapeKept DEF IInv, ShapeInv
<1>6. ListInv'
  BY <1>2, ListKept DEF IInv
<1>7. ChannelsInv'
  BY <1>1, <1>2, <1>3, ChannelsUntouched DEF IInv, At
<1>8. thread'[h] = LoadMessages
  BY <1>1, OthersStay DEF IInv
<1>9. ViewInv'
  BY <1>3, <1>8, ViewToCome DEF WillDraw
<1> QED
  BY <1>5, <1>6, <1>7, <1>9 DEF IInv

LEMMA ChooseSubscriptionKeeps ==
  ASSUME IInv, ChooseSubscription
  PROVE  IInv'
<1>1. PICK r : /\ r = [pc |-> "subscribe", topic |-> Chosen]
               /\ Go(r) /\ ui' = None
               /\ UNCHANGED <<boardVars, topicVars, viewVars, streamVars,
                              cacheVars>>
  BY DEF ChooseSubscription
<1>2. Chosen \in Topics
  BY ChosenIsKnown DEF ChooseSubscription
<1>3. ThreadOK(r) /\ r.pc \in Begins
  BY <1>1, <1>2 DEF ThreadOK, Fields, PcsAlone, PcsOfTopic, PcsOfStream,
                    PcsOfDrawing, Begins
<1> QED
  BY <1>1, <1>3, GoKeeps

LEMMA IndexPanicsKeeps ==
  ASSUME IInv, IndexPanics
  PROVE  IInv'
<1>1. UNCHANGED <<exists, topicOrder, topics, list, listDrawings, ui,
                  currentTopicId, view, outdated, streamsChans, messageCache,
                  thread>>
  BY DEF IndexPanics, boardVars, topicVars, displayVars, viewVars, streamVars,
         cacheVars
<1>2. ShapeInv'
  BY <1>1 DEF IInv, ShapeInv
<1>3. ListInv'
  BY <1>1 DEF IInv, ListInv
<1>4. ChannelsInv'
  BY <1>1 DEF IInv, ChannelsInv
<1>5. Rows(Entry(currentTopicId))' = Rows(Entry(currentTopicId))
  BY <1>1 DEF Entry
<1>6. ViewInv'
  BY <1>1, <1>5 DEF IInv, ViewInv
<1> QED
  BY <1>2, <1>3, <1>4, <1>6 DEF IInv

(* The list of topics is copied, and drawn if it can be. *)
LEMMA TopicsDrawingKeeps ==
  ASSUME IInv, CopyTopics \/ (\E d \in listDrawings : DrawTopics(d))
  PROVE  IInv'
<1>1. UNCHANGED <<exists, topicOrder, topics, currentTopicId, view, outdated,
                  streamsChans, messageCache, thread, ui>>
  BY DEF CopyTopics, DrawTopics, boardVars, viewVars, streamVars, cacheVars
<1>2. ShapeInv'
  BY <1>1 DEF IInv, ShapeInv
<1>3. ChannelsInv'
  BY <1>1 DEF IInv, ChannelsInv
<1>4. Rows(Entry(currentTopicId))' = Rows(Entry(currentTopicId))
  BY <1>1 DEF Entry
<1>5. ViewInv'
  BY <1>1, <1>4 DEF IInv, ViewInv
<1>6. ListInv'
  <2>1. CASE CopyTopics
    <3>1. PICK c : /\ c = [order |-> topicOrder,
                           known |-> ToSet(topicOrder) \subseteq topics]
                   /\ listDrawings' = listDrawings \cup {c} /\ list' = list
      BY <2>1 DEF CopyTopics
    <3>2. c.known /\ c.order \in Seq(Topics)
      BY <3>1 DEF IInv, ListInv
    <3> QED
      BY <1>1, <3>1, <3>2 DEF IInv, ListInv
  <2>2. ASSUME NEW d \in listDrawings, DrawTopics(d)
        PROVE  ListInv'
    <3>1. /\ listDrawings' \subseteq listDrawings /\ ui = None
          /\ list' \in {list, d.order}
      BY <2>2 DEF DrawTopics
    <3>2. list' \in Seq(Topics)
      BY <2>2, <3>1 DEF IInv, ListInv
    <3> QED
      BY <1>1, <3>1, <3>2 DEF IInv, ListInv
  <2> QED
    BY <2>1, <2>2
<1> QED
  BY <1>2, <1>3, <1>5, <1>6 DEF IInv

-----------------------------------------------------------------------------
(* The goroutines. *)

(* One goroutine goes on, and of the rest of the state only a drawing may  *)
(* be missed.                                                              *)
LEMMA MoveKeeps ==
  ASSUME IInv, NEW h \in Threads, NEW r, Become(h, r), ThreadOK(r),
         UNCHANGED <<exists, topicOrder, topics, list, listDrawings, ui>>,
         UNCHANGED <<currentTopicId, view, streamsChans, messageCache>>,
         outdated => outdated',
         \A t \in Topics : Reads(thread[h], t) => Reads(r, t),
         r.pc \in {"mark", "register"} => ~r.closed,
         \/ ~WillDraw(thread[h], currentTopicId)
         \/ WillDraw(r, currentTopicId)
         \/ outdated'
  PROVE  IInv'
<1>1. ShapeInv'
  BY ShapeKept DEF IInv, ShapeInv
<1>2. ListInv'
  BY ListKept DEF IInv
<1>3. ChannelsInv'
  BY ChannelsKept DEF IInv
<1>4. ViewInv'
  BY ViewKept DEF IInv
<1> QED
  BY <1>1, <1>2, <1>3, <1>4 DEF IInv

(* A drawing is done: the goroutine ends, or waits for its stream. *)
LEMMA ResumedShape ==
  ASSUME NEW r, ThreadOK(r), r.pc \in {"show", "draw"}
  PROVE  /\ ThreadOK(Resumed(r))
         /\ Resumed(r).pc \in {"recv", "idle"}
         /\ \A t \in Topics : Reads(r, t) => Reads(Resumed(r), t)
<1>1. CASE IsStream(r) /\ ~r.closed
  <2>1. PICK q : q = [r EXCEPT !.pc = "recv", !.rows = <<>>]
    OBVIOUS
  <2>2. DOMAIN r = StreamFields
    BY <1>1 DEF ThreadOK, Fields, PcsOfDrawing, IsStream
  <2>3. /\ DOMAIN q = StreamFields
        /\ q.pc = "recv" /\ q.topic = r.topic /\ q.closed = r.closed
    BY <2>1, <2>2 DEF StreamFields
  <2>4. r.topic \in Topics
    BY <2>2 DEF ThreadOK, StreamFields
  <2>5. ThreadOK(q)
    BY <2>3, <2>4 DEF ThreadOK, Fields, PcsAlone, PcsOfTopic, PcsOfStream,
                      PcsOfDrawing
  <2>6. Resumed(r) = q
    BY <1>1, <2>1 DEF Resumed
  <2>7. \A t \in Topics : Reads(r, t) => Reads(q, t)
    BY <2>3 DEF Reads, IsStream, StreamFields
  <2> QED
    BY <2>3, <2>5, <2>6, <2>7
<1>2. CASE ~(IsStream(r) /\ ~r.closed)
  <2>1. Resumed(r) = [pc |-> "idle"]
    BY <1>2 DEF Resumed, Idle
  <2>2. ThreadOK([pc |-> "idle"])
    BY DEF ThreadOK, Fields, PcsAlone, PcsOfTopic, PcsOfStream, PcsOfDrawing
  <2>3. \A t \in Topics : ~Reads(r, t)
    BY <1>2 DEF Reads
  <2> QED
    BY <2>1, <2>2, <2>3
<1> QED
  BY <1>1, <1>2

LEMMA UpdateMessageViewKeeps ==
  ASSUME IInv, NEW h \in Threads, UpdateMessageView(h)
  PROVE  IInv'
<1>1. PICK r : r = thread[h]
  OBVIOUS
<1>2. ThreadOK(r) /\ r.pc = "show"
  BY <1>1 DEF IInv, ShapeInv, UpdateMessageView, At
<1>3. /\ UNCHANGED <<exists, topicOrder, topics, list, listDrawings, ui>>
      /\ UNCHANGED <<currentTopicId, view, streamsChans, messageCache>>
      /\ outdated => outdated'
  BY DEF UpdateMessageView, boardVars, streamVars, cacheVars
<1>4. PICK rows : rows = Rows(Entry(r.topic))
  OBVIOUS
<1>5. PICK q : q = [r EXCEPT !.pc = "draw", !.rows = rows]
  OBVIOUS
<1>6. \/ Become(h, q)
      \/ Become(h, Resumed(r)) /\ (r.topic = currentTopicId => outdated')
  BY <1>1, <1>4, <1>5 DEF UpdateMessageView
<1>7. CASE Become(h, q)
  <2>1. DOMAIN q = DOMAIN r
    BY <1>5
  <2>2. {"pc", "topic", "rows"} \subseteq DOMAIN r
    BY <1>2 DEF ThreadOK, Fields, PcsOfDrawing, StreamFields
  <2>3. /\ q.pc = "draw" /\ q.topic = r.topic
        /\ IsStream(r) => q.closed = r.closed
    BY <1>5, <2>2 DEF IsStream, StreamFields
  <2>4. ThreadOK(q)
    BY <1>2, <2>1, <2>2, <2>3
       DEF ThreadOK, Fields, PcsAlone, PcsOfTopic, PcsOfStream, PcsOfDrawing
  <2>5. \A t \in Topics : Reads(r, t) => Reads(q, t)
    BY <2>1, <2>3 DEF Reads, IsStream
  <2>6. WillDraw(r, currentTopicId) => WillDraw(q, currentTopicId)
    BY <1>2, <2>3 DEF WillDraw
  <2> QED
    BY <1>1, <1>3, <1>7, <2>3, <2>4, <2>5, <2>6, MoveKeeps
<1>8. CASE Become(h, Resumed(r)) /\ (r.topic = currentTopicId => outdated')
  <2>1. PICK s : s = Resumed(r)
    OBVIOUS
  <2>2. /\ ThreadOK(s) /\ s.pc \in {"recv", "idle"}
        /\ \A t \in Topics : Reads(r, t) => Reads(s, t)
    BY <1>2, <2>1, ResumedShape
  <2>3. ~WillDraw(r, currentTopicId) \/ outdated'
    BY <1>2, <1>8 DEF WillDraw
  <2> QED
    BY <1>1, <1>3, <1>8, <2>1, <2>2, <2>3, MoveKeeps
<1> QED
  BY <1>6, <1>7, <1>8

LEMMA DrawKeeps ==
  ASSUME IInv, NEW h \in Threads, Draw(h)
  PROVE  IInv'
<1>1. PICK r : r = thread[h]
  OBVIOUS
<1>2. ThreadOK(r) /\ r.pc = "draw"
  BY <1>1 DEF IInv, ShapeInv, Draw, At
<1>3. /\ UNCHANGED <<exists, topicOrder, topics, list, listDrawings, ui>>
      /\ UNCHANGED <<currentTopicId, streamsChans, messageCache>>
  BY DEF Draw, Draws, boardVars, topicVars, displayVars, streamVars, cacheVars
<1>4. PICK s : s = Resumed(r)
  OBVIOUS
<1>5. /\ ThreadOK(s) /\ s.pc \in {"recv", "idle"}
      /\ \A t \in Topics : Reads(r, t) => Reads(s, t)
  BY <1>2, <1>4, ResumedShape
<1>6. Become(h, s)
  BY <1>1, <1>4 DEF Draw
<1>7. ShapeInv'
  BY <1>3, <1>5, <1>6, ShapeKept DEF IInv, ShapeInv
<1>8. ListInv'
  BY <1>3, ListKept DEF IInv
<1>9. ChannelsInv'
  BY <1>1, <1>3, <1>5, <1>6, ChannelsKept DEF IInv
<1>10. ViewInv'
  <2>1. /\ view' = [topic |-> r.topic, rows |-> r.rows]
        /\ outdated' = ~Newest(r.topic, r.rows)
    BY <1>1 DEF Draw, Draws
  <2>2. CASE Newest(r.topic, r.rows)
    <3>1. Rows(Entry(currentTopicId))' = Rows(Entry(currentTopicId))
      BY <1>3 DEF Entry
    <3> QED
      BY <1>3, <2>1, <2>2, <3>1 DEF Newest, ViewInv
  <2>3. CASE ~Newest(r.topic, r.rows)
    BY <2>1, <2>3 DEF ViewInv
  <2> QED
    BY <2>2, <2>3
<1> QED
  BY <1>7, <1>8, <1>9, <1>10 DEF IInv

LEMMA LoadAsksKeeps ==
  ASSUME IInv, NEW h \in Threads, LoadAsks(h)
  PROVE  IInv'
<1>1. PICK r, page, asOf :
        /\ r = [pc |-> "loaded", topic |-> currentTopicId, page |-> page,
                asOf |-> asOf]
        /\ Become(h, r)
  BY DEF LoadAsks
<1>2. /\ UNCHANGED <<exists, topicOrder, topics, list, listDrawings, ui>>
      /\ UNCHANGED <<currentTopicId, view, outdated, streamsChans,
                     messageCache>>
      /\ thread[h].pc = "load"
  BY DEF LoadAsks, At, boardVars, topicVars, displayVars, viewVars,
         streamVars, cacheVars
<1>3. ThreadOK(r)
  BY <1>1 DEF ThreadOK, Fields, PcsAlone, PcsOfTopic, PcsOfStream,
              PcsOfDrawing, IInv, ShapeInv
<1>4. WillDraw(r, currentTopicId) /\ r.pc = "loaded"
  BY <1>1 DEF WillDraw
<1>5. \A t \in Topics : ~Reads(thread[h], t)
  BY <1>2 DEF Reads
<1> QED
  BY <1>1, <1>2, <1>3, <1>4, <1>5, MoveKeeps

LEMMA ShowShape ==
  ASSUME NEW t \in Topics
  PROVE  ThreadOK(Show(t)) /\ Show(t).pc = "show" /\ WillDraw(Show(t), t)
BY DEF Show, ThreadOK, Fields, PcsAlone, PcsOfTopic, PcsOfStream,
       PcsOfDrawing, WillDraw

LEMMA IdleShape == ThreadOK(Idle) /\ Idle.pc = "idle"
BY DEF Idle, ThreadOK, Fields, PcsAlone, PcsOfTopic, PcsOfStream,
       PcsOfDrawing

(* A goroutine puts something into the cache and goes on to draw it. *)
LEMMA StoreKeeps ==
  ASSUME IInv, NEW h \in Threads, NEW r, Become(h, r), ThreadOK(r),
         UNCHANGED <<exists, topicOrder, topics, list, listDrawings, ui>>,
         UNCHANGED <<currentTopicId, view, outdated, streamsChans>>,
         r.pc = "show", DOMAIN messageCache' = Topics,
         \A t \in Topics \ {r.topic} : messageCache'[t] = messageCache[t],
         \A t \in Topics : Reads(thread[h], t) => Reads(r, t),
         WillDraw(thread[h], currentTopicId) => r.topic = currentTopicId
  PROVE  IInv'
<1>1. ShapeInv'
  BY ShapeKept DEF IInv, ShapeInv
<1>2. ListInv'
  BY ListKept DEF IInv
<1>3. ChannelsInv'
  BY ChannelsKept DEF IInv
<1>4. ViewInv'
  <2>1. CASE r.topic = currentTopicId
    <3>1. thread'[h] = r
      BY OthersStay DEF IInv
    <3>2. WillDraw(thread'[h], currentTopicId')
      BY <2>1, <3>1 DEF WillDraw
    <3> QED
      BY <3>2, ViewToCome
  <2>2. CASE r.topic # currentTopicId
    <3>1. messageCache'[currentTopicId] = messageCache[currentTopicId]
      BY <2>2 DEF IInv, ShapeInv
    <3>2. ~WillDraw(thread[h], currentTopicId)
      BY <2>2
    <3> QED
      BY <3>1, <3>2, ViewKept DEF IInv
  <2> QED
    BY <2>1, <2>2
<1> QED
  BY <1>1, <1>2, <1>3, <1>4 DEF IInv

LEMMA LoadStoresKeeps ==
  ASSUME IInv, NEW h \in Threads, LoadStores(h)
  PROVE  IInv'
<1>1. PICK t : t = thread[h].topic
  OBVIOUS
<1>2. t \in Topics /\ thread[h].pc = "loaded"
  BY <1>1 DEF LoadStores, At, IInv, ShapeInv, ThreadOK, Fields
<1>3. PICK r : r = Show(t)
  OBVIOUS
<1>4. Become(h, r)
  BY <1>1, <1>3 DEF LoadStores
<1>5. ThreadOK(r) /\ r.pc = "show" /\ r.topic = t
  BY <1>2, <1>3, ShowShape DEF Show
<1>6. /\ UNCHANGED <<exists, topicOrder, topics, list, listDrawings, ui>>
      /\ UNCHANGED <<currentTopicId, view, outdated, streamsChans>>
  BY DEF LoadStores, boardVars, topicVars, displayVars, viewVars, streamVars
<1>7. /\ DOMAIN messageCache' = Topics
      /\ \A u \in Topics \ {t} : messageCache'[u] = messageCache[u]
  BY <1>1 DEF LoadStores, IInv, ShapeInv
<1>8. /\ \A u \in Topics : ~Reads(thread[h], u)
      /\ WillDraw(thread[h], currentTopicId) => t = currentTopicId
  BY <1>1, <1>2 DEF Reads, WillDraw
<1> QED
  BY <1>4, <1>5, <1>6, <1>7, <1>8, StoreKeeps

(* The answer is put into the cache and will be drawn, or it is left to    *)
(* the stream.                                                             *)
LEMMA WriteStoresKeeps ==
  ASSUME IInv, NEW h \in Threads, WriteStores(h)
  PROVE  IInv'
<1>1. PICK t : t = thread[h].topic
  OBVIOUS
<1>2. t \in Topics /\ thread[h].pc = "written"
  BY <1>1 DEF WriteStores, At, IInv, ShapeInv, ThreadOK, Fields
<1>3. /\ UNCHANGED <<exists, topicOrder, topics, list, listDrawings, ui>>
      /\ UNCHANGED <<currentTopicId, view, outdated, streamsChans>>
  BY DEF WriteStores, boardVars, topicVars, displayVars, viewVars, streamVars
<1>4. /\ \A u \in Topics : ~Reads(thread[h], u)
      /\ ~WillDraw(thread[h], currentTopicId)
  BY <1>2 DEF Reads, WillDraw
<1>5. CASE t \in subscribedTopics
  <2>1. Become(h, Idle) /\ UNCHANGED messageCache
    BY <1>1, <1>5 DEF WriteStores
  <2> QED
    BY <1>3, <1>4, <2>1, IdleShape, MoveKeeps
<1>6. CASE t \notin subscribedTopics
  <2>1. PICK r : r = Show(t)
    OBVIOUS
  <2>2. /\ Become(h, r) /\ ThreadOK(r) /\ r.pc = "show" /\ r.topic = t
    BY <1>1, <1>2, <1>6, <2>1, ShowShape DEF WriteStores, Show
  <2>3. WritesEntry(t, thread[h].event)
    BY <1>1, <1>6 DEF WriteStores
  <2>4. /\ DOMAIN messageCache' = Topics
        /\ \A u \in Topics \ {t} : messageCache'[u] = messageCache[u]
    BY <2>3 DEF WritesEntry, IInv, ShapeInv
  <2> QED
    BY <1>3, <1>4, <2>2, <2>4, StoreKeeps
<1> QED
  BY <1>5, <1>6

(* Two records of a goroutine that differ in nothing the invariant is      *)
(* about.                                                                  *)
Similar(r, q) ==
  /\ DOMAIN q = DOMAIN r /\ q.pc = r.pc
  /\ "topic" \in DOMAIN r => q.topic = r.topic
  /\ "order" \in DOMAIN r => q.order = r.order
  /\ "closed" \in DOMAIN r => q.closed = r.closed

LEMMA SimilarShape ==
  ASSUME NEW r, NEW q, Similar(r, q), ThreadOK(r)
  PROVE  /\ ThreadOK(q)
         /\ \A t \in Topics : Reads(r, t) => Reads(q, t)
         /\ \A t \in Topics : WillDraw(r, t) => WillDraw(q, t)
         /\ r.pc \in {"mark", "register"} /\ ~r.closed => ~q.closed
<1>1. ThreadOK(q)
  <2>1. Fields(q)
    BY DEF Similar, ThreadOK, Fields
  <2>2. r.pc = "refreshed" => q.order \in Seq(Topics)
    BY DEF Similar, ThreadOK, Fields
  <2> QED
    BY <2>1, <2>2 DEF Similar, ThreadOK
<1>2. \A t \in Topics : Reads(r, t) => Reads(q, t)
  <2>1. IsStream(r) => DOMAIN r = StreamFields
    BY DEF ThreadOK, Fields, IsStream, PcsAlone, PcsOfTopic, PcsOfStream,
           PcsOfDrawing, StreamFields
  <2> QED
    BY <2>1 DEF Similar, Reads, IsStream, StreamFields
<1>3. \A t \in Topics : WillDraw(r, t) => WillDraw(q, t)
  <2>1. r.pc \in {"loaded", "show", "draw"} => "topic" \in DOMAIN r
    BY DEF ThreadOK, Fields, PcsOfDrawing, StreamFields
  <2> QED
    BY <2>1 DEF Similar, WillDraw
<1>4. r.pc \in {"mark", "register"} /\ ~r.closed => ~q.closed
  BY DEF Similar, ThreadOK, Fields, PcsOfStream, StreamFields
<1> QED
  BY <1>1, <1>2, <1>3, <1>4

LEMMA PublishedIsSimilar ==
  ASSUME NEW threads, NEW t, NEW e
  PROVE  /\ DOMAIN Published(threads, t, e) = Threads
         /\ \A h \in Threads : Similar(threads[h], Published(threads, t, e)[h])
<1>1. ASSUME NEW h \in Threads
      PROVE  Similar(threads[h], Published(threads, t, e)[h])
  <2>1. PICK r : r = threads[h]
    OBVIOUS
  <2>2. PICK q : q = [r EXCEPT !.pending = Append(@, e)]
    OBVIOUS
  <2>3. Published(threads, t, e)[h] \in {r, q}
    BY <2>1, <2>2 DEF Published
  <2>4. Similar(r, q)
    BY <2>2 DEF Similar
  <2>5. Similar(r, r)
    BY DEF Similar
  <2> QED
    BY <2>1, <2>3, <2>4, <2>5
<1>2. DOMAIN Published(threads, t, e) = Threads
  BY DEF Published
<1> QED
  BY <1>1, <1>2

(* Everybody but one goroutine, who asks for something and draws nothing,  *)
(* stays as he was, but for what his stream brings.                        *)
LEMMA PublishedKeeps ==
  ASSUME IInv, DOMAIN thread' = Threads, NEW hs \in SUBSET Threads,
         \A k \in Threads \ hs : Similar(thread[k], thread'[k]),
         \A h \in hs : /\ thread[h].pc = "write"
                       /\ thread'[h].pc = "written"
                       /\ ThreadOK(thread'[h]),
         UNCHANGED <<exists, topicOrder, topics, list, listDrawings, ui>>,
         UNCHANGED <<currentTopicId, view, outdated, streamsChans,
                     messageCache>>
  PROVE  IInv'
<1>1. ASSUME NEW k \in Threads \ hs
      PROVE  /\ ThreadOK(thread'[k])
             /\ \A t \in Topics : Reads(thread[k], t) => Reads(thread'[k], t)
             /\ WillDraw(thread[k], currentTopicId) =>
                  WillDraw(thread'[k], currentTopicId)
             /\ thread'[k].pc = thread[k].pc
             /\ thread[k].pc \in {"mark", "register"} => ~thread'[k].closed
  <2>1. PICK r : r = thread[k]
    OBVIOUS
  <2>2. PICK q : q = thread'[k]
    OBVIOUS
  <2>3. /\ Similar(r, q) /\ ThreadOK(r) /\ currentTopicId \in Topics
        /\ r.pc \in {"mark", "register"} => ~r.closed
    BY <2>1, <2>2 DEF IInv, ShapeInv, ChannelsInv
  <2>4. r.pc = q.pc
    BY <2>3 DEF Similar
  <2> QED
    BY <2>1, <2>2, <2>3, <2>4, SimilarShape
<1>2. ShapeInv'
  BY <1>1 DEF IInv, ShapeInv
<1>3. ListInv'
  BY ListKept DEF IInv
<1>4. ChannelsInv'
  <2>1. ASSUME NEW t \in Topics, streamsChans'[t] \in Threads
        PROVE  Reads(thread'[streamsChans'[t]], t)
    <3>1. PICK k : k = streamsChans[t]
      OBVIOUS
    <3>2. k \in Threads /\ Reads(thread[k], t)
      BY <2>1, <3>1 DEF IInv, ChannelsInv
    <3>3. k \notin hs
      BY <3>2 DEF Reads
    <3> QED
      BY <1>1, <3>1, <3>2, <3>3
  <2>2. ASSUME NEW k \in Threads, thread'[k].pc \in {"mark", "register"}
        PROVE  ~thread'[k].closed
    <3>1. k \notin hs
      BY <2>2
    <3> QED
      BY <1>1, <2>2, <3>1
  <2> QED
    BY <2>1, <2>2 DEF ChannelsInv
<1>5. ViewInv'
  <2>1. Rows(Entry(currentTopicId))' = Rows(Entry(currentTopicId))
    BY DEF Entry
  <2>2. ASSUME NEW k \in Threads, WillDraw(thread[k], currentTopicId)
        PROVE  ViewInv'
    <3>1. k \notin hs
      BY <2>2 DEF WillDraw
    <3>2. WillDraw(thread'[k], currentTopicId')
      BY <1>1, <2>2, <3>1
    <3> QED
      BY <3>2, ViewToCome
  <2> QED
    BY <2>1, <2>2 DEF IInv, ViewInv
<1> QED
  BY <1>2, <1>3, <1>4, <1>5 DEF IInv

LEMMA OthersKeep ==
  ASSUME IInv, Others
  PROVE  IInv'
<1>1. PICK t, e : thread' = Published(thread, t, e)
  BY DEF Others
<1>2. /\ DOMAIN thread' = Threads
      /\ \A k \in Threads : Similar(thread[k], thread'[k])
  BY <1>1, PublishedIsSimilar
<1>3. UNCHANGED exists
  BY DEF Others, Happens
<1>4. /\ UNCHANGED <<exists, topicOrder, topics, list, listDrawings, ui>>
      /\ UNCHANGED <<currentTopicId, view, outdated, streamsChans,
                     messageCache>>
  BY <1>3 DEF Others, topicVars, displayVars, viewVars, streamVars, cacheVars
<1>5. {} \in SUBSET Threads
  OBVIOUS
<1> QED
  BY <1>2, <1>4, <1>5, PublishedKeeps

LEMMA WriteAsksKeeps ==
  ASSUME IInv, NEW h \in Threads, WriteAsks(h)
  PROVE  IInv'
<1>1. PICK t, e, w : /\ w = [pc |-> "written", topic |-> t, event |-> e]
                     /\ t \in {thread[h].topic, currentTopicId}
                     /\ t = thread[h].topic => t # None
                     /\ thread' = Published([thread EXCEPT ![h] = w], t, e)
  <2>1. PICK t : t = IF thread[h].topic = None THEN currentTopicId
                     ELSE thread[h].topic
    OBVIOUS
  <2>2. PICK op, id : thread' = Published([thread EXCEPT ![h] =
                        [pc |-> "written", topic |-> t,
                         event |-> EventOf(t, op, id)]],
                      t, EventOf(t, op, id))
    BY <2>1 DEF WriteAsks
  <2>3. currentTopicId # None
    BY DEF IInv, ShapeInv
  <2> QED
    BY <2>1, <2>2, <2>3
<1>2. /\ thread[h].pc = "write" /\ "topic" \in DOMAIN thread[h]
  BY DEF WriteAsks, At, IInv, ShapeInv, ThreadOK, Fields
<1>3. t \in Topics
  BY <1>1, <1>2 DEF IInv, ShapeInv, ThreadOK
<1>4. ThreadOK(w) /\ w.pc = "written"
  BY <1>1, <1>3 DEF ThreadOK, Fields, PcsAlone, PcsOfTopic, PcsOfStream,
                    PcsOfDrawing
<1>5. PICK threads : threads = [thread EXCEPT ![h] = w]
  OBVIOUS
<1>6. /\ DOMAIN thread' = Threads
      /\ \A k \in Threads : Similar(threads[k], thread'[k])
  BY <1>1, <1>5, PublishedIsSimilar
<1>7. /\ threads[h] = w
      /\ \A k \in Threads \ {h} : threads[k] = thread[k]
  BY <1>5 DEF IInv, ShapeInv
<1>8. /\ ThreadOK(thread'[h]) /\ thread'[h].pc = "written"
  <2>1. PICK q : q = thread'[h]
    OBVIOUS
  <2>2. Similar(w, q)
    BY <1>6, <1>7, <2>1
  <2>3. ThreadOK(q)
    BY <1>4, <2>2, SimilarShape
  <2> QED
    BY <1>4, <2>1, <2>2, <2>3 DEF Similar
<1>9. \A k \in Threads \ {h} : Similar(thread[k], thread'[k])
  BY <1>6, <1>7
<1>10. UNCHANGED exists
  BY DEF WriteAsks, Happens
<1>11. /\ UNCHANGED <<exists, topicOrder, topics, list, listDrawings, ui>>
       /\ UNCHANGED <<currentTopicId, view, outdated, streamsChans,
                      messageCache>>
  BY <1>10 DEF WriteAsks, topicVars, displayVars, viewVars, streamVars,
               cacheVars
<1>12. {h} \in SUBSET Threads
  OBVIOUS
<1> QED
  BY <1>2, <1>6, <1>8, <1>9, <1>11, <1>12, PublishedKeeps

LEMMA RefreshAsksKeeps ==
  ASSUME IInv, NEW h \in Threads, RefreshAsks(h)
  PROVE  IInv'
<1>1. PICK r : r = [pc |-> "refreshed", order |-> exists] /\ Become(h, r)
  BY DEF RefreshAsks
<1>2. /\ UNCHANGED <<exists, topicOrder, topics, list, listDrawings, ui>>
      /\ UNCHANGED <<currentTopicId, view, outdated, streamsChans,
                     messageCache>>
      /\ thread[h].pc = "refresh"
  BY DEF RefreshAsks, At, boardVars, topicVars, displayVars, viewVars,
         streamVars, cacheVars
<1>3. ThreadOK(r) /\ r.pc = "refreshed"
  BY <1>1 DEF ThreadOK, Fields, PcsAlone, PcsOfTopic, PcsOfStream,
              PcsOfDrawing, IInv, ListInv
<1>4. /\ \A t \in Topics : ~Reads(thread[h], t)
      /\ ~WillDraw(thread[h], currentTopicId)
  BY <1>2 DEF Reads, WillDraw
<1> QED
  BY <1>1, <1>2, <1>3, <1>4, MoveKeeps

(* A goroutine ends that has changed no more than the list of topics.      *)
LEMMA EndKeeps ==
  ASSUME IInv, NEW h \in Threads, NEW r, Become(h, r), ThreadOK(r), ListInv',
         thread[h].pc \in {"refreshed", "create", "created"},
         r.pc \in {"idle", "created"},
         UNCHANGED <<currentTopicId, view, outdated, streamsChans,
                     messageCache>>
  PROVE  IInv'
<1>1. ShapeInv'
  BY ShapeKept DEF IInv, ShapeInv
<1>2. ChannelsInv'
  BY ChannelsUntouched DEF IInv
<1>3. ~WillDraw(thread[h], currentTopicId)
  BY DEF WillDraw
<1>4. ViewInv'
  BY <1>3, ViewKept DEF IInv
<1> QED
  BY <1>1, <1>2, <1>4 DEF IInv

LEMMA RefreshStoresKeeps ==
  ASSUME IInv, NEW h \in Threads, RefreshStores(h)
  PROVE  IInv'
<1>1. /\ thread[h].pc = "refreshed" /\ Become(h, Idle)
      /\ topics' = ToSet(thread[h].order) /\ topicOrder' = thread[h].order
      /\ UNCHANGED <<exists, list, listDrawings, ui>>
      /\ UNCHANGED <<currentTopicId, view, outdated, streamsChans,
                     messageCache>>
  BY DEF RefreshStores, At, boardVars, viewVars, streamVars, cacheVars
<1>2. thread[h].order \in Seq(Topics)
  BY <1>1 DEF IInv, ShapeInv, ThreadOK
<1>3. ToSet(topicOrder') \subseteq topics'
  BY <1>1
<1>4. ListInv'
  BY <1>1, <1>2, <1>3 DEF IInv, ListInv
<1> QED
  BY <1>1, <1>4, IdleShape, EndKeeps

LEMMA CreateAsksKeeps ==
  ASSUME IInv, NEW h \in Threads, CreateAsks(h)
  PROVE  IInv'
<1>1. PICK t \in Topics : /\ exists' = <<t>> \o exists
                          /\ Become(h, [pc |-> "created", topic |-> t])
  BY DEF CreateAsks
<1>2. PICK r : r = [pc |-> "created", topic |-> t]
  OBVIOUS
<1>3. /\ UNCHANGED <<topicOrder, topics, list, listDrawings, ui>>
      /\ UNCHANGED <<currentTopicId, view, outdated, streamsChans,
                     messageCache>>
      /\ thread[h].pc = "create"
  BY DEF CreateAsks, At, topicVars, displayVars, viewVars, streamVars,
         cacheVars
<1>4. ThreadOK(r) /\ r.pc = "created"
  BY <1>2 DEF ThreadOK, Fields, PcsAlone, PcsOfTopic, PcsOfStream,
              PcsOfDrawing
<1>5. exists' \in Seq(Topics)
  BY <1>1 DEF IInv, ListInv
<1>6. ListInv'
  BY <1>3, <1>5 DEF IInv, ListInv
<1> QED
  BY <1>1, <1>2, <1>3, <1>4, <1>6, EndKeeps

LEMMA CreateStoresKeeps ==
  ASSUME IInv, NEW h \in Threads, CreateStores(h)
  PROVE  IInv'
<1>1. PICK t : t = thread[h].topic
  OBVIOUS
<1>2. /\ thread[h].pc = "created" /\ Become(h, Idle)
      /\ topics' = topics \cup {t} /\ topicOrder' = <<t>> \o topicOrder
      /\ UNCHANGED <<exists, list, listDrawings, ui>>
      /\ UNCHANGED <<currentTopicId, view, outdated, streamsChans,
                     messageCache>>
  BY <1>1 DEF CreateStores, AddTopic, At, boardVars, viewVars, streamVars,
              cacheVars
<1>3. t \in Topics
  BY <1>1, <1>2 DEF IInv, ShapeInv, ThreadOK, Fields, PcsOfTopic
<1>4. topicOrder \in Seq(Topics) /\ ToSet(topicOrder) \subseteq topics
  BY DEF IInv, ListInv
<1>5. topicOrder' \in Seq(Topics)
  BY <1>2, <1>3, <1>4
<1>6. ToSet(topicOrder') \subseteq topics'
  <2>1. ASSUME NEW i \in DOMAIN topicOrder'
        PROVE  topicOrder'[i] \in topics'
    <3>1. CASE i = 1
      BY <1>2, <1>4, <3>1
    <3>2. CASE i # 1
      <4>1. /\ i - 1 \in DOMAIN topicOrder
            /\ topicOrder'[i] = topicOrder[i - 1]
        BY <1>2, <1>3, <1>4, <2>1, <3>2
      <4> QED
        BY <1>2, <1>4, <4>1 DEF ToSet
    <3> QED
      BY <3>1, <3>2
  <2> QED
    BY <2>1 DEF ToSet
<1>7. ListInv'
  BY <1>2, <1>5, <1>6 DEF IInv, ListInv
<1> QED
  BY <1>2, <1>7, IdleShape, EndKeeps

LEMMA SubscribeChecksKeeps ==
  ASSUME IInv, NEW h \in Threads, SubscribeChecks(h)
  PROVE  IInv'
<1>1. PICK q : q = thread[h]
  OBVIOUS
<1>2. PICK r : /\ r \in {Idle, [q EXCEPT !.pc = "ask"]}
               /\ Become(h, r)
  BY <1>1 DEF SubscribeChecks
<1>3. ThreadOK(q) /\ q.pc = "subscribe"
  BY <1>1 DEF SubscribeChecks, At, IInv, ShapeInv
<1>4. DOMAIN q = {"pc", "topic"} /\ q.topic \in Topics
  BY <1>3 DEF ThreadOK, Fields, PcsOfTopic
<1>5. ThreadOK(r) /\ r.pc \in {"idle", "ask"}
  <2>1. CASE r = Idle
    BY <2>1, IdleShape
  <2>2. CASE r = [q EXCEPT !.pc = "ask"]
    <3>1. DOMAIN r = {"pc", "topic"} /\ r.pc = "ask" /\ r.topic = q.topic
      BY <1>4, <2>2
    <3> QED
      BY <1>4, <3>1 DEF ThreadOK, Fields, PcsAlone, PcsOfTopic, PcsOfStream,
                        PcsOfDrawing
  <2> QED
    BY <1>2, <2>1, <2>2
<1>6. /\ UNCHANGED <<exists, topicOrder, topics, list, listDrawings, ui>>
      /\ UNCHANGED <<currentTopicId, view, outdated, streamsChans,
                     messageCache>>
  BY DEF SubscribeChecks, boardVars, topicVars, displayVars, viewVars,
         streamVars, cacheVars
<1>7. /\ \A t \in Topics : ~Reads(thread[h], t)
      /\ ~WillDraw(thread[h], currentTopicId)
  BY <1>1, <1>3 DEF Reads, WillDraw
<1> QED
  BY <1>2, <1>5, <1>6, <1>7, MoveKeeps

LEMMA SubscribeAsksKeeps ==
  ASSUME IInv, NEW h \in Threads, SubscribeAsks(h)
  PROVE  IInv'
<1>1. PICK t : t = thread[h].topic
  OBVIOUS
<1>2. PICK from : from = FirstMissing(t)
  OBVIOUS
<1>3. PICK r : r = [pc |-> "mark", topic |-> t, from |-> from,
                    open |-> FALSE, pending |-> <<>>, closed |-> FALSE,
                    rows |-> <<>>]
  OBVIOUS
<1>4. Become(h, r) /\ thread[h].pc = "ask"
  BY <1>1, <1>2, <1>3 DEF SubscribeAsks, At
<1>5. t \in Topics
  BY <1>1, <1>4 DEF IInv, ShapeInv, ThreadOK, Fields, PcsOfTopic
<1>6. DOMAIN r = StreamFields /\ r.pc = "mark" /\ r.topic = t /\ ~r.closed
  BY <1>3 DEF StreamFields
<1>7. ThreadOK(r)
  BY <1>5, <1>6 DEF ThreadOK, Fields, PcsAlone, PcsOfTopic, PcsOfStream,
                    PcsOfDrawing
<1>8. /\ UNCHANGED <<exists, topicOrder, topics, list, listDrawings, ui>>
      /\ UNCHANGED <<currentTopicId, view, outdated, streamsChans,
                     messageCache>>
  BY DEF SubscribeAsks, boardVars, topicVars, displayVars, viewVars,
         streamVars, cacheVars
<1>9. /\ \A u \in Topics : ~Reads(thread[h], u)
      /\ ~WillDraw(thread[h], currentTopicId)
  BY <1>4 DEF Reads, WillDraw
<1> QED
  BY <1>4, <1>6, <1>7, <1>8, <1>9, MoveKeeps

LEMMA StreamOpensKeeps ==
  ASSUME IInv, NEW h \in Threads, StreamOpens(h)
  PROVE  IInv'
<1>1. PICK q : q = thread[h]
  OBVIOUS
<1>2. PICK past : past = PastMessages(q.topic, q.from)
  OBVIOUS
<1>3. PICK r : r = [q EXCEPT !.open = TRUE, !.pending = past]
  OBVIOUS
<1>4. Become(h, r)
  BY <1>1, <1>2, <1>3 DEF StreamOpens
<1>5. Similar(q, r)
  BY <1>3 DEF Similar
<1>6. /\ ThreadOK(q) /\ currentTopicId \in Topics
      /\ q.pc \in {"mark", "register"} => ~q.closed
  BY <1>1 DEF IInv, ShapeInv, ChannelsInv
<1>7. /\ ThreadOK(r) /\ r.pc = q.pc
      /\ \A t \in Topics : Reads(q, t) => Reads(r, t)
      /\ WillDraw(q, currentTopicId) => WillDraw(r, currentTopicId)
      /\ q.pc \in {"mark", "register"} => ~r.closed
  <2>1. r.pc = q.pc
    BY <1>5 DEF Similar
  <2> QED
    BY <1>5, <1>6, <2>1, SimilarShape
<1>8. /\ UNCHANGED <<exists, topicOrder, topics, list, listDrawings, ui>>
      /\ UNCHANGED <<currentTopicId, view, outdated, streamsChans,
                     messageCache>>
  BY DEF StreamOpens, boardVars, topicVars, displayVars, viewVars,
         streamVars, cacheVars
<1> QED
  BY <1>1, <1>4, <1>7, <1>8, MoveKeeps

LEMMA MarkSubscribedKeeps ==
  ASSUME IInv, NEW h \in Threads, MarkSubscribed(h)
  PROVE  IInv'
<1>1. PICK q : q = thread[h]
  OBVIOUS
<1>2. PICK r : r = [q EXCEPT !.pc = "register"]
  OBVIOUS
<1>3. Become(h, r)
  BY <1>1, <1>2 DEF MarkSubscribed
<1>4. ThreadOK(q) /\ q.pc = "mark" /\ ~q.closed
  BY <1>1 DEF MarkSubscribed, At, IInv, ShapeInv, ChannelsInv
<1>5. DOMAIN q = StreamFields /\ q.topic \in Topics
  BY <1>4 DEF ThreadOK, Fields, PcsOfStream, StreamFields
<1>6. /\ DOMAIN r = StreamFields /\ r.pc = "register"
      /\ r.topic = q.topic /\ r.closed = q.closed
  BY <1>2, <1>5 DEF StreamFields
<1>7. ThreadOK(r)
  BY <1>5, <1>6 DEF ThreadOK, Fields, PcsAlone, PcsOfTopic, PcsOfStream,
                    PcsOfDrawing
<1>8. /\ UNCHANGED <<exists, topicOrder, topics, list, listDrawings, ui>>
      /\ UNCHANGED <<currentTopicId, view, outdated, streamsChans,
                     messageCache>>
  BY DEF MarkSubscribed, boardVars, viewVars, cacheVars
<1>9. /\ \A t \in Topics : ~Reads(thread[h], t)
      /\ ~WillDraw(thread[h], currentTopicId)
  BY <1>1, <1>4 DEF Reads, WillDraw
<1> QED
  BY <1>3, <1>4, <1>6, <1>7, <1>8, <1>9, MoveKeeps

(* The channel is put into the map; nobody reads it before.                *)
LEMMA RegisterChannelKeeps ==
  ASSUME IInv, NEW h \in Threads, RegisterChannel(h)
  PROVE  IInv'
<1>1. PICK q : q = thread[h]
  OBVIOUS
<1>2. PICK r : r = [q EXCEPT !.pc = "recv"]
  OBVIOUS
<1>3. /\ Become(h, r)
      /\ streamsChans' = [streamsChans EXCEPT ![q.topic] = h]
  BY <1>1, <1>2 DEF RegisterChannel
<1>4. ThreadOK(q) /\ q.pc = "register" /\ ~q.closed
  BY <1>1 DEF RegisterChannel, At, IInv, ShapeInv, ChannelsInv
<1>5. DOMAIN q = StreamFields /\ q.topic \in Topics
  BY <1>4 DEF ThreadOK, Fields, PcsOfStream, StreamFields
<1>6. /\ DOMAIN r = StreamFields /\ r.pc = "recv"
      /\ r.topic = q.topic /\ ~r.closed
  BY <1>2, <1>4, <1>5 DEF StreamFields
<1>7. ThreadOK(r) /\ Reads(r, q.topic)
  BY <1>5, <1>6 DEF ThreadOK, Fields, PcsAlone, PcsOfTopic, PcsOfStream,
                    PcsOfDrawing, Reads, IsStream, StreamFields
<1>8. /\ UNCHANGED <<exists, topicOrder, topics, list, listDrawings, ui>>
      /\ UNCHANGED <<currentTopicId, view, outdated, messageCache>>
  BY DEF RegisterChannel, boardVars, topicVars, displayVars, viewVars,
         cacheVars
<1>9. /\ DOMAIN thread' = Threads /\ thread'[h] = r
      /\ \A k \in Threads \ {h} : thread'[k] = thread[k]
  BY <1>3, OthersStay DEF IInv
<1>10. ShapeInv'
  BY <1>3, <1>7, <1>8, ShapeKept DEF IInv, ShapeInv
<1>11. ListInv'
  BY <1>8, ListKept DEF IInv
<1>12. ChannelsInv'
  <2>1. ASSUME NEW t \in Topics, streamsChans'[t] \in Threads
        PROVE  Reads(thread'[streamsChans'[t]], t)
    <3>1. CASE t = q.topic
      <4>1. streamsChans'[t] = h
        BY <1>3, <3>1 DEF IInv, ShapeInv
      <4> QED
        BY <1>7, <1>9, <3>1, <4>1
    <3>2. CASE t # q.topic
      <4>1. PICK k : k = streamsChans[t]
        OBVIOUS
      <4>2. streamsChans'[t] = k
        BY <1>3, <3>2, <4>1 DEF IInv, ShapeInv
      <4>3. k \in Threads /\ Reads(thread[k], t)
        BY <2>1, <4>1, <4>2 DEF IInv, ChannelsInv
      <4>4. k # h
        BY <1>1, <1>4, <4>3 DEF Reads
      <4> QED
        BY <1>9, <4>2, <4>3, <4>4
    <3> QED
      BY <3>1, <3>2
  <2>2. ASSUME NEW k \in Threads, thread'[k].pc \in {"mark", "register"}
        PROVE  ~thread'[k].closed
    <3>1. k # h
      BY <1>6, <1>9, <2>2
    <3> QED
      BY <1>9, <2>2, <3>1 DEF IInv, ChannelsInv
  <2> QED
    BY <2>1, <2>2 DEF ChannelsInv
<1>13. ViewInv'
  <2>1. ~WillDraw(thread[h], currentTopicId)
    BY <1>1, <1>4 DEF WillDraw
  <2> QED
    BY <1>3, <1>8, <2>1, ViewKept DEF IInv
<1> QED
  BY <1>10, <1>11, <1>12, <1>13 DEF IInv

LEMMA ReceiveKeeps ==
  ASSUME IInv, NEW h \in Threads, Receive(h)
  PROVE  IInv'
<1>1. PICK q : q = thread[h]
  OBVIOUS
<1>2. PICK p : p = [q EXCEPT !.pending = Tail(@)]
  OBVIOUS
<1>3. PICK r : r = [p EXCEPT !.pc = "show"]
  OBVIOUS
<1>4. Become(h, r)
  BY <1>1, <1>2, <1>3 DEF Receive
<1>5. ThreadOK(q) /\ q.pc = "recv"
  BY <1>1 DEF Receive, At, IInv, ShapeInv
<1>6. DOMAIN q = StreamFields /\ q.topic \in Topics
  BY <1>5 DEF ThreadOK, Fields, PcsOfStream, StreamFields
<1>7. /\ DOMAIN p = StreamFields
      /\ p.topic = q.topic /\ p.closed = q.closed
  BY <1>2, <1>6 DEF StreamFields
<1>8. /\ DOMAIN r = StreamFields /\ r.pc = "show"
      /\ r.topic = q.topic /\ r.closed = q.closed
  BY <1>3, <1>7 DEF StreamFields
<1>9. /\ ThreadOK(r)
      /\ \A t \in Topics : Reads(q, t) => Reads(r, t)
  BY <1>6, <1>8 DEF ThreadOK, Fields, PcsAlone, PcsOfTopic, PcsOfStream,
                    PcsOfDrawing, Reads, IsStream, StreamFields
<1>10. /\ UNCHANGED <<exists, topicOrder, topics, list, listDrawings, ui>>
       /\ UNCHANGED <<currentTopicId, view, outdated, streamsChans>>
  BY DEF Receive, boardVars, topicVars, displayVars, viewVars, streamVars
<1>11. PICK c : messageCache' = [messageCache EXCEPT ![p.topic] = c]
  BY <1>1, <1>2 DEF Receive
<1>12. /\ DOMAIN messageCache' = Topics
       /\ \A t \in Topics \ {r.topic} : messageCache'[t] = messageCache[t]
  BY <1>7, <1>8, <1>11 DEF IInv, ShapeInv
<1>13. ~WillDraw(q, currentTopicId)
  BY <1>5 DEF WillDraw
<1> QED
  BY <1>1, <1>4, <1>8, <1>9, <1>10, <1>12, <1>13, StoreKeeps

(* The goroutine's channel stays in the map, as nobody's.                  *)
LEMMA StreamBreaksKeeps ==
  ASSUME IInv, NEW h \in Threads, StreamBreaks(h)
  PROVE  IInv'
<1>1. /\ thread[h].pc = "recv" /\ Become(h, Idle)
      /\ streamsChans' = [t \in Topics |-> IF streamsChans[t] = h THEN Orphan
                                           ELSE streamsChans[t]]
      /\ UNCHANGED <<exists, topicOrder, topics, list, listDrawings, ui>>
      /\ UNCHANGED <<currentTopicId, view, outdated, messageCache>>
  BY DEF StreamBreaks, At, boardVars, viewVars, cacheVars
<1>2. /\ DOMAIN thread' = Threads /\ thread'[h] = Idle
      /\ \A k \in Threads \ {h} : thread'[k] = thread[k]
  BY <1>1, OthersStay DEF IInv
<1>3. ShapeInv'
  BY <1>1, IdleShape, ShapeKept DEF IInv, ShapeInv
<1>4. ListInv'
  BY <1>1, ListKept DEF IInv
<1>5. ChannelsInv'
  <2>1. ASSUME NEW t \in Topics, streamsChans'[t] \in Threads
        PROVE  Reads(thread'[streamsChans'[t]], t)
    <3>1. streamsChans[t] # h /\ streamsChans'[t] = streamsChans[t]
      BY <1>1, <2>1
    <3> QED
      BY <1>2, <2>1, <3>1 DEF IInv, ChannelsInv
  <2>2. ASSUME NEW k \in Threads, thread'[k].pc \in {"mark", "register"}
        PROVE  ~thread'[k].closed
    <3>1. k # h
      BY <1>2, <2>2, IdleShape
    <3> QED
      BY <1>2, <2>2, <3>1 DEF IInv, ChannelsInv
  <2> QED
    BY <2>1, <2>2 DEF ChannelsInv
<1>6. ViewInv'
  <2>1. ~WillDraw(thread[h], currentTopicId)
    BY <1>1 DEF WillDraw
  <2> QED
    BY <1>1, <2>1, ViewKept DEF IInv
<1> QED
  BY <1>3, <1>4, <1>5, <1>6 DEF IInv

(* Every channel is closed and forgotten.  Those who are about to put one  *)
(* into the map have not been told to end.                                 *)
LEMMA SignUpKeeps ==
  ASSUME IInv, NEW h \in Threads, SignUp(h)
  PROVE  IInv'
<1>1. PICK streams : thread' = [k \in Threads |->
           IF k = h THEN [pc |-> "refresh"]
           ELSE IF k \in streams THEN [thread[k] EXCEPT !.closed = TRUE]
           ELSE thread[k]]
         /\ streams \subseteq {streamsChans[t] : t \in Topics} \cap Threads
  BY DEF SignUp
<1>2. /\ thread[h].pc = "signup"
      /\ streamsChans' = [t \in Topics |-> None]
      /\ UNCHANGED <<exists, topicOrder, topics, list, listDrawings, ui>>
      /\ UNCHANGED <<currentTopicId, view, outdated, messageCache>>
  BY DEF SignUp, At, CloseSubscriptions, boardVars, topicVars, displayVars,
         viewVars, cacheVars
<1>3. ASSUME NEW k \in Threads \ {h}
      PROVE  /\ ThreadOK(thread'[k])
             /\ WillDraw(thread[k], currentTopicId) =>
                  WillDraw(thread'[k], currentTopicId)
             /\ thread'[k].pc \in {"mark", "register"} => ~thread'[k].closed
  <2>1. PICK q : q = thread[k]
    OBVIOUS
  <2>2. /\ ThreadOK(q)
        /\ q.pc \in {"mark", "register"} => ~q.closed
    BY <2>1 DEF IInv, ShapeInv, ChannelsInv
  <2>3. CASE k \notin streams
    BY <1>1, <2>1, <2>2, <2>3
  <2>4. CASE k \in streams
    <3>1. PICK r : r = [q EXCEPT !.closed = TRUE]
      OBVIOUS
    <3>2. thread'[k] = r
      BY <1>1, <2>1, <2>4, <3>1
    <3>3. PICK t \in Topics : streamsChans[t] = k
      BY <1>1, <2>4
    <3>4. Reads(q, t)
      BY <2>1, <3>3 DEF IInv, ChannelsInv
    <3>5. DOMAIN q = StreamFields /\ q.topic \in Topics
      BY <2>2, <3>4 DEF ThreadOK, Fields, Reads, IsStream, PcsOfStream,
                        PcsOfDrawing, StreamFields
    <3>6. DOMAIN r = StreamFields /\ r.pc = q.pc /\ r.topic = q.topic
      BY <3>1, <3>5 DEF StreamFields
    <3>7. r.pc \in {"recv", "show", "draw"}
      BY <3>4, <3>6 DEF Reads
    <3>8. ThreadOK(r)
      BY <3>5, <3>6, <3>7 DEF ThreadOK, Fields, PcsAlone, PcsOfTopic,
                              PcsOfStream, PcsOfDrawing
    <3>9. WillDraw(q, currentTopicId) => WillDraw(r, currentTopicId)
      BY <3>6 DEF WillDraw
    <3> QED
      BY <2>1, <3>2, <3>7, <3>8, <3>9
  <2> QED
    BY <2>3, <2>4
<1>4. thread'[h] = [pc |-> "refresh"] /\ DOMAIN thread' = Threads
  BY <1>1
<1>5. ThreadOK([pc |-> "refresh"])
  BY DEF ThreadOK, Fields, PcsAlone, PcsOfTopic, PcsOfStream, PcsOfDrawing
<1>6. ShapeInv'
  <2>1. \A k \in Threads : ThreadOK(thread'[k])
    BY <1>3, <1>4, <1>5
  <2> QED
    BY <1>2, <1>4, <2>1 DEF IInv, ShapeInv
<1>7. ListInv'
  BY <1>2, ListKept DEF IInv
<1>8. ChannelsInv'
  <2>1. \A t \in Topics : streamsChans'[t] \notin Threads
    BY <1>2
  <2>2. \A k \in Threads :
          thread'[k].pc \in {"mark", "register"} => ~thread'[k].closed
    BY <1>3, <1>4
  <2> QED
    BY <2>1, <2>2 DEF ChannelsInv
<1>9. ViewInv'
  <2>1. Rows(Entry(currentTopicId))' = Rows(Entry(currentTopicId))
    BY <1>2 DEF Entry
  <2>2. ASSUME NEW k \in Threads, WillDraw(thread[k], currentTopicId)
        PROVE  ViewInv'
    <3>1. k # h
      BY <1>2, <2>2 DEF WillDraw
    <3>2. WillDraw(thread'[k], currentTopicId')
      BY <1>2, <1>3, <2>2, <3>1
    <3> QED
      BY <3>2, ViewToCome
  <2> QED
    BY <1>2, <2>1, <2>2 DEF IInv, ViewInv
<1> QED
  BY <1>6, <1>7, <1>8, <1>9 DEF IInv

LEMMA FailsKeeps ==
  ASSUME IInv, NEW h \in Threads, Fails(h)
  PROVE  IInv'
<1>1. /\ UNCHANGED <<exists, topicOrder, topics, list, listDrawings, ui>>
      /\ UNCHANGED <<currentTopicId, view, streamsChans, messageCache>>
      /\ outdated' = (outdated \/ thread[h].pc = "load")
      /\ thread[h].pc \in {"load", "write", "written", "refresh", "create",
                           "created", "ask", "signup"}
      /\ Become(h, Idle)
  BY DEF Fails, boardVars, topicVars, displayVars, streamVars, cacheVars
<1>2. \A t \in Topics : ~Reads(thread[h], t)
  BY <1>1 DEF Reads
<1>3. WillDraw(thread[h], currentTopicId) => outdated'
  BY <1>1 DEF WillDraw
<1> QED
  BY <1>1, <1>2, <1>3, IdleShape, MoveKeeps

-----------------------------------------------------------------------------
(* The invariant of the specification. *)

LEMMA InitEstablishes == Init => IInv
<1> SUFFICES ASSUME Init PROVE IInv
  OBVIOUS
<1>1. Existing \in Seq(Topics) /\ Len(Existing) > 0
  BY GuiClientAssumption
<1>2. Head(Existing) \in Topics
  BY <1>1
<1>3. ShapeInv
  BY <1>2, IdleShape DEF Init, ShapeInv
<1>4. ListInv
  BY <1>1 DEF Init, ListInv
<1>5. ChannelsInv
  BY IdleShape DEF Init, ChannelsInv
<1>6. ViewInv
  BY DEF Init, ViewInv
<1> QED
  BY <1>3, <1>4, <1>5, <1>6 DEF IInv

LEMMA NextKeeps == IInv /\ [Next]_vars => IInv'
<1> SUFFICES ASSUME IInv, [Next]_vars PROVE IInv'
  OBVIOUS
<1>1. CASE MainLoop
  BY <1>1, PressesKeep, PressWriteKeeps, PressTopicKeeps, IndexPanicsKeeps,
     SelectTopicKeeps, ChooseSubscriptionKeeps DEF MainLoop
<1>2. CASE Others
  BY <1>2, OthersKeep
<1>3. CASE CopyTopics \/ \E d \in listDrawings : DrawTopics(d)
  BY <1>3, TopicsDrawingKeeps
<1>4. ASSUME NEW h \in Threads, Step(h)
      PROVE  IInv'
  <2>1. CASE LoadAsks(h) \/ LoadStores(h) \/ WriteAsks(h) \/ WriteStores(h)
    BY <2>1, LoadAsksKeeps, LoadStoresKeeps, WriteAsksKeeps,
       WriteStoresKeeps
  <2>2. CASE UpdateMessageView(h) \/ Draw(h)
    BY <2>2, UpdateMessageViewKeeps, DrawKeeps
  <2>3. CASE \/ RefreshAsks(h) \/ RefreshStores(h)
             \/ CreateAsks(h) \/ CreateStores(h)
    BY <2>3, RefreshAsksKeeps, RefreshStoresKeeps, CreateAsksKeeps,
       CreateStoresKeeps
  <2>4. CASE SubscribeChecks(h) \/ SubscribeAsks(h) \/ StreamOpens(h)
    BY <2>4, SubscribeChecksKeeps, SubscribeAsksKeeps, StreamOpensKeeps
  <2>5. CASE MarkSubscribed(h) \/ RegisterChannel(h) \/ Receive(h)
    BY <2>5, MarkSubscribedKeeps, RegisterChannelKeeps, ReceiveKeeps
  <2>6. CASE StreamBreaks(h) \/ SignUp(h) \/ Fails(h)
    BY <2>6, StreamBreaksKeeps, SignUpKeeps, FailsKeeps
  <2> QED
    BY <1>4, <2>1, <2>2, <2>3, <2>4, <2>5, <2>6 DEF Step
<1>5. CASE UNCHANGED vars
  <2>1. UNCHANGED <<exists, topicOrder, topics, list, listDrawings, ui,
                    currentTopicId, view, outdated, streamsChans,
                    messageCache, thread>>
    BY <1>5 DEF vars, boardVars, topicVars, displayVars, viewVars,
                streamVars, cacheVars
  <2>2. ShapeInv'
    BY <2>1 DEF IInv, ShapeInv
  <2>3. ListInv'
    BY <2>1 DEF IInv, ListInv
  <2>4. ChannelsInv'
    BY <2>1 DEF IInv, ChannelsInv
  <2>5. Rows(Entry(currentTopicId))' = Rows(Entry(currentTopicId))
    BY <2>1 DEF Entry
  <2>6. ViewInv'
    BY <2>1, <2>5 DEF IInv, ViewInv
  <2> QED
    BY <2>2, <2>3, <2>4, <2>6 DEF IInv
<1> QED
  BY <1>1, <1>2, <1>3, <1>4, <1>5 DEF Next

(* In every run of the GUI client the goroutines are where their fields    *)
(* say, the topics on the screen are known, the channels in the map are    *)
(* open, and the message view is the newest or has a drawing to come.      *)
LEMMA ClientInvariant == Spec => []IInv
<1> QED
  BY InitEstablishes, NextKeeps, PTL DEF Spec

-----------------------------------------------------------------------------
(* The theorems. *)

(* When all is quiet the view is the selected topic's entry, for any       *)
(* number of goroutines, topics and writes: every goroutine that changes   *)
(* that entry, or what is selected, goes on to a drawing (updateMessageView *)
(* and its callers).                                                       *)
THEOREM ScreenShowsTheCache == Spec => []ViewFollowsSelection
<1>1. IInv => ViewFollowsSelection
  <2> SUFFICES ASSUME IInv, Quiet, ~outdated
               PROVE  view = [topic |-> currentTopicId,
                              rows |-> Rows(Entry(currentTopicId))]
    BY DEF ViewFollowsSelection
  <2>1. \A h \in Threads : thread[h].pc \in {"idle", "recv"}
    BY IdleShape DEF Quiet
  <2>2. \A h \in Threads : ~WillDraw(thread[h], currentTopicId)
    BY <2>1 DEF WillDraw
  <2> QED
    BY <2>2 DEF IInv, ViewInv
<1> QED
  BY <1>1, ClientInvariant, PTL

(* A crashed client does nothing any more.                                 *)
LEMMA PanicIsTheEnd ==
  ASSUME panicked, [Next]_vars
  PROVE  UNCHANGED vars
<1>1. ~Others /\ ~CopyTopics /\ \A d : ~DrawTopics(d)
  BY DEF Others, CopyTopics, DrawTopics
<1>2. \A h : ~At(h, "idle")
  BY DEF At
<1>3. ~Input /\ \A r : ~Go(r)
  BY <1>2 DEF Input, Go
<1>4. ~MainLoop
  BY <1>3 DEF MainLoop, PressReload, PressRefresh, PressCreateTopic,
              PressCreateUser, PressWrite, PressTopic, IndexPanics,
              SelectTopic, ChooseSubscription
<1>5. \A h : ~Step(h)
  BY DEF Step, At, LoadAsks, LoadStores, WriteAsks, WriteStores,
         UpdateMessageView, Draw, RefreshAsks, RefreshStores, CreateAsks,
         CreateStores, SubscribeChecks, SubscribeAsks, StreamOpens,
         MarkSubscribed, RegisterChannel, Receive, StreamBreaks, SignUp,
         Fails
<1> QED
  BY <1>1, <1>4, <1>5 DEF Next

(* The step in which the client crashes uses an index of a longer list.    *)
LEMMA OnlyAnIndexPanics ==
  ASSUME IInv, ~panicked, Next, panicked'
  PROVE  GuiNeverPanics'
<1>1. CASE IndexPanics
  <2>1. UNCHANGED <<list, topicOrder, ui>> /\ ui # None
    BY <1>1 DEF IndexPanics, topicVars
  <2>2. ui.index \in 1..Len(list) /\ ui.index > Len(topicOrder)
    BY <1>1 DEF IndexPanics, IInv, ListInv
  <2>3. Len(list) > Len(topicOrder)
    BY <2>2 DEF IInv, ListInv
  <2> QED
    BY <2>1, <2>3 DEF GuiNeverPanics, ListOutdated
<1>2. ASSUME NEW d \in listDrawings, DrawTopics(d)
      PROVE  FALSE
  <2>1. d.known
    BY <1>2 DEF IInv, ListInv
  <2> QED
    BY <1>2, <2>1 DEF DrawTopics
<1>3. ASSUME NEW h \in Threads, SignUp(h)
      PROVE  FALSE
  <2>1. PICK t \in Topics : /\ streamsChans[t] \in Threads
                            /\ thread[streamsChans[t]].closed
    BY <1>3 DEF SignUp
  <2>2. Reads(thread[streamsChans[t]], t)
    BY <2>1 DEF IInv, ChannelsInv
  <2> QED
    BY <2>1, <2>2 DEF Reads
<1>4. MainLoop => IndexPanics \/ UNCHANGED panicked
  BY DEF MainLoop, PressReload, PressRefresh, PressCreateTopic,
         PressCreateUser, PressWrite, PressTopic, SelectTopic,
         ChooseSubscription
<1>5. ~Others /\ ~CopyTopics
  BY DEF Others, CopyTopics
<1>6. \A h \in Threads : Step(h) => SignUp(h) \/ UNCHANGED panicked
  BY DEF Step, LoadAsks, LoadStores, WriteAsks, WriteStores,
         UpdateMessageView, Draw, RefreshAsks, RefreshStores, CreateAsks,
         CreateStores, SubscribeChecks, SubscribeAsks, StreamOpens,
         MarkSubscribed, RegisterChannel, Receive, StreamBreaks, Fails
<1> QED
  BY <1>1, <1>2, <1>3, <1>4, <1>5, <1>6 DEF Next

(* The client crashes only by an index into a list that has been refreshed *)
(* to a shorter one, for any number of goroutines and topics: a channel is *)
(* closed once, and every topic of the order is known when it is drawn     *)
(* (closeSubscriptions, displayTopics, handleTopicSubscription).           *)
THEOREM ClientPanicsOnlyByIndex == Spec => []GuiNeverPanics
<1>1. Init => GuiNeverPanics
  BY DEF Init, GuiNeverPanics
<1>2. IInv /\ GuiNeverPanics /\ [Next]_vars => GuiNeverPanics'
  <2> SUFFICES ASSUME IInv, GuiNeverPanics, [Next]_vars, panicked'
               PROVE  GuiNeverPanics'
    BY DEF GuiNeverPanics
  <2>1. CASE panicked
    <3>1. UNCHANGED <<panicked, ui, list, topicOrder>>
      BY <2>1, PanicIsTheEnd DEF vars, topicVars
    <3> QED
      BY <3>1 DEF GuiNeverPanics, ListOutdated
  <2>2. CASE ~panicked
    <3>1. Next
      BY <2>2 DEF vars
    <3> QED
      BY <2>2, <3>1, OnlyAnIndexPanics
  <2> QED
    BY <2>1, <2>2
<1> QED
  BY <1>1, <1>2, ClientInvariant, PTL DEF Spec

-----------------------------------------------------------------------------
(***************************************************************************)
(* The cache.                                                              *)
(***************************************************************************)

HIDE GuiClientAssumption

(* The loop that applies the events of a stream is a recursion over sets   *)
(* of places (MapThenFoldSet): it has a solution, by induction on their    *)
(* number, and so goes from one entry to the next.                         *)

(* f is c as the events of s are applied to it one by one. *)
IsTrace(f, c, s) ==
  /\ f[0] = c
  /\ \A k \in 1..Len(s) : f[k] = Applied(f[k - 1], s[k])

LEMMA MaxOfInitial ==
  ASSUME NEW n \in Nat \ {0}, NEW T \in SUBSET (1..n), n \in T
  PROVE  Max(T) = n
<1>1. n \in T /\ \A y \in T : n >= y
  OBVIOUS
<1>2. Max(T) \in T /\ \A y \in T : Max(T) >= y
  BY <1>1 DEF Max
<1>3. \A y \in T : y \in Nat
  OBVIOUS
<1>4. PICK y : y = Max(T)
  OBVIOUS
<1>5. y \in Nat /\ n \in Nat /\ y >= n /\ n >= y
  BY <1>1, <1>2, <1>3, <1>4
<1>. QED BY <1>4, <1>5

(* The recursion of FoldLeft has a solution on the sets of the first n     *)
(* places.                                                                 *)
Solves(f, n, c, s) ==
  f = [T \in SUBSET (1..n) |->
         IF T = {} THEN c ELSE Applied(f[T \ {Max(T)}], s[Max(T)])]

LEMMA FoldExists ==
  ASSUME NEW c, NEW s, NEW n \in Nat
  PROVE  \E f : Solves(f, n, c, s)
<1>. DEFINE Bad == {m \in Nat : ~\E f : Solves(f, m, c, s)}
<1>1. SUFFICES ASSUME Bad # {} PROVE FALSE
  OBVIOUS
<1>2. PICK m \in Bad : \A k \in Bad : ~(<<k, m>> \in OpToRel(<, Nat))
  BY <1>1, NatLessThanWellFounded, WFMin
<1>3. \A k \in Bad : ~(k < m)
  BY <1>2 DEF OpToRel
<1>4. m # 0
  <2>1. ASSUME m = 0 PROVE FALSE
    <3>. DEFINE f == [T \in SUBSET (1..0) |-> c]
    <3>1. \A T \in SUBSET (1..0) : T = {}
      OBVIOUS
    <3>2. Solves(f, 0, c, s)
      BY <3>1 DEF Solves
    <3>. QED BY <2>1, <3>2
  <2>. QED BY <2>1
<1>5. m - 1 \in Nat /\ m - 1 < m /\ m \in Nat
  BY <1>4
<1>6. PICK g : Solves(g, m - 1, c, s)
  BY <1>3, <1>5
<1>. DEFINE f == [T \in SUBSET (1..m) |->
                    IF m \in T THEN Applied(g[T \ {m}], s[m]) ELSE g[T]]
<1>7. ASSUME NEW T \in SUBSET (1..m)
      PROVE  f[T] = IF T = {} THEN c ELSE Applied(f[T \ {Max(T)}], s[Max(T)])
  <2>1. CASE m \in T
    <3>1. Max(T) = m
      BY <1>4, <1>5, <2>1, MaxOfInitial
    <3>2. T \ {m} \in SUBSET (1..m) /\ m \notin T \ {m}
      OBVIOUS
    <3>3. f[T \ {m}] = g[T \ {m}] /\ f[T] = Applied(g[T \ {m}], s[m])
      BY <2>1, <3>2
    <3>. QED BY <2>1, <3>1, <3>3
  <2>2. CASE m \notin T
    <3>1. T \in SUBSET (1..m - 1)
      BY <1>5, <2>2
    <3>2. f[T] = g[T] /\ f[T \ {Max(T)}] = g[T \ {Max(T)}]
      BY <2>2
    <3>3. g[T] = IF T = {} THEN c ELSE Applied(g[T \ {Max(T)}], s[Max(T)])
      BY <1>6, <3>1 DEF Solves
    <3>. QED BY <3>2, <3>3
  <2>. QED BY <2>1, <2>2
<1>8. Solves(f, m, c, s)
  BY <1>7 DEF Solves
<1>. QED BY <1>2, <1>8

LEMMA FoldIsTrace ==
  ASSUME NEW c, NEW s, Len(s) \in Nat, DOMAIN s = 1..Len(s)
  PROVE  \E f : IsTrace(f, c, s) /\ FoldLeft(Applied, c, s) = f[Len(s)]
<1>. DEFINE n == Len(s)
            iter == CHOOSE f : Solves(f, n, c, s)
            f == [k \in 0..n |-> iter[1..k]]
<1>1. Solves(iter, n, c, s)
  BY FoldExists
<1>2. FoldLeft(Applied, c, s) = iter[1..n]
  BY DEF FoldLeft, MapThenFoldSet, Solves
<1>. HIDE DEF iter
<1>3. \A T \in SUBSET (1..n) :
        iter[T] = IF T = {} THEN c ELSE Applied(iter[T \ {Max(T)}], s[Max(T)])
  BY <1>1 DEF Solves
<1>4. f[0] = c
  <2>1. 1..0 = {} /\ {} \in SUBSET (1..n) /\ 0 \in 0..n
    OBVIOUS
  <2>2. iter[{}] = c
    BY <1>3, <2>1
  <2>. QED BY <2>1, <2>2
<1>5. ASSUME NEW k \in 1..n
      PROVE  f[k] = Applied(f[k - 1], s[k])
  <2>1. 1..k \in SUBSET (1..n) /\ k \in 1..k /\ k \in Nat \ {0}
    OBVIOUS
  <2>2. Max(1..k) = k
    BY <2>1, MaxOfInitial
  <2>3. (1..k) \ {k} = 1..k - 1
    BY <2>1
  <2>4. iter[1..k] = Applied(iter[1..k - 1], s[k])
    BY <1>3, <2>1, <2>2, <2>3
  <2>. QED BY <2>4
<1>6. FoldLeft(Applied, c, s) = f[n]
  BY <1>2
<1>. QED BY <1>4, <1>5, <1>6 DEF IsTrace

-----------------------------------------------------------------------------
(* A sum of natural numbers is no less than each of them.                  *)

Small(S, k) == {T \in SUBSET S : Cardinality(T) <= k}

Sums(f, S, k, g) ==
  f = [T \in Small(S, k) |->
         IF T = {} THEN 0
         ELSE LET x == CHOOSE x \in T : TRUE IN g[x] + f[T \ {x}]]

LEMMA OneLess ==
  ASSUME NEW S, IsFiniteSet(S), NEW T \in SUBSET S, T # {}
  PROVE  LET x == CHOOSE x \in T : TRUE
         IN  /\ x \in T /\ T \ {x} \in SUBSET S
             /\ Cardinality(T) \in Nat /\ Cardinality(T) # 0
             /\ Cardinality(T \ {x}) = Cardinality(T) - 1
<1>1. IsFiniteSet(T) /\ (CHOOSE x \in T : TRUE) \in T
  BY FS_Subset
<1>2. PICK x : x = CHOOSE y \in T : TRUE
  OBVIOUS
<1>3. x \in T /\ IsFiniteSet(T)
  BY <1>1, <1>2
<1>4. Cardinality(T \ {x}) = Cardinality(T) - 1
  BY <1>3, FS_RemoveElement
<1>5. Cardinality(T) \in Nat /\ Cardinality(T) # 0
  BY <1>3, FS_CardinalityType, FS_EmptySet
<1>. QED BY <1>2, <1>3, <1>4, <1>5

LEMMA SumExists ==
  ASSUME NEW S, IsFiniteSet(S), NEW g, NEW n \in Nat
  PROVE  \E f : Sums(f, S, n, g)
<1>. DEFINE Bad == {m \in Nat : ~\E f : Sums(f, S, m, g)}
<1>1. SUFFICES ASSUME Bad # {} PROVE FALSE
  OBVIOUS
<1>2. PICK m \in Bad : \A k \in Bad : ~(<<k, m>> \in OpToRel(<, Nat))
  BY <1>1, NatLessThanWellFounded, WFMin
<1>3. \A k \in Bad : ~(k < m)
  BY <1>2 DEF OpToRel
<1>0. \A T \in SUBSET S : Cardinality(T) \in Nat /\ IsFiniteSet(T)
  BY FS_Subset, FS_CardinalityType
<1>4. m # 0
  <2>1. ASSUME m = 0 PROVE FALSE
    <3>. DEFINE f == [T \in Small(S, 0) |-> 0]
    <3>1. \A T \in Small(S, 0) : T = {}
      BY <1>0, FS_EmptySet DEF Small
    <3>2. Sums(f, S, 0, g)
      BY <3>1 DEF Sums
    <3>. QED BY <2>1, <3>2
  <2>. QED BY <2>1
<1>5. m - 1 \in Nat /\ m - 1 < m /\ m \in Nat
  BY <1>4
<1>6. PICK h : Sums(h, S, m - 1, g)
  BY <1>3, <1>5
<1>. DEFINE f == [T \in Small(S, m) |->
                    IF Cardinality(T) = m
                    THEN LET x == CHOOSE x \in T : TRUE IN g[x] + h[T \ {x}]
                    ELSE h[T]]
<1>7. ASSUME NEW T \in Small(S, m)
      PROVE  f[T] = IF T = {} THEN 0
                    ELSE LET x == CHOOSE x \in T : TRUE IN g[x] + f[T \ {x}]
  <2>1. CASE T = {}
    <3>1. Cardinality(T) = 0 /\ T \in Small(S, m - 1)
      BY <1>5, <2>1, FS_EmptySet DEF Small
    <3>2. f[T] = h[T] /\ h[T] = 0
      BY <1>4, <1>6, <2>1, <3>1 DEF Sums
    <3>. QED BY <2>1, <3>2
  <2>2. CASE T # {}
    <3>. DEFINE x == CHOOSE x \in T : TRUE
    <3>1. /\ T \in SUBSET S /\ Cardinality(T) \in Nat /\ Cardinality(T) # 0
          /\ T \ {x} \in SUBSET S
          /\ Cardinality(T) <= m /\ Cardinality(T \ {x}) = Cardinality(T) - 1
      BY <2>2, OneLess DEF Small
    <3>. HIDE DEF x
    <3>2. /\ T \ {x} \in Small(S, m) /\ Cardinality(T \ {x}) # m
          /\ T \ {x} \in Small(S, m - 1)
      BY <1>5, <3>1 DEF Small
    <3>3. f[T \ {x}] = h[T \ {x}]
      BY <3>2
    <3>4. CASE Cardinality(T) = m
      BY <2>2, <3>3, <3>4 DEF x
    <3>5. CASE Cardinality(T) # m
      <4>1. T \in Small(S, m - 1)
        BY <1>5, <3>1, <3>5 DEF Small
      <4>2. h[T] = g[x] + h[T \ {x}]
        BY <1>6, <2>2, <4>1 DEF Sums, x
      <4>3. f[T] = h[T]
        BY <3>5
      <4>. QED BY <2>2, <3>3, <4>2, <4>3 DEF x
    <3>. QED BY <3>4, <3>5
  <2>. QED BY <2>1, <2>2
<1>8. Sums(f, S, m, g)
  BY <1>7 DEF Sums
<1>. QED BY <1>2, <1>8

LEMMA SumBoundsAll ==
  ASSUME NEW S, IsFiniteSet(S), NEW g \in [S -> Nat], NEW s \in S
  PROVE  /\ FoldFunction(+, 0, g) \in Nat
         /\ g[s] <= FoldFunction(+, 0, g)
<1>. DEFINE n == Cardinality(S)
            Rec(f) == f = [T \in SUBSET S |->
                   IF T = {} THEN 0
                   ELSE LET x == CHOOSE x \in T : TRUE IN g[x] + f[T \ {x}]]
            sum == CHOOSE f : Rec(f)
<1>1. n \in Nat /\ \A T \in SUBSET S : /\ Cardinality(T) \in Nat
                                        /\ Cardinality(T) <= n
                                        /\ IsFiniteSet(T)
  BY FS_CardinalityType, FS_Subset
<1>2. Small(S, n) = SUBSET S
  BY <1>1 DEF Small
<1>3. \E f : Rec(f)
  <2>1. PICK f : Sums(f, S, n, g)
    BY <1>1, SumExists
  <2>2. Rec(f)
    BY <1>2, <2>1 DEF Sums
  <2>. QED BY <2>2
<1>4. Rec(sum)
  BY <1>3
<1>5. FoldFunction(+, 0, g) = sum[S]
  BY DEF FoldFunction, FoldFunctionOnSet, MapThenFoldSet
<1>. HIDE DEF sum
<1>6. \A T \in SUBSET S : sum[T] =
        IF T = {} THEN 0
        ELSE LET x == CHOOSE x \in T : TRUE IN g[x] + sum[T \ {x}]
  BY <1>4
<1>. DEFINE Good(T) == sum[T] \in Nat /\ \A x \in T : g[x] <= sum[T]
            Bad == {Cardinality(T) : T \in {U \in SUBSET S : ~Good(U)}}
<1>7. ASSUME Bad # {} PROVE FALSE
  <2>1. Bad \subseteq Nat
    BY <1>1
  <2>2. PICK m \in Bad : \A k \in Bad : ~(<<k, m>> \in OpToRel(<, Nat))
    <3>. HIDE DEF Bad
    <3>. QED BY <1>7, <2>1, NatLessThanWellFounded, WFMin
  <2>3. \A k \in Bad : ~(k < m)
    BY <2>1, <2>2 DEF OpToRel
  <2>4. PICK T \in SUBSET S : ~Good(T) /\ Cardinality(T) = m
    BY <2>2
  <2>. HIDE DEF Good
  <2>5. T # {}
    <3>1. ASSUME T = {} PROVE FALSE
      <4>1. sum[T] = 0
        BY <1>6, <3>1
      <4>2. Good(T)
        BY <3>1, <4>1 DEF Good
      <4>. QED BY <2>4, <4>2
    <3>. QED BY <3>1
  <2>. DEFINE x == CHOOSE x \in T : TRUE
  <2>6. /\ x \in T /\ T \ {x} \in SUBSET S
        /\ Cardinality(T) \in Nat /\ Cardinality(T) # 0
        /\ Cardinality(T \ {x}) = Cardinality(T) - 1
    BY <2>5, OneLess
  <2>7. sum[T] = g[x] + sum[T \ {x}]
    BY <1>6, <2>5
  <2>. HIDE DEF x
  <2>8. Good(T \ {x})
    <3>1. ASSUME ~Good(T \ {x}) PROVE FALSE
      <4>1. Cardinality(T \ {x}) \in Bad
        BY <2>6, <3>1
      <4>2. Cardinality(T \ {x}) < m
        <5>. HIDE DEF Bad
        <5>. QED BY <2>4, <2>6
      <4>. QED BY <2>3, <4>1, <4>2
    <3>. QED BY <3>1
  <2>9. /\ g[x] \in Nat /\ sum[T \ {x}] \in Nat
        /\ \A y \in T \ {x} : g[y] \in Nat /\ g[y] <= sum[T \ {x}]
    BY <2>6, <2>8 DEF Good
  <2>10. /\ sum[T] \in Nat /\ g[x] <= sum[T]
         /\ \A y \in T \ {x} : g[y] <= sum[T]
    <3>. DEFINE a == g[x]
                b == sum[T \ {x}]
    <3>1. a \in Nat /\ b \in Nat /\ sum[T] = a + b
      BY <2>7, <2>9
    <3>2. \A y \in T \ {x} : g[y] \in Nat /\ g[y] <= b
      BY <2>9
    <3>. HIDE DEF a, b
    <3>3. a <= a + b /\ a + b \in Nat /\ \A c \in Nat : c <= b => c <= a + b
      BY <3>1
    <3>4. \A y \in T \ {x} : g[y] <= a + b
      BY <3>2, <3>3
    <3>. QED BY <3>1, <3>3, <3>4 DEF a
  <2>11. Good(T)
    BY <2>6, <2>10 DEF Good
  <2>. QED BY <2>4, <2>11
<1>8. Good(S)
  BY <1>7
<1>. QED BY <1>5, <1>8

-----------------------------------------------------------------------------
(* Lists in increasing order. *)

(* Among n numbers, those up to each of them are 1, 2, ..., n many, in the *)
(* order of the numbers.                                                   *)
LEMMA RanksAreAll ==
  ASSUME NEW ids \in SUBSET Nat, IsFiniteSet(ids)
  PROVE  /\ Cardinality(ids) \in Nat
         /\ \A i \in ids :
              Cardinality({j \in ids : j <= i}) \in 1..Cardinality(ids)
         /\ \A i, k \in ids : i < k =>
              Cardinality({j \in ids : j <= i}) <
                Cardinality({j \in ids : j <= k})
         /\ \A k \in 1..Cardinality(ids) :
              \E i \in ids : Cardinality({j \in ids : j <= i}) = k
<1>. DEFINE Upto(i) == {j \in ids : j <= i}
            rank == [i \in ids |-> Cardinality(Upto(i))]
            n == Cardinality(ids)
<1>1. n \in Nat
  BY FS_CardinalityType
<1>2. \A i \in ids : Upto(i) \in SUBSET ids /\ i \in Upto(i)
  OBVIOUS
<1>3. ASSUME NEW i \in ids, NEW k \in ids, i < k
      PROVE  Upto(i) \in SUBSET Upto(k) /\ Upto(i) # Upto(k)
  <2>1. i \in Nat /\ k \in Nat /\ \A j \in ids : j \in Nat
    OBVIOUS
  <2>2. \A j \in ids : j <= i => j <= k
    BY <1>3, <2>1
  <2>3. k \notin Upto(i) /\ k \in Upto(k)
    BY <1>3, <2>1
  <2>. QED BY <2>2, <2>3
<1>. HIDE DEF Upto
<1>4. ASSUME NEW i \in ids
      PROVE  IsFiniteSet(Upto(i)) /\ Cardinality(Upto(i)) \in 1..n
  <2>1. IsFiniteSet(Upto(i)) /\ Cardinality(Upto(i)) <= n
    BY <1>2, FS_Subset
  <2>2. Cardinality(Upto(i)) \in Nat
    BY <2>1, FS_CardinalityType
  <2>3. Cardinality(Upto(i)) # 0
    BY <1>2, <2>1, FS_EmptySet
  <2>. QED BY <1>1, <2>1, <2>2, <2>3
<1>5. ASSUME NEW i \in ids, NEW k \in ids, i < k
      PROVE  Cardinality(Upto(i)) < Cardinality(Upto(k))
  <2>1. /\ Cardinality(Upto(i)) <= Cardinality(Upto(k))
        /\ Cardinality(Upto(i)) # Cardinality(Upto(k))
    BY <1>3, <1>4, <1>5, FS_Subset
  <2>. QED BY <1>4, <2>1
<1>6. ASSUME NEW i \in ids, NEW k \in ids,
             Cardinality(Upto(i)) = Cardinality(Upto(k))
      PROVE  i = k
  <2>1. i < k \/ k < i \/ i = k
    OBVIOUS
  <2>2. ~(i < k)
    BY <1>4, <1>5, <1>6
  <2>3. ~(k < i)
    BY <1>4, <1>5, <1>6
  <2>. QED BY <2>1, <2>2, <2>3
<1>7. rank \in Injection(ids, 1..n)
  BY <1>4, <1>6 DEF Injection, IsInjective
<1>8. IsFiniteSet(1..n) /\ Cardinality(1..n) = n
  BY <1>1, FS_Interval
<1>9. rank \in Surjection(ids, 1..n)
  <2>. HIDE DEF rank, n
  <2>1. n = Cardinality(ids)
    BY DEF n
  <2>. QED BY <1>7, <1>8, <2>1, FS_Injection
<1>10. \A k \in 1..n : \E i \in ids : Cardinality(Upto(i)) = k
  BY <1>9 DEF Surjection
<1>. QED BY <1>1, <1>4, <1>5, <1>10 DEF Upto

(* The list of a set has each of its numbers once. *)
LEMMA InOrderLists ==
  ASSUME NEW ids \in SUBSET Nat, IsFiniteSet(ids)
  PROVE  LET sorted == InOrder(ids)
         IN  /\ sorted \in Seq(ids)
             /\ Range(sorted) = ids
             /\ \A i, j \in DOMAIN sorted : sorted[i] = sorted[j] => i = j
<1>. DEFINE Rank(m) == Cardinality({k \in ids : k <= m})
            n == Cardinality(ids)
            sorted == [i \in 1..n |-> CHOOSE m \in ids : Rank(m) = i]
<1>1. /\ n \in Nat
      /\ \A m \in ids : Rank(m) \in 1..n
      /\ \A m, k \in ids : m < k => Rank(m) < Rank(k)
      /\ \A i \in 1..n : \E m \in ids : Rank(m) = i
  BY RanksAreAll
<1>2. InOrder(ids) = sorted
  BY DEF InOrder
<1>. HIDE DEF Rank, n
<1>3. \A i \in 1..n : sorted[i] \in ids /\ Rank(sorted[i]) = i
  BY <1>1
<1>4. \A m \in ids : sorted[Rank(m)] = m
  <2>. SUFFICES ASSUME NEW m \in ids PROVE sorted[Rank(m)] = m
    OBVIOUS
  <2>1. sorted[Rank(m)] \in ids /\ Rank(sorted[Rank(m)]) = Rank(m)
    BY <1>1, <1>3
  <2>2. \A k \in ids : k < m \/ m < k \/ k = m
    OBVIOUS
  <2>. QED BY <1>1, <2>1, <2>2
<1>5. DOMAIN sorted = 1..n
  OBVIOUS
<1>6. sorted \in Seq(ids)
  BY <1>1, <1>3
<1>. HIDE DEF sorted
<1>7. Range(sorted) = ids
  BY <1>1, <1>3, <1>4, <1>5 DEF Range
<1>8. \A i, j \in DOMAIN sorted : sorted[i] = sorted[j] => i = j
  BY <1>3, <1>5
<1>. QED BY <1>2, <1>6, <1>7, <1>8

-----------------------------------------------------------------------------
(* Entries, and what they show of a message. *)

(* What the board has of a topic when n events have happened there.        *)
BoardOK(b, n) ==
  n \in 0..MaxEvents /\ b \in Seq(0..n) /\ Len(b) <= n

(* An entry has ids that the board has given out. *)
CacheOK(b, c) ==
  /\ c \in [messages : [Ids -> Nat], order : Seq(1..Len(b))]
  /\ \A i \in Ids : c.messages[i] # 0 => i <= Len(b)

Places(c, i) == {k \in DOMAIN c.order : c.order[k] = i}
Listed(c, i) == Places(c, i) # {}
Once(c, i) == \E k : Places(c, i) = {k}

(* The entry shows message i as it is on the board. *)
Right(b, c, i) ==
  IF b[i] = 0 THEN c.messages[i] = 0 \/ ~Listed(c, i)
  ELSE c.messages[i] = b[i] /\ Once(c, i)

OnPage(b) == {i \in DOMAIN b : i < Limit}

LEMMA BoardFacts ==
  ASSUME NEW b, NEW n, BoardOK(b, n)
  PROVE  /\ n \in Nat /\ Len(b) \in Nat
         /\ DOMAIN b = 1..Len(b)
         /\ 1..Len(b) \subseteq Ids
         /\ \A i \in 1..Len(b) : b[i] \in Nat
         /\ OnPage(b) \subseteq 1..Len(b)
         /\ Limit \in Nat
BY GuiClientAssumption DEF BoardOK, Ids, OnPage

(* The rows of an entry are the messages at the places that are not empty. *)
LEMMA RowsAreShown ==
  ASSUME NEW b, NEW c, CacheOK(b, c)
  PROVE  \E shown :
           /\ DOMAIN shown = DOMAIN Rows(c)
           /\ Range(shown) = {k \in DOMAIN c.order : c.messages[c.order[k]] # 0}
           /\ \A i, j \in DOMAIN shown : shown[i] = shown[j] => i = j
           /\ \A r \in DOMAIN shown :
                Rows(c)[r] = [id |-> c.order[shown[r]],
                              v |-> c.messages[c.order[shown[r]]]]
<1>. DEFINE places == {k \in DOMAIN c.order : c.messages[c.order[k]] # 0}
            shown == InOrder(places)
<1>1. DOMAIN c.order = 1..Len(c.order) /\ Len(c.order) \in Nat
  BY DEF CacheOK
<1>2. places \in SUBSET (1..Len(c.order)) /\ IsFiniteSet(1..Len(c.order))
  BY <1>1, FS_Interval
<1>3. IsFiniteSet(places) /\ places \in SUBSET Nat
  BY <1>2, FS_Subset
<1>4. /\ Range(shown) = places
      /\ \A i, j \in DOMAIN shown : shown[i] = shown[j] => i = j
  BY <1>3, InOrderLists
<1>5. Rows(c) = [r \in DOMAIN shown |-> [id |-> c.order[shown[r]],
                                        v |-> c.messages[c.order[shown[r]]]]]
  BY DEF Rows
<1>. HIDE DEF shown
<1>6. /\ DOMAIN shown = DOMAIN Rows(c)
      /\ \A r \in DOMAIN shown :
           Rows(c)[r] = [id |-> c.order[shown[r]],
                         v |-> c.messages[c.order[shown[r]]]]
  BY <1>5
<1>. QED BY <1>4, <1>6

(* The ids of the messages of a window. *)
LEMMA MessagesAreAlive ==
  ASSUME NEW t \in Topics, board[t] \in Seq(Nat),
         NEW first \in Nat, NEW bound \in Nat
  PROVE  LET alive == {i \in DOMAIN board[t] :
                         first <= i /\ i < bound /\ board[t][i] # 0}
         IN  /\ Messages(t, first, bound) \in Seq(alive)
             /\ ToSet(Messages(t, first, bound)) = alive
             /\ \A i, j \in DOMAIN Messages(t, first, bound) :
                  Messages(t, first, bound)[i] = Messages(t, first, bound)[j]
                    => i = j
<1>. DEFINE alive == {i \in DOMAIN board[t] :
                        first <= i /\ i < bound /\ board[t][i] # 0}
<1>1. DOMAIN board[t] = 1..Len(board[t]) /\ Len(board[t]) \in Nat
  OBVIOUS
<1>2. alive \in SUBSET (1..Len(board[t])) /\ IsFiniteSet(1..Len(board[t]))
  BY <1>1, FS_Interval
<1>3. IsFiniteSet(alive) /\ alive \in SUBSET Nat
  BY <1>2, FS_Subset
<1>4. Messages(t, first, bound) = InOrder(alive)
  BY DEF Messages
<1>. HIDE DEF alive
<1>5. /\ Messages(t, first, bound) \in Seq(alive)
      /\ Range(Messages(t, first, bound)) = alive
      /\ \A i, j \in DOMAIN Messages(t, first, bound) :
           Messages(t, first, bound)[i] = Messages(t, first, bound)[j] => i = j
  BY <1>3, <1>4, InOrderLists
<1>6. ToSet(Messages(t, first, bound)) = Range(Messages(t, first, bound))
  BY DEF ToSet, Range
<1>. QED BY <1>5, <1>6 DEF alive

(* An entry is the board if it shows each message as it is there. *)
LEMMA BoardIsAllRight ==
  ASSUME NEW t \in Topics, NEW n, BoardOK(board[t], n),
         NEW c, CacheOK(board[t], c)
  PROVE  IsTheBoard(t, c) <=> \A i \in OnPage(board[t]) : Right(board[t], c, i)
<1>1. PICK shown :
        /\ DOMAIN shown = DOMAIN Rows(c)
        /\ Range(shown) = {k \in DOMAIN c.order : c.messages[c.order[k]] # 0}
        /\ \A i, j \in DOMAIN shown : shown[i] = shown[j] => i = j
        /\ \A r \in DOMAIN shown :
             Rows(c)[r] = [id |-> c.order[shown[r]],
                           v |-> c.messages[c.order[shown[r]]]]
  BY RowsAreShown
<1>. DEFINE rows == Rows(c)
            page == {r \in DOMAIN rows : rows[r].id < Limit}
            onPage == Restrict(rows, page)
            alive == {i \in OnPage(board[t]) : board[t][i] # 0}
            Row(i, v) == [id |-> i, v |-> v]
<1>2. ToSet(Messages(t, 0, Limit)) = alive
  <2>1. ToSet(Messages(t, 0, Limit)) =
          {i \in DOMAIN board[t] : 0 <= i /\ i < Limit /\ board[t][i] # 0}
    <3>1. 0 \in Nat /\ Limit \in Nat
      BY BoardFacts
    <3>2. board[t] \in Seq(Nat)
      BY DEF BoardOK
    <3>. QED BY <3>1, <3>2, MessagesAreAlive, Zenon
  <2>2. \A i \in DOMAIN board[t] : 0 <= i
    BY BoardFacts
  <2>. QED BY <2>1, <2>2 DEF OnPage
<1>3. IsTheBoard(t, c) <=>
        /\ \A r, q \in page : rows[r] = rows[q] => r = q
        /\ {rows[r] : r \in page} = {Row(i, board[t][i]) : i \in alive}
  <2>1. DOMAIN onPage = page /\ \A r \in page : onPage[r] = rows[r]
    BY DEF Restrict
  <2>2. IsInjective(onPage) <=> \A r, q \in page : rows[r] = rows[q] => r = q
    BY <2>1 DEF IsInjective
  <2>3. Range(onPage) = {rows[r] : r \in page}
    BY <2>1 DEF Range
  <2>4. IsTheBoard(t, c) <=>
          /\ IsInjective(onPage)
          /\ Range(onPage) = {Row(i, board[t][i]) : i \in alive}
    BY <1>2 DEF IsTheBoard
  <2>. QED BY <2>2, <2>3, <2>4
<1>. DEFINE Shown(k) == /\ k \in DOMAIN c.order /\ c.order[k] < Limit
                        /\ c.messages[c.order[k]] # 0
<1>. HIDE DEF rows
<1>4. \A r \in page : /\ Shown(shown[r])
                      /\ rows[r] =
                           Row(c.order[shown[r]], c.messages[c.order[shown[r]]])
  <2>. SUFFICES ASSUME NEW r \in page
       PROVE  /\ Shown(shown[r])
              /\ rows[r] = Row(c.order[shown[r]], c.messages[c.order[shown[r]]])
    OBVIOUS
  <2>1. r \in DOMAIN shown
    BY <1>1 DEF rows
  <2>2. rows[r] = Row(c.order[shown[r]], c.messages[c.order[shown[r]]])
    BY <1>1, <2>1 DEF rows
  <2>3. shown[r] \in Range(shown)
    BY <2>1 DEF Range
  <2>. QED BY <1>1, <2>2, <2>3
<1>5. \A k : Shown(k) => \E r \in page : shown[r] = k
  <2>. SUFFICES ASSUME NEW k, Shown(k) PROVE \E r \in page : shown[r] = k
    OBVIOUS
  <2>1. PICK r \in DOMAIN shown : shown[r] = k
    BY <1>1 DEF Range
  <2>2. r \in DOMAIN rows /\ rows[r].id = c.order[k]
    BY <1>1, <2>1 DEF rows
  <2>. QED BY <2>1, <2>2
<1>. HIDE DEF Shown
<1>9. /\ \A i, j, v, w : Row(i, v) = Row(j, w) => i = j /\ v = w
      /\ \A i, v : Row(i, v).id = i
  <2>1. \A i, v : Row(i, v).id = i /\ Row(i, v).v = v
    OBVIOUS
  <2>. HIDE DEF Row
  <2>. QED BY <2>1
<1>. HIDE DEF Row
<1>6. \A k \in DOMAIN c.order : /\ c.order[k] \in 1..Len(board[t])
                                /\ c.order[k] < Limit <=>
                                     c.order[k] \in OnPage(board[t])
  BY BoardFacts DEF CacheOK, OnPage
<1>. HIDE DEF page, alive
<1>7. ASSUME IsTheBoard(t, c), NEW i \in OnPage(board[t])
      PROVE  Right(board[t], c, i)
  <2>0. i < Limit
    BY DEF OnPage
  <2>1. CASE board[t][i] # 0
    <3>1. i \in alive
      BY <2>1 DEF alive
    <3>2. PICK r \in page : rows[r] = Row(i, board[t][i])
      BY <1>3, <1>7, <3>1
    <3>3. /\ Shown(shown[r]) /\ c.order[shown[r]] = i
          /\ c.messages[i] = board[t][i]
      BY <1>4, <1>9, <3>2
    <3>4. ASSUME NEW k \in Places(c, i) PROVE k = shown[r]
      <4>1. Shown(k)
        BY <2>0, <2>1, <3>3, <3>4 DEF Places, Shown
      <4>2. PICK q \in page : shown[q] = k
        BY <1>5, <4>1
      <4>3. rows[q] = rows[r]
        BY <1>4, <3>3, <3>4, <4>2 DEF Places
      <4>. QED BY <1>3, <1>7, <4>2, <4>3
    <3>5. Places(c, i) = {shown[r]}
      BY <3>3, <3>4 DEF Places, Shown
    <3>. QED BY <2>1, <3>3, <3>5 DEF Right, Once
  <2>2. CASE board[t][i] = 0
    <3>1. ASSUME c.messages[i] # 0, NEW k \in Places(c, i) PROVE FALSE
      <4>1. Shown(k) /\ c.order[k] = i
        BY <2>0, <3>1 DEF Places, Shown
      <4>2. PICK r \in page : rows[r].id = i
        BY <1>4, <1>5, <1>9, <4>1
      <4>3. PICK j \in alive : rows[r] = Row(j, board[t][j])
        BY <1>3, <1>7, <4>2
      <4>. QED BY <1>9, <2>2, <4>2, <4>3 DEF alive
    <3>. QED BY <2>2, <3>1 DEF Right, Listed
  <2>. QED BY <2>1, <2>2
<1>8. ASSUME \A i \in OnPage(board[t]) : Right(board[t], c, i)
      PROVE  IsTheBoard(t, c)
  <2>1. ASSUME NEW k, Shown(k)
        PROVE  /\ c.order[k] \in alive
               /\ c.messages[c.order[k]] = board[t][c.order[k]]
               /\ \A j : Shown(j) /\ c.order[j] = c.order[k] => j = k
    <3>1. PICK i : i = c.order[k]
      OBVIOUS
    <3>2. i \in OnPage(board[t]) /\ k \in Places(c, i) /\ c.messages[i] # 0
      BY <1>6, <2>1, <3>1 DEF Places, Shown
    <3>3. board[t][i] # 0 /\ c.messages[i] = board[t][i] /\ Once(c, i)
      BY <1>8, <3>2 DEF Right, Listed
    <3>4. \A j : Shown(j) /\ c.order[j] = i => j = k
      BY <3>2, <3>3 DEF Once, Places, Shown
    <3>. QED BY <3>1, <3>2, <3>3, <3>4 DEF alive
  <2>2. ASSUME NEW r \in page, NEW q \in page, rows[r] = rows[q] PROVE r = q
    <3>1. c.order[shown[r]] = c.order[shown[q]]
      BY <1>4, <1>9, <2>2
    <3>3. shown[r] = shown[q]
      BY <1>4, <2>1, <3>1
    <3>2. r \in DOMAIN shown /\ q \in DOMAIN shown
      BY <1>1 DEF page, rows
    <3>. QED BY <1>1, <3>2, <3>3
  <2>3. ASSUME NEW r \in page
        PROVE  \E i \in alive : rows[r] = Row(i, board[t][i])
    BY <1>4, <2>1
  <2>4. ASSUME NEW i \in alive
        PROVE  \E r \in page : rows[r] = Row(i, board[t][i])
    <3>1. i \in OnPage(board[t]) /\ board[t][i] # 0 /\ i < Limit
      BY DEF alive, OnPage
    <3>2. c.messages[i] = board[t][i] /\ Once(c, i)
      BY <1>8, <3>1 DEF Right
    <3>3. PICK k \in DOMAIN c.order : c.order[k] = i
      BY <3>2 DEF Once, Places
    <3>4. Shown(k)
      BY <3>1, <3>2, <3>3 DEF Shown
    <3>. QED BY <1>4, <1>5, <3>2, <3>3, <3>4
  <2>5. {rows[r] : r \in page} = {Row(i, board[t][i]) : i \in alive}
    BY <2>3, <2>4
  <2>. QED BY <1>3, <2>2, <2>5
<1>. QED BY <1>7, <1>8

-----------------------------------------------------------------------------
(* What an event does to an entry. *)

AllEvents == [op : {"post", "change", "delete"}, id : Nat, v : Nat]

EventOK(b, n, e) ==
  /\ e.op \in {"post", "change", "delete"}
  /\ e.id \in 1..Len(b) /\ e.v \in 1..n

OneMore(places, more) == \E l : l \notin places /\ more = places \cup {l}

LEMMA AppliedFacts ==
  ASSUME NEW b, NEW n, BoardOK(b, n), NEW c, CacheOK(b, c),
         NEW e, EventOK(b, n, e)
  PROVE  /\ CacheOK(b, Applied(c, e))
         /\ \A i \in Ids \ {e.id} :
              /\ Applied(c, e).messages[i] = c.messages[i]
              /\ Places(Applied(c, e), i) = Places(c, i)
         /\ Applied(c, e).messages[e.id] = IF e.op = "delete" THEN 0 ELSE e.v
         /\ ~(e.op = "post" /\ c.messages[e.id] = 0) =>
              Places(Applied(c, e), e.id) = Places(c, e.id)
         /\ e.op = "post" /\ c.messages[e.id] = 0 =>
              OneMore(Places(c, e.id), Places(Applied(c, e), e.id))
<1>1. /\ c.order \in Seq(1..Len(b))
      /\ c.messages \in [Ids -> Nat]
      /\ c = [messages |-> c.messages, order |-> c.order]
      /\ \A i \in Ids : c.messages[i] # 0 => i <= Len(b)
  BY DEF CacheOK
<1>2. /\ e.id \in 1..Len(b) /\ e.id \in Ids /\ e.v \in Nat /\ e.v # 0
      /\ n \in Nat /\ Len(b) \in Nat
      /\ e.op \in {"post", "change", "delete"}
  BY BoardFacts DEF EventOK
<1>. DEFINE v == IF e.op = "delete" THEN 0 ELSE e.v
            new == e.op = "post" /\ c.messages[e.id] = 0
            d == Applied(c, e)
<1>3. /\ d = [messages |-> d.messages, order |-> d.order]
      /\ d.messages = [c.messages EXCEPT ![e.id] = v]
      /\ d.order = IF new THEN Append(c.order, e.id) ELSE c.order
  <2>1. CASE e.op = "post"
    <3>1. d = [order |-> IF c.messages[e.id] = 0
                         THEN Append(c.order, e.id) ELSE c.order,
               messages |-> [c.messages EXCEPT ![e.id] = e.v]]
      BY <2>1 DEF Applied
    <3>. HIDE DEF d
    <3>. QED BY <2>1, <3>1
  <2>2. CASE e.op = "change"
    <3>1. d = [c EXCEPT !.messages[e.id] = e.v]
      BY <2>2 DEF Applied
    <3>. HIDE DEF d
    <3>. QED BY <1>1, <2>2, <3>1
  <2>3. CASE e.op = "delete"
    <3>1. d = [c EXCEPT !.messages[e.id] = 0]
      BY <2>3 DEF Applied
    <3>. HIDE DEF d
    <3>. QED BY <1>1, <2>3, <3>1
  <2>. QED BY <1>2, <2>1, <2>2, <2>3
<1>4. v \in Nat
  BY <1>2
<1>. HIDE DEF d, new, v
<1>5. /\ d.messages \in [Ids -> Nat] /\ d.messages[e.id] = v
      /\ \A i \in Ids \ {e.id} : d.messages[i] = c.messages[i]
  BY <1>1, <1>2, <1>3, <1>4
<1>6. d.order \in Seq(1..Len(b))
  <2>1. PICK S : S = 1..Len(b)
    OBVIOUS
  <2>2. c.order \in Seq(S) /\ e.id \in S
    BY <1>1, <1>2, <2>1
  <2>3. Append(c.order, e.id) \in Seq(S)
    BY <2>2
  <2>. QED BY <1>3, <2>1, <2>2, <2>3
<1>7. \A i \in Ids : d.messages[i] # 0 => i <= Len(b)
  <2>1. \A i \in Ids \ {e.id} : d.messages[i] # 0 => i <= Len(b)
    BY <1>1, <1>5
  <2>2. e.id <= Len(b)
    BY <1>2
  <2>. QED BY <2>1, <2>2
<1>8. CacheOK(b, d)
  BY <1>3, <1>5, <1>6, <1>7 DEF CacheOK
<1>9. ~new => \A i : Places(d, i) = Places(c, i)
  BY <1>3 DEF Places
<1>10. ASSUME new
       PROVE  /\ \A i : i # e.id => Places(d, i) = Places(c, i)
              /\ OneMore(Places(c, e.id), Places(d, e.id))
  <2>. DEFINE m == Len(c.order) + 1
  <2>1. /\ DOMAIN c.order = 1..m - 1 /\ DOMAIN d.order = 1..m /\ m \in Nat
        /\ \A k \in 1..m - 1 : d.order[k] = c.order[k]
        /\ d.order[m] = e.id
    BY <1>1, <1>2, <1>3, <1>10
  <2>. HIDE DEF m
  <2>2. \A i : i # e.id => Places(d, i) = Places(c, i)
    BY <2>1 DEF Places
  <2>3. m \notin Places(c, e.id)
    BY <2>1 DEF Places
  <2>4. m >= 1
    BY <1>1 DEF m
  <2>5. Places(d, e.id) = Places(c, e.id) \cup {m}
    BY <2>1, <2>4 DEF Places
  <2>. QED BY <2>2, <2>3, <2>5 DEF OneMore
<1>. QED BY <1>2, <1>5, <1>8, <1>9, <1>10 DEF d, new, v

PostOf(p, i) == \E k \in DOMAIN p : p[k].id = i /\ p[k].op = "post"

(* Message i will be shown as it is on the board when the events of p have *)
(* been applied: it is listed already, or will be.                         *)
WillBeRight(b, c, p, i) ==
  /\ (\A k \in DOMAIN p : p[k].id # i) => Right(b, c, i)
  /\ b[i] # 0 =>
       \/ Once(c, i) /\ (c.messages[i] # 0 \/ ~PostOf(p, i))
       \/ ~Listed(c, i) /\ c.messages[i] = 0 /\ PostOf(p, i)

LastOf(p, k) == \A j \in DOMAIN p : j > k => p[j].id # p[k].id

(* The events of a stream: the last about a message tells how it is on the *)
(* board, nothing follows its deletion, and nothing precedes its post.     *)
PendingOK(b, n, p) ==
  /\ p \in Seq(AllEvents)
  /\ \A k \in DOMAIN p : EventOK(b, n, p[k])
  /\ \A k \in DOMAIN p : LastOf(p, k) =>
       b[p[k].id] = IF p[k].op = "delete" THEN 0 ELSE p[k].v
  /\ \A j, k \in DOMAIN p : j < k /\ p[j].id = p[k].id =>
       p[j].op # "delete" /\ p[k].op # "post"

(* What a stream begins with. *)
PostsOnce(b, n, p) ==
  /\ p \in Seq(AllEvents)
  /\ \A k \in DOMAIN p : /\ EventOK(b, n, p[k]) /\ p[k].op = "post"
                         /\ p[k].v = b[p[k].id]
  /\ \A j, k \in DOMAIN p : p[j].id = p[k].id => j = k

LEMMA PastIsPosts ==
  ASSUME NEW t \in Topics, NEW n, BoardOK(board[t], n), NEW from \in Nat
  PROVE  PostsOnce(board[t], n, PastMessages(t, from))
<1>. DEFINE ids == Messages(t, from, MaxEvents + 1)
            p == PastMessages(t, from)
<1>1. /\ \A k \in DOMAIN ids :
           ids[k] \in DOMAIN board[t] /\ board[t][ids[k]] # 0
      /\ \A j, k \in DOMAIN ids : ids[j] = ids[k] => j = k
      /\ DOMAIN ids = 1..Len(ids) /\ Len(ids) \in Nat
  <2>1. MaxEvents + 1 \in Nat
    BY GuiClientAssumption
  <2>. DEFINE alive == {i \in DOMAIN board[t] :
                          from <= i /\ i < MaxEvents + 1 /\ board[t][i] # 0}
  <2>2. /\ ids \in Seq(alive)
        /\ \A j, k \in DOMAIN ids : ids[j] = ids[k] => j = k
    <3>1. board[t] \in Seq(Nat)
      BY DEF BoardOK
    <3>. QED BY <2>1, <3>1, MessagesAreAlive, Zenon
  <2>3. /\ \A k \in DOMAIN ids : ids[k] \in alive
        /\ DOMAIN ids = 1..Len(ids) /\ Len(ids) \in Nat
    <3>. HIDE DEF ids, alive
    <3>. QED BY <2>2
  <2>. QED BY <2>2, <2>3
<1>2. p = [k \in DOMAIN ids |-> [op |-> "post", id |-> ids[k],
                                 v |-> board[t][ids[k]]]]
  BY DEF PastMessages, Event
<1>3. \A i \in DOMAIN board[t] : /\ i \in 1..Len(board[t])
                                 /\ board[t][i] # 0 => board[t][i] \in 1..n
  BY BoardFacts DEF BoardOK
<1>. HIDE DEF ids, p
<1>4. DOMAIN p = 1..Len(ids) /\ Len(p) = Len(ids)
  BY <1>1, <1>2
<1>5. \A k \in DOMAIN p : /\ p[k].op = "post" /\ p[k].id = ids[k]
                          /\ p[k].v = board[t][ids[k]]
  BY <1>1, <1>2, <1>4
<1>6. \A k \in DOMAIN p : EventOK(board[t], n, p[k])
  BY <1>1, <1>3, <1>4, <1>5 DEF EventOK
<1>7. p \in Seq(AllEvents)
  <2>1. ASSUME NEW k \in 1..Len(ids) PROVE p[k] \in AllEvents
    <3>1. p[k] = [op |-> "post", id |-> ids[k], v |-> board[t][ids[k]]]
      BY <1>1, <1>2, <2>1
    <3>2. ids[k] \in Nat /\ board[t][ids[k]] \in Nat
      BY <1>1, BoardFacts
    <3>. HIDE DEF AllEvents
    <3>. QED BY <3>1, <3>2 DEF AllEvents
  <2>2. p \in [1..Len(ids) -> AllEvents]
    BY <1>1, <1>2, <2>1
  <2>. QED BY <1>1, <2>2
<1>. QED BY <1>1, <1>4, <1>5, <1>6, <1>7 DEF PostsOnce, p

LEMMA PostsArePending ==
  ASSUME NEW b, NEW n, NEW p, PostsOnce(b, n, p)
  PROVE  PendingOK(b, n, p)
BY DEF PostsOnce, PendingOK

(* What reading posts, one of each message, makes of message i.            *)
LEMMA PostsAreShown ==
  ASSUME NEW b, NEW n, BoardOK(b, n), NEW c, CacheOK(b, c),
         NEW p, PostsOnce(b, n, p), NEW i \in Ids
  PROVE  LET d == FoldLeft(Applied, c, p)
         IN  /\ CacheOK(b, d)
             /\ ~PostOf(p, i) => /\ d.messages[i] = c.messages[i]
                                 /\ Places(d, i) = Places(c, i)
             /\ PostOf(p, i) =>
                  IF c.messages[i] # 0 THEN Places(d, i) = Places(c, i)
                  ELSE OneMore(Places(c, i), Places(d, i))
<1>. DEFINE Posted(k) == \E j \in 1..k : p[j].id = i
            Shown(d, k) ==
              /\ CacheOK(b, d)
              /\ ~Posted(k) => /\ d.messages[i] = c.messages[i]
                               /\ Places(d, i) = Places(c, i)
              /\ Posted(k) =>
                   IF c.messages[i] # 0 THEN Places(d, i) = Places(c, i)
                   ELSE OneMore(Places(c, i), Places(d, i))
<1>1. DOMAIN p = 1..Len(p) /\ Len(p) \in Nat
  BY DEF PostsOnce
<1>2. PICK f : IsTrace(f, c, p) /\ FoldLeft(Applied, c, p) = f[Len(p)]
  BY <1>1, FoldIsTrace
<1>3. Shown(f[0], 0)
  BY <1>2 DEF IsTrace
<1>4. ASSUME NEW k \in 1..Len(p), Shown(f[k - 1], k - 1)
      PROVE  Shown(f[k], k)
  <2>. DEFINE was == f[k - 1]
              e == p[k]
  <2>1. f[k] = Applied(was, e)
    BY <1>2 DEF IsTrace
  <2>2. /\ EventOK(b, n, e) /\ e.op = "post" /\ e.v = b[e.id]
        /\ \A j \in 1..k - 1 : p[j].id # e.id
    BY <1>1 DEF PostsOnce
  <2>3. Posted(k) <=> Posted(k - 1) \/ e.id = i
    OBVIOUS
  <2>4. CacheOK(b, was)
    BY <1>4
  <2>5. CASE e.id # i
    <3>1. /\ CacheOK(b, f[k]) /\ f[k].messages[i] = was.messages[i]
          /\ Places(f[k], i) = Places(was, i)
      BY <2>1, <2>2, <2>4, <2>5, AppliedFacts
    <3>. HIDE DEF was
    <3>. QED BY <1>4, <2>3, <2>5, <3>1 DEF was
  <2>6. CASE e.id = i
    <3>1. ~Posted(k - 1)
      BY <2>2, <2>6
    <3>2. was.messages[i] = c.messages[i] /\ Places(was, i) = Places(c, i)
      BY <1>4, <3>1
    <3>3. /\ CacheOK(b, f[k])
          /\ IF was.messages[i] # 0 THEN Places(f[k], i) = Places(was, i)
             ELSE OneMore(Places(was, i), Places(f[k], i))
      <4>. HIDE DEF was, e
      <4>1. /\ CacheOK(b, Applied(was, e))
            /\ ~(e.op = "post" /\ was.messages[e.id] = 0) =>
                 Places(Applied(was, e), e.id) = Places(was, e.id)
            /\ e.op = "post" /\ was.messages[e.id] = 0 =>
                 OneMore(Places(was, e.id), Places(Applied(was, e), e.id))
        <5>1. EventOK(b, n, e)
          BY <2>2
        <5>2. CacheOK(b, Applied(was, e))
          BY <2>4, <5>1, AppliedFacts
        <5>3. ~(e.op = "post" /\ was.messages[e.id] = 0) =>
                Places(Applied(was, e), e.id) = Places(was, e.id)
          BY <2>4, <5>1, AppliedFacts
        <5>4. e.op = "post" /\ was.messages[e.id] = 0 =>
                OneMore(Places(was, e.id), Places(Applied(was, e), e.id))
          BY <2>4, <5>1, AppliedFacts
        <5>. QED BY <5>2, <5>3, <5>4
      <4>2. /\ CacheOK(b, f[k])
            /\ was.messages[e.id] # 0 => Places(f[k], e.id) = Places(was, e.id)
            /\ was.messages[e.id] = 0 =>
                 OneMore(Places(was, e.id), Places(f[k], e.id))
        BY <2>1, <2>2, <4>1
      <4>. QED BY <2>6, <4>2
    <3>. QED BY <2>3, <2>6, <3>2, <3>3
  <2>. QED BY <2>5, <2>6
<1>. HIDE DEF Shown, Posted
<1>. DEFINE Bad == {k \in 0..Len(p) : ~Shown(f[k], k)}
<1>5. Bad = {}
  <2>. SUFFICES ASSUME Bad # {} PROVE FALSE
    OBVIOUS
  <2>1. Bad \subseteq Nat
    BY <1>1
  <2>2. PICK m \in Bad : \A k \in Bad : ~(<<k, m>> \in OpToRel(<, Nat))
    <3>. HIDE DEF Bad
    <3>. QED BY <2>1, NatLessThanWellFounded, WFMin
  <2>3. \A k \in Bad : ~(k < m)
    BY <2>1, <2>2 DEF OpToRel
  <2>4. m # 0
    BY <1>3
  <2>5. m \in 1..Len(p) /\ m - 1 \in 0..Len(p) /\ m - 1 < m
    BY <1>1, <2>4
  <2>6. Shown(f[m - 1], m - 1)
    BY <2>3, <2>5
  <2>. QED BY <1>4, <2>5, <2>6
<1>6. Shown(f[Len(p)], Len(p))
  BY <1>1, <1>5
<1>7. Posted(Len(p)) <=> PostOf(p, i)
  BY <1>1 DEF Posted, PostOf, PostsOnce
<1>. QED BY <1>2, <1>6, <1>7 DEF Shown

(* If the cache will be the board when the posts have been read, every     *)
(* message will be right.                                                  *)
LEMMA StreamBeginsRight ==
  ASSUME NEW t \in Topics, NEW n, BoardOK(board[t], n),
         NEW c, CacheOK(board[t], c),
         NEW p, PostsOnce(board[t], n, p),
         IsTheBoard(t, FoldLeft(Applied, c, p))
  PROVE  \A i \in OnPage(board[t]) : WillBeRight(board[t], c, p, i)
<1>. SUFFICES ASSUME NEW i \in OnPage(board[t])
     PROVE  WillBeRight(board[t], c, p, i)
  OBVIOUS
<1>. DEFINE d == FoldLeft(Applied, c, p)
<1>1. i \in Ids /\ i \in 1..Len(board[t])
  BY BoardFacts
<1>2. /\ CacheOK(board[t], d)
      /\ ~PostOf(p, i) => /\ d.messages[i] = c.messages[i]
                          /\ Places(d, i) = Places(c, i)
      /\ PostOf(p, i) =>
           IF c.messages[i] # 0 THEN Places(d, i) = Places(c, i)
           ELSE OneMore(Places(c, i), Places(d, i))
  BY <1>1, PostsAreShown
<1>. HIDE DEF d
<1>3. Right(board[t], d, i)
  BY <1>2, BoardIsAllRight DEF d
<1>4. CASE ~PostOf(p, i)
  <2>1. Right(board[t], c, i)
    BY <1>2, <1>3, <1>4 DEF Right, Once, Listed
  <2>. QED BY <1>4, <2>1 DEF WillBeRight, Right
<1>5. CASE PostOf(p, i)
  <2>1. ~\A k \in DOMAIN p : p[k].id # i
    BY <1>5 DEF PostOf
  <2>2. board[t][i] # 0 => Once(d, i)
    BY <1>3 DEF Right
  <2>3. CASE c.messages[i] # 0
    BY <1>2, <1>5, <2>1, <2>2, <2>3 DEF WillBeRight, Once
  <2>4. CASE c.messages[i] = 0
    <3>1. Once(d, i) => ~Listed(c, i)
      BY <1>2, <1>5, <2>4 DEF Once, Listed, OneMore
    <3>. QED BY <1>5, <2>1, <2>2, <2>4, <3>1 DEF WillBeRight
  <2>. QED BY <2>3, <2>4
<1>. QED BY <1>4, <1>5

-----------------------------------------------------------------------------
(* What has been read of the board. *)

(* Each message that a page shows is there once. *)
PageOK(c) ==
  \A i \in Ids : IF c.messages[i] # 0 THEN Once(c, i) ELSE ~Listed(c, i)

(* What a page of the time asOf lacks of message i is among the events of  *)
(* a stream, which makes up for it.                                        *)
Later(b, page, asOf, p, i) ==
  \E k \in DOMAIN p :
    /\ p[k].id = i /\ p[k].v > asOf
    /\ b[i] = 0 \/ Listed(page, i) \/ p[k].op = "post"

LEMMA PageIsRight ==
  ASSUME NEW t \in Topics, NEW n, BoardOK(board[t], n)
  PROVE  /\ CacheOK(board[t], Page(t)) /\ PageOK(Page(t))
         /\ \A i \in OnPage(board[t]) : Right(board[t], Page(t), i)
<1>. DEFINE c == Page(t)
            ids == Messages(t, 0, Limit)
            alive == {i \in DOMAIN board[t] :
                        0 <= i /\ i < Limit /\ board[t][i] # 0}
            b == board[t]
<1>1. /\ DOMAIN b = 1..Len(b) /\ Len(b) \in Nat /\ 1..Len(b) \subseteq Ids
      /\ \A i \in 1..Len(b) : b[i] \in Nat
      /\ OnPage(b) = {i \in 1..Len(b) : i < Limit}
  BY BoardFacts DEF OnPage
<1>2. /\ ids \in Seq(alive) /\ ToSet(ids) = alive
      /\ \A j, k \in DOMAIN ids : ids[j] = ids[k] => j = k
  <2>1. b \in Seq(Nat)
    BY DEF BoardOK
  <2>2. 0 \in Nat /\ Limit \in Nat
    BY BoardFacts
  <2>. QED BY <2>1, <2>2, MessagesAreAlive, Zenon
<1>3. /\ c = [messages |-> c.messages, order |-> c.order] /\ c.order = ids
      /\ c.messages = [i \in Ids |-> IF i \in ToSet(ids) THEN b[i] ELSE 0]
  BY DEF Page
<1>4. alive = {i \in 1..Len(b) : i < Limit /\ b[i] # 0}
  BY <1>1
<1>. HIDE DEF alive, c, ids, b
<1>5. alive \subseteq 1..Len(b) /\ alive \subseteq Ids
  BY <1>1, <1>4
<1>6. c.messages \in [Ids -> Nat]
  <2>1. \A i \in alive : b[i] \in Nat
    BY <1>1, <1>5
  <2>. QED BY <1>2, <1>3, <2>1
<1>7. \A i \in Ids : c.messages[i] # 0 <=> i \in alive
  BY <1>2, <1>3, <1>4
<1>8. \A i \in alive : c.messages[i] = b[i]
  BY <1>2, <1>3, <1>5
<1>9. c.order \in Seq(1..Len(b))
  <2>1. PICK S : S = 1..Len(b)
    OBVIOUS
  <2>2. alive \subseteq S /\ c.order \in Seq(alive)
    BY <1>2, <1>3, <1>5, <2>1
  <2>3. c.order \in Seq(S)
    BY <2>2
  <2>. QED BY <2>1, <2>3
<1>10. \A i : IF i \in alive THEN Once(c, i) ELSE ~Listed(c, i)
  <2>1. \A k \in DOMAIN ids : ids[k] \in alive
    BY <1>2
  <2>2. \A i \in alive : \E k \in DOMAIN ids : ids[k] = i
    BY <1>2 DEF ToSet
  <2>3. ASSUME NEW i \in alive PROVE Once(c, i)
    <3>1. PICK k \in DOMAIN ids : ids[k] = i
      BY <2>2
    <3>2. Places(c, i) = {k}
      BY <1>2, <1>3, <3>1 DEF Places
    <3>. QED BY <3>2 DEF Once
  <2>4. ASSUME NEW i, i \notin alive PROVE ~Listed(c, i)
    BY <1>3, <2>1, <2>4 DEF Listed, Places
  <2>. QED BY <2>3, <2>4
<1>11. CacheOK(b, c)
  <2>1. \A i \in Ids : c.messages[i] # 0 => i <= Len(b)
    BY <1>1, <1>5, <1>7
  <2>2. c \in [messages : [Ids -> Nat], order : Seq(1..Len(b))]
    <3>1. PICK S : S = Seq(1..Len(b))
      OBVIOUS
    <3>2. c.order \in S
      BY <1>9, <3>1
    <3>3. c \in [messages : [Ids -> Nat], order : S]
      BY <1>3, <1>6, <3>2
    <3>. QED BY <3>1, <3>3
  <2>. QED BY <2>1, <2>2 DEF CacheOK
<1>12. PageOK(c)
  BY <1>7, <1>10 DEF PageOK
<1>13. \A i \in OnPage(b) : Right(b, c, i)
  <2>. SUFFICES ASSUME NEW i \in OnPage(b) PROVE Right(b, c, i)
    OBVIOUS
  <2>1. i \in Ids /\ (i \in alive <=> b[i] # 0)
    BY <1>1, <1>4
  <2>. QED BY <1>7, <1>8, <1>10, <2>1 DEF Right
<1>. QED BY <1>11, <1>12, <1>13 DEF b, c

(* A new entry has nothing. *)
LEMMA NewEntryOK ==
  ASSUME NEW b, Len(b) \in Nat
  PROVE  CacheOK(b, NewEntry)
<1>1. <<>> \in Seq(1..Len(b)) /\ [i \in Ids |-> 0] \in [Ids -> Nat]
  OBVIOUS
<1>. QED BY <1>1 DEF CacheOK, NewEntry

(* There is an entry where something has been stored. *)
LEMMA EntryIsThere ==
  ASSUME NEW b, Len(b) \in Nat, NEW c, CacheOK(b, c)
  PROVE  c # None
<1>1. Seq(1..Len(b)) \subseteq Seq(Nat)
  OBVIOUS
<1>2. c \in [messages : [Ids -> Nat], order : Seq(Nat)]
  BY <1>1 DEF CacheOK
<1>. QED BY <1>2, CacheAssumption DEF Ids

-----------------------------------------------------------------------------
(* An event happens on the board. *)

Publishes(b, n, bb, e) ==
  /\ e \in AllEvents /\ e.v = n + 1
  /\ \/ e.op = "post" /\ e.id = Len(b) + 1 /\ bb = Append(b, e.v)
     \/ /\ e.op \in {"change", "delete"}
        /\ e.id \in DOMAIN b /\ b[e.id] # 0
        /\ bb = [b EXCEPT ![e.id] = IF e.op = "delete" THEN 0 ELSE e.v]

LEMMA PublishFacts ==
  ASSUME NEW b, NEW n, BoardOK(b, n), n < MaxEvents,
         NEW bb, NEW e, Publishes(b, n, bb, e)
  PROVE  /\ BoardOK(bb, n + 1) /\ EventOK(bb, n + 1, e)
         /\ Len(b) \in Nat /\ Len(bb) \in Nat /\ Len(b) <= Len(bb)
         /\ 1..Len(bb) \subseteq 1..Len(b) \cup {e.id}
         /\ OnPage(bb) \subseteq OnPage(b) \cup {e.id}
         /\ \A i \in 1..Len(b) : i # e.id => bb[i] = b[i]
         /\ bb[e.id] = IF e.op = "delete" THEN 0 ELSE e.v
         /\ IF e.op = "post" THEN e.id = Len(b) + 1
            ELSE /\ e.id \in 1..Len(b) /\ b[e.id] # 0
                 /\ e.id < Limit => e.id \in OnPage(b)
<1>1. /\ n \in 0..MaxEvents /\ b \in Seq(0..n) /\ Len(b) <= n
      /\ n \in Nat /\ Len(b) \in Nat /\ DOMAIN b = 1..Len(b)
      /\ \A i \in 1..Len(b) : b[i] \in 0..n
      /\ MaxEvents \in Nat /\ e.v = n + 1
      /\ e.op \in {"post", "change", "delete"}
      /\ e.v \in 0..n + 1 /\ n + 1 \in 0..MaxEvents
  BY GuiClientAssumption DEF BoardOK, Publishes, AllEvents
<1>2. CASE e.op = "post"
  <2>1. e.id = Len(b) + 1 /\ bb = Append(b, e.v)
    BY <1>2 DEF Publishes
  <2>2. /\ Len(bb) = Len(b) + 1 /\ DOMAIN bb = 1..Len(b) + 1
        /\ \A i \in 1..Len(b) : bb[i] = b[i]
        /\ bb[e.id] = e.v
    BY <1>1, <2>1
  <2>3. bb \in Seq(0..n + 1)
    <3>1. PICK S : S = 0..n + 1
      OBVIOUS
    <3>2. b \in Seq(S) /\ e.v \in S
      BY <1>1, <3>1
    <3>3. bb \in Seq(S)
      BY <2>1, <3>2
    <3>. QED BY <3>1, <3>3
  <2>4. BoardOK(bb, n + 1)
    BY <1>1, <2>2, <2>3 DEF BoardOK
  <2>5. EventOK(bb, n + 1, e)
    BY <1>1, <2>1, <2>2 DEF EventOK
  <2>. QED BY <1>1, <1>2, <2>1, <2>2, <2>4, <2>5 DEF OnPage
<1>3. CASE e.op # "post"
  <2>. DEFINE v == IF e.op = "delete" THEN 0 ELSE e.v
  <2>1. /\ e.id \in 1..Len(b) /\ b[e.id] # 0 /\ bb = [b EXCEPT ![e.id] = v]
    BY <1>1, <1>3 DEF Publishes
  <2>2. v \in 0..n + 1
    BY <1>1
  <2>. HIDE DEF v
  <2>3. /\ Len(bb) = Len(b) /\ DOMAIN bb = 1..Len(b)
        /\ \A i \in 1..Len(b) : i # e.id => bb[i] = b[i]
        /\ bb[e.id] = v
    BY <1>1, <2>1
  <2>4. bb \in Seq(0..n + 1)
    <3>1. PICK S : S = 0..n + 1
      OBVIOUS
    <3>2. b \in Seq(S) /\ v \in S
      BY <1>1, <2>2, <3>1
    <3>3. bb \in Seq(S)
      BY <1>1, <2>1, <3>2
    <3>. QED BY <3>1, <3>3
  <2>5. BoardOK(bb, n + 1)
    BY <1>1, <2>3, <2>4 DEF BoardOK
  <2>6. EventOK(bb, n + 1, e)
    BY <1>1, <2>1, <2>3 DEF EventOK
  <2>7. OnPage(bb) = OnPage(b) /\ (e.id < Limit => e.id \in OnPage(b))
    BY <1>1, <2>1, <2>3 DEF OnPage
  <2>8. 1..Len(bb) = 1..Len(b)
    BY <2>3
  <2>9. e.id \in 1..Len(b) /\ b[e.id] # 0
    BY <2>1
  <2>. QED BY <1>1, <1>3, <2>3, <2>5, <2>6, <2>7, <2>8, <2>9 DEF v
<1>. QED BY <1>2, <1>3

LEMMA CacheGrows ==
  ASSUME NEW b, NEW bb, Len(b) \in Nat, Len(bb) \in Nat, Len(b) <= Len(bb),
         NEW c, CacheOK(b, c)
  PROVE  CacheOK(bb, c)
<1>1. Seq(1..Len(b)) \subseteq Seq(1..Len(bb))
  <2>1. PICK S : S = 1..Len(b)
    OBVIOUS
  <2>2. PICK T : T = 1..Len(bb)
    OBVIOUS
  <2>3. S \subseteq T
    BY <2>1, <2>2
  <2>4. Seq(S) \subseteq Seq(T)
    BY <2>3
  <2>. QED BY <2>1, <2>2, <2>4
<1>2. c \in [messages : [Ids -> Nat], order : Seq(1..Len(bb))]
  BY <1>1 DEF CacheOK
<1>3. Ids \subseteq Nat
  BY DEF Ids
<1>4. \A i \in Ids : c.messages[i] # 0 => i <= Len(bb)
  BY <1>3 DEF CacheOK
<1>. QED BY <1>2, <1>4 DEF CacheOK

LEMMA EventGrows ==
  ASSUME NEW b, NEW bb, Len(b) \in Nat, Len(bb) \in Nat, Len(b) <= Len(bb),
         NEW n \in Nat, NEW e, EventOK(b, n, e)
  PROVE  EventOK(bb, n + 1, e)
BY DEF EventOK

(* The events before it of the stream. *)
LEMMA AppendFacts ==
  ASSUME NEW p \in Seq(AllEvents), NEW e \in AllEvents
  PROVE  LET q == Append(p, e)
         IN  /\ q \in Seq(AllEvents) /\ Len(p) \in Nat
             /\ DOMAIN p = 1..Len(p) /\ DOMAIN q = 1..Len(p) + 1
             /\ Len(q) = Len(p) + 1
             /\ \A k \in 1..Len(p) : q[k] = p[k]
             /\ q[Len(p) + 1] = e
<1>. HIDE DEF AllEvents
<1>. QED OBVIOUS

LEMMA PendingGrows ==
  ASSUME NEW b, NEW n, BoardOK(b, n), n < MaxEvents,
         NEW bb, NEW e, Publishes(b, n, bb, e),
         NEW p, PendingOK(b, n, p)
  PROVE  PendingOK(bb, n + 1, Append(p, e))
<1>. DEFINE q == Append(p, e)
            l == Len(p) + 1
<1>1. /\ q \in Seq(AllEvents) /\ l - 1 \in Nat /\ l \in Nat
      /\ DOMAIN p = 1..l - 1 /\ DOMAIN q = 1..l
      /\ \A k \in 1..l - 1 : q[k] = p[k]
      /\ q[l] = e
  BY AppendFacts DEF PendingOK, Publishes
<1>. HIDE DEF q, l
<1>2. /\ EventOK(bb, n + 1, e) /\ n \in Nat
      /\ Len(b) \in Nat /\ Len(bb) \in Nat /\ Len(b) <= Len(bb)
      /\ \A i \in 1..Len(b) : i # e.id => bb[i] = b[i]
      /\ bb[e.id] = IF e.op = "delete" THEN 0 ELSE e.v
      /\ e.op = "post" => e.id \notin 1..Len(b)
      /\ e.op # "post" => b[e.id] # 0
  BY PublishFacts, BoardFacts
<1>3. \A k \in 1..l - 1 : EventOK(b, n, p[k]) /\ p[k].id \in 1..Len(b)
  BY <1>1 DEF PendingOK, EventOK
<1>4. \A k \in DOMAIN q : EventOK(bb, n + 1, q[k])
  <2>. SUFFICES ASSUME NEW k \in 1..l PROVE EventOK(bb, n + 1, q[k])
    BY <1>1
  <2>1. CASE k = l
    BY <1>1, <1>2, <2>1
  <2>2. CASE k # l
    <3>1. k \in 1..l - 1
      BY <1>1, <2>2
    <3>2. EventOK(bb, n + 1, p[k])
      BY <1>2, <1>3, <3>1, EventGrows
    <3>. QED BY <1>1, <3>1, <3>2
  <2>. QED BY <2>1, <2>2
<1>5. ASSUME NEW k \in DOMAIN q, LastOf(q, k)
      PROVE  bb[q[k].id] = IF q[k].op = "delete" THEN 0 ELSE q[k].v
  <2>1. CASE k = l
    BY <1>1, <1>2, <2>1
  <2>2. CASE k # l
    <3>1. k \in 1..l - 1 /\ k < l /\ l \in DOMAIN q
      BY <1>1, <2>2
    <3>2. p[k].id # e.id /\ p[k].id \in 1..Len(b)
      BY <1>1, <1>3, <1>5, <3>1 DEF LastOf
    <3>3. LastOf(p, k)
      BY <1>1, <1>5, <3>1 DEF LastOf
    <3>4. b[p[k].id] = IF p[k].op = "delete" THEN 0 ELSE p[k].v
      BY <1>1, <3>1, <3>3 DEF PendingOK
    <3>. QED BY <1>1, <1>2, <3>1, <3>2, <3>4
  <2>. QED BY <2>1, <2>2
<1>6. ASSUME NEW j \in DOMAIN q, NEW k \in DOMAIN q, j < k, q[j].id = q[k].id
      PROVE  q[j].op # "delete" /\ q[k].op # "post"
  <2>1. j \in 1..l - 1 /\ q[j] = p[j]
    BY <1>1, <1>6
  <2>2. CASE k = l
    <3>1. p[j].id = e.id
      BY <1>1, <1>6, <2>1, <2>2
    <3>2. e.op # "post"
      BY <1>2, <1>3, <2>1, <3>1
    <3>3. ASSUME p[j].op = "delete" PROVE FALSE
      <4>1. LastOf(p, j)
        BY <1>1, <2>1, <3>3 DEF PendingOK, LastOf
      <4>2. b[e.id] = 0
        BY <1>1, <2>1, <3>1, <3>3, <4>1 DEF PendingOK
      <4>. QED BY <1>2, <3>2, <4>2
    <3>. QED BY <1>1, <2>1, <2>2, <3>2, <3>3
  <2>3. CASE k # l
    <3>1. k \in 1..l - 1 /\ q[k] = p[k]
      BY <1>1, <2>3
    <3>. QED BY <1>1, <1>6, <2>1, <3>1 DEF PendingOK
  <2>. QED BY <2>2, <2>3
<1>. QED BY <1>1, <1>4, <1>5, <1>6 DEF PendingOK, q

LEMMA OutlookGrows ==
  ASSUME NEW b, NEW n, BoardOK(b, n), n < MaxEvents,
         NEW bb, NEW e, Publishes(b, n, bb, e),
         NEW c, CacheOK(b, c), NEW p, PendingOK(b, n, p),
         \A i \in OnPage(b) : WillBeRight(b, c, p, i)
  PROVE  \A i \in OnPage(bb) : WillBeRight(bb, c, Append(p, e), i)
<1>. DEFINE q == Append(p, e)
            l == Len(p) + 1
<1>1. /\ q \in Seq(AllEvents) /\ l - 1 \in Nat /\ l \in Nat
      /\ DOMAIN p = 1..l - 1 /\ DOMAIN q = 1..l
      /\ \A k \in 1..l - 1 : q[k] = p[k]
      /\ q[l] = e
  BY AppendFacts DEF PendingOK, Publishes
<1>. HIDE DEF q, l
<1>2. /\ OnPage(bb) \subseteq OnPage(b) \cup {e.id}
      /\ OnPage(b) \subseteq 1..Len(b) /\ Len(b) \in Nat
      /\ \A i \in 1..Len(b) : i # e.id => bb[i] = b[i]
      /\ bb[e.id] = IF e.op = "delete" THEN 0 ELSE e.v
      /\ \A i \in OnPage(bb) : i < Limit
      /\ IF e.op = "post" THEN e.id = Len(b) + 1
         ELSE b[e.id] # 0 /\ (e.id < Limit => e.id \in OnPage(b))
      /\ EventOK(bb, n + 1, e)
  BY PublishFacts, BoardFacts DEF OnPage
<1>. SUFFICES ASSUME NEW i \in OnPage(bb) PROVE WillBeRight(bb, c, q, i)
  BY DEF q
<1>3. PostOf(q, i) <=> PostOf(p, i) \/ (e.id = i /\ e.op = "post")
  BY <1>1 DEF PostOf
<1>4. CASE i # e.id
  <2>1. i \in OnPage(b) /\ bb[i] = b[i]
    BY <1>2, <1>4
  <2>2. WillBeRight(b, c, p, i)
    BY <2>1
  <2>3. (\A k \in DOMAIN q : q[k].id # i) => \A k \in DOMAIN p : p[k].id # i
    BY <1>1
  <2>4. Right(bb, c, i) <=> Right(b, c, i)
    BY <2>1 DEF Right
  <2>. QED BY <1>3, <1>4, <2>1, <2>2, <2>3, <2>4 DEF WillBeRight
<1>5. CASE i = e.id
  <2>1. ~\A k \in DOMAIN q : q[k].id # i
    BY <1>1, <1>5
  <2>2. CASE e.op = "post"
    <3>1. i \in Ids /\ i = Len(b) + 1
      BY <1>2, <1>5, <2>2, PublishFacts, BoardFacts
    <3>2. c.messages[i] = 0
      BY <1>2, <3>1 DEF CacheOK
    <3>3. ~Listed(c, i)
      <4>1. c.order \in Seq(1..Len(b))
        BY DEF CacheOK
      <4>2. \A k \in DOMAIN c.order : c.order[k] \in 1..Len(b)
        BY <4>1
      <4>. QED BY <1>2, <3>1, <4>2 DEF Listed, Places
    <3>. QED BY <1>3, <1>5, <2>1, <2>2, <3>2, <3>3 DEF WillBeRight
  <2>3. CASE e.op # "post"
    <3>1. i \in OnPage(b) /\ b[i] # 0
      BY <1>2, <1>5, <2>3
    <3>2. WillBeRight(b, c, p, i)
      BY <3>1
    <3>. QED BY <1>3, <1>5, <2>1, <2>3, <3>1, <3>2 DEF WillBeRight
  <2>. QED BY <2>2, <2>3
<1>. QED BY <1>4, <1>5

(* What makes up for an old page. *)
MadeUp(b, page, asOf, p) ==
  \A i \in OnPage(b) : Right(b, page, i) \/ Later(b, page, asOf, p, i)

LEMMA MadeUpGrows ==
  ASSUME NEW b, NEW n, BoardOK(b, n), n < MaxEvents,
         NEW bb, NEW e, Publishes(b, n, bb, e),
         NEW page, CacheOK(b, page), PageOK(page),
         NEW asOf \in 0..n, NEW p, PendingOK(b, n, p),
         MadeUp(b, page, asOf, p)
  PROVE  MadeUp(bb, page, asOf, Append(p, e))
<1>. DEFINE q == Append(p, e)
            l == Len(p) + 1
<1>1. /\ q \in Seq(AllEvents) /\ l - 1 \in Nat /\ l \in Nat
      /\ DOMAIN p = 1..l - 1 /\ DOMAIN q = 1..l
      /\ \A k \in 1..l - 1 : q[k] = p[k]
      /\ q[l] = e
  BY AppendFacts DEF PendingOK, Publishes
<1>. HIDE DEF q, l
<1>2. /\ OnPage(bb) \subseteq OnPage(b) \cup {e.id}
      /\ OnPage(b) \subseteq 1..Len(b) /\ Len(b) \in Nat
      /\ \A i \in 1..Len(b) : i # e.id => bb[i] = b[i]
      /\ bb[e.id] = IF e.op = "delete" THEN 0 ELSE e.v
      /\ \A i \in OnPage(bb) : i < Limit
      /\ IF e.op = "post" THEN e.id = Len(b) + 1
         ELSE b[e.id] # 0 /\ (e.id < Limit => e.id \in OnPage(b))
      /\ 1..Len(b) \subseteq Ids
  BY PublishFacts, BoardFacts DEF OnPage
<1>3. e.v > asOf
  BY DEF Publishes, BoardOK
<1>. SUFFICES ASSUME NEW i \in OnPage(bb)
              PROVE  Right(bb, page, i) \/ Later(bb, page, asOf, q, i)
  BY DEF MadeUp, q
<1>4. CASE i # e.id
  <2>1. i \in OnPage(b) /\ bb[i] = b[i]
    BY <1>2, <1>4
  <2>2. Right(b, page, i) => Right(bb, page, i)
    BY <2>1 DEF Right
  <2>3. Later(b, page, asOf, p, i) => Later(bb, page, asOf, q, i)
    BY <1>1, <2>1 DEF Later
  <2>. QED BY <2>1, <2>2, <2>3 DEF MadeUp
<1>5. CASE i = e.id /\ e.op # "change"
  <2>1. e.op = "delete" => bb[i] = 0
    BY <1>2, <1>5
  <2>2. l \in DOMAIN q /\ q[l].id = i /\ q[l].v > asOf
    BY <1>1, <1>3, <1>5
  <2>3. e.op \in {"post", "delete"}
    BY <1>5 DEF Publishes
  <2>. QED BY <1>1, <2>1, <2>2, <2>3 DEF Later
<1>6. CASE i = e.id /\ e.op = "change"
  <2>1. i \in OnPage(b) /\ b[i] # 0 /\ i \in Ids
    BY <1>2, <1>6
  <2>2. l \in DOMAIN q /\ q[l].id = i /\ q[l].v > asOf
    BY <1>1, <1>3, <1>6
  <2>3. CASE Listed(page, i)
    BY <2>2, <2>3 DEF Later
  <2>4. CASE ~Listed(page, i)
    <3>1. ~Right(b, page, i)
      BY <2>1, <2>4 DEF Right, Once, Listed
    <3>2. PICK k \in DOMAIN p : p[k].id = i /\ p[k].v > asOf /\ p[k].op = "post"
      BY <2>1, <2>4, <3>1 DEF MadeUp, Later
    <3>3. k \in DOMAIN q /\ q[k] = p[k]
      BY <1>1
    <3>. QED BY <3>2, <3>3 DEF Later
  <2>. QED BY <2>3, <2>4
<1>. QED BY <1>4, <1>5, <1>6

-----------------------------------------------------------------------------
(* A stream is read. *)

LEMMA TailFacts ==
  ASSUME NEW p \in Seq(AllEvents), p # <<>>
  PROVE  /\ Len(p) \in Nat /\ Len(p) >= 1 /\ DOMAIN p = 1..Len(p)
         /\ Tail(p) \in Seq(AllEvents) /\ DOMAIN Tail(p) = 1..Len(p) - 1
         /\ \A k \in 1..Len(p) - 1 : Tail(p)[k] = p[k + 1]
         /\ Head(p) = p[1]
<1>. HIDE DEF AllEvents
<1>. QED OBVIOUS

LEMMA PendingRead ==
  ASSUME NEW b, NEW n, NEW p, PendingOK(b, n, p), p # <<>>
  PROVE  PendingOK(b, n, Tail(p)) /\ EventOK(b, n, Head(p))
<1>. DEFINE q == Tail(p)
            l == Len(p)
<1>1. /\ l \in Nat /\ l >= 1 /\ DOMAIN p = 1..l
      /\ q \in Seq(AllEvents) /\ DOMAIN q = 1..l - 1
      /\ \A k \in 1..l - 1 : q[k] = p[k + 1]
      /\ Head(p) = p[1]
  BY TailFacts DEF PendingOK
<1>. HIDE DEF q, l
<1>2. \A k \in 1..l - 1 : k + 1 \in DOMAIN p
  BY <1>1
<1>3. ASSUME NEW k \in DOMAIN q, LastOf(q, k)
      PROVE  b[q[k].id] = IF q[k].op = "delete" THEN 0 ELSE q[k].v
  <2>1. LastOf(p, k + 1)
    <3>. SUFFICES ASSUME NEW j \in DOMAIN p, j > k + 1
                  PROVE  p[j].id # p[k + 1].id
      BY DEF LastOf
    <3>1. j - 1 \in DOMAIN q /\ j - 1 > k /\ q[j - 1] = p[j] /\ q[k] = p[k + 1]
      BY <1>1
    <3>. QED BY <1>3, <3>1 DEF LastOf
  <2>. QED BY <1>1, <1>2, <2>1 DEF PendingOK
<1>4. ASSUME NEW j \in DOMAIN q, NEW k \in DOMAIN q, j < k, q[j].id = q[k].id
      PROVE  q[j].op # "delete" /\ q[k].op # "post"
  <2>1. j + 1 \in DOMAIN p /\ k + 1 \in DOMAIN p /\ j + 1 < k + 1
    BY <1>1, <1>4
  <2>. QED BY <1>1, <1>4, <2>1 DEF PendingOK
<1>5. \A k \in DOMAIN q : EventOK(b, n, q[k])
  BY <1>1, <1>2 DEF PendingOK
<1>6. EventOK(b, n, Head(p))
  BY <1>1 DEF PendingOK
<1>. QED BY <1>1, <1>3, <1>4, <1>5, <1>6 DEF PendingOK, q

LEMMA MadeUpRead ==
  ASSUME NEW b, NEW n, NEW p, PendingOK(b, n, p), p # <<>>,
         NEW page, NEW asOf \in Nat, asOf >= Head(p).v,
         MadeUp(b, page, asOf, p)
  PROVE  MadeUp(b, page, asOf, Tail(p))
<1>. DEFINE q == Tail(p)
            l == Len(p)
<1>1. /\ l \in Nat /\ l >= 1 /\ DOMAIN p = 1..l
      /\ q \in Seq(AllEvents) /\ DOMAIN q = 1..l - 1
      /\ \A k \in 1..l - 1 : q[k] = p[k + 1]
      /\ Head(p) = p[1]
  BY TailFacts DEF PendingOK
<1>2. p[1].v \in Nat
  <2>1. p[1] \in AllEvents
    BY <1>1 DEF PendingOK
  <2>. QED BY <2>1 DEF AllEvents
<1>. HIDE DEF q, l
<1>. SUFFICES ASSUME NEW i, Later(b, page, asOf, p, i)
              PROVE  Later(b, page, asOf, q, i)
  BY DEF MadeUp, q
<1>3. PICK k \in DOMAIN p : /\ p[k].id = i /\ p[k].v > asOf
                            /\ b[i] = 0 \/ Listed(page, i) \/ p[k].op = "post"
  BY DEF Later
<1>4. k # 1
  BY <1>1, <1>2, <1>3
<1>5. k - 1 \in DOMAIN q /\ q[k - 1] = p[k]
  BY <1>1, <1>4
<1>. QED BY <1>3, <1>5 DEF Later

LEMMA OutlookRead ==
  ASSUME NEW b, NEW n, BoardOK(b, n), NEW p, PendingOK(b, n, p), p # <<>>,
         NEW c, CacheOK(b, c), NEW i \in OnPage(b), WillBeRight(b, c, p, i)
  PROVE  WillBeRight(b, Applied(c, Head(p)), Tail(p), i)
<1>. DEFINE q == Tail(p)
            l == Len(p)
            e == Head(p)
            d == Applied(c, e)
<1>1. /\ l \in Nat /\ l >= 1 /\ DOMAIN p = 1..l
      /\ q \in Seq(AllEvents) /\ DOMAIN q = 1..l - 1
      /\ \A k \in 1..l - 1 : q[k] = p[k + 1]
      /\ e = p[1]
  BY TailFacts DEF PendingOK
<1>2. EventOK(b, n, e)
  BY PendingRead
<1>. HIDE DEF q, l, e
<1>3. /\ CacheOK(b, d)
      /\ \A j \in Ids \ {e.id} : /\ d.messages[j] = c.messages[j]
                                 /\ Places(d, j) = Places(c, j)
      /\ d.messages[e.id] = IF e.op = "delete" THEN 0 ELSE e.v
      /\ ~(e.op = "post" /\ c.messages[e.id] = 0) =>
           Places(d, e.id) = Places(c, e.id)
      /\ e.op = "post" /\ c.messages[e.id] = 0 =>
           OneMore(Places(c, e.id), Places(d, e.id))
  BY <1>2, AppliedFacts
<1>. SUFFICES WillBeRight(b, d, q, i)
  BY DEF d, q, e
<1>. HIDE DEF d
<1>4. i \in Ids /\ e.v # 0
  BY <1>2, BoardFacts DEF EventOK
<1>5. \A k \in DOMAIN p : k = 1 \/ (k - 1 \in DOMAIN q /\ q[k - 1] = p[k])
  BY <1>1
<1>6. \A k \in DOMAIN q : k + 1 \in DOMAIN p /\ q[k] = p[k + 1]
  BY <1>1
<1>7. CASE e.id # i
  <2>1. (\A k \in DOMAIN q : q[k].id # i) => \A k \in DOMAIN p : p[k].id # i
    BY <1>1, <1>5, <1>7
  <2>2. PostOf(q, i) <=> PostOf(p, i)
    BY <1>1, <1>5, <1>6, <1>7 DEF PostOf
  <2>3. d.messages[i] = c.messages[i] /\ Places(d, i) = Places(c, i)
    BY <1>3, <1>4, <1>7
  <2>4. /\ Right(b, c, i) => Right(b, d, i)
        /\ Once(c, i) <=> Once(d, i)
        /\ Listed(c, i) <=> Listed(d, i)
    BY <2>3 DEF Right, Once, Listed
  <2>. QED BY <2>1, <2>2, <2>3, <2>4 DEF WillBeRight
<1>8. CASE e.id = i
  <2>1. (\A k \in DOMAIN q : q[k].id # i) => LastOf(p, 1)
    BY <1>1, <1>5, <1>8 DEF LastOf
  <2>2. e.op = "delete" => LastOf(p, 1)
    BY <1>1, <1>8 DEF PendingOK, LastOf
  <2>3. LastOf(p, 1) => b[i] = d.messages[i]
    BY <1>1, <1>3, <1>8 DEF PendingOK
  <2>4. PostOf(p, i) => e.op = "post"
    <3>1. ASSUME NEW k \in DOMAIN p, p[k].id = i, p[k].op = "post"
          PROVE  k = 1
      BY <1>1, <1>8, <3>1 DEF PendingOK
    <3>. QED BY <1>1, <3>1 DEF PostOf
  <2>5. e.op = "post" => PostOf(p, i)
    BY <1>1, <1>8 DEF PostOf
  <2>6. b[i] # 0 => Once(d, i)
    <3>. SUFFICES ASSUME b[i] # 0 PROVE Once(d, i)
      OBVIOUS
    <3>1. CASE Once(c, i) /\ (c.messages[i] # 0 \/ ~PostOf(p, i))
      <4>1. Places(d, i) = Places(c, i)
        BY <1>3, <1>8, <2>5, <3>1
      <4>. QED BY <3>1, <4>1 DEF Once
    <3>2. CASE ~Listed(c, i) /\ c.messages[i] = 0 /\ PostOf(p, i)
      <4>1. OneMore(Places(c, i), Places(d, i)) /\ Places(c, i) = {}
        BY <1>3, <1>8, <2>4, <3>2 DEF Listed
      <4>. QED BY <4>1 DEF OneMore, Once
    <3>. QED BY <3>1, <3>2 DEF WillBeRight
  <2>7. b[i] # 0 => d.messages[i] # 0
    BY <1>3, <1>4, <1>8, <2>2, <2>3
  <2>. QED BY <2>1, <2>3, <2>6, <2>7 DEF WillBeRight, Right
<1>. QED BY <1>7, <1>8

(* A page for whose age a stream makes up. *)
LEMMA OutlookOfPage ==
  ASSUME NEW b, NEW n, BoardOK(b, n), NEW page, PageOK(page), NEW asOf, NEW p,
         MadeUp(b, page, asOf, p)
  PROVE  \A i \in OnPage(b) : WillBeRight(b, page, p, i)
<1>. SUFFICES ASSUME NEW i \in OnPage(b) PROVE WillBeRight(b, page, p, i)
  OBVIOUS
<1>1. i \in Ids
  BY BoardFacts
<1>2. (\A k \in DOMAIN p : p[k].id # i) => Right(b, page, i)
  BY DEF MadeUp, Later
<1>3. CASE Listed(page, i)
  BY <1>1, <1>2, <1>3 DEF PageOK, WillBeRight
<1>4. CASE ~Listed(page, i)
  <2>1. page.messages[i] = 0
    BY <1>1, <1>4 DEF PageOK, Once, Listed
  <2>2. b[i] # 0 => PostOf(p, i)
    BY <1>4, <2>1 DEF MadeUp, Later, Right, PostOf
  <2>. QED BY <1>2, <1>4, <2>1, <2>2 DEF WillBeRight
<1>. QED BY <1>3, <1>4

-----------------------------------------------------------------------------
(* The invariant of the cache. *)

(* The goroutine has a stream of topic t that has been opened. *)
Streams(r, t) == IsStream(r) /\ r.open /\ r.topic = t

Writes == {"post", "update", "like", "delete"}

(* A page as it was when the topic had had asOf events. *)
LoadedOK(b, n, page, asOf) ==
  /\ asOf \in 0..n
  /\ CacheOK(b, page) /\ PageOK(page)
  /\ asOf = n => \A i \in OnPage(b) : Right(b, page, i)

(* What a goroutine has in hand. *)
CarriesOK(r, bs, ns) ==
  /\ r.pc = "write" => r.op \in Writes
  /\ r.pc = "written" => EventOK(bs[r.topic], ns[r.topic], r.event)
  /\ r.pc = "loaded" => LoadedOK(bs[r.topic], ns[r.topic], r.page, r.asOf)
  /\ IsStream(r) => r.from \in Nat /\ (r.open \/ r.pending = <<>>)
  /\ IsStream(r) /\ r.open => PendingOK(bs[r.topic], ns[r.topic], r.pending)

(* Unless the page is too old, each stream of its topic makes up for it. *)
MakesUpFor(r, q, bs, since) ==
  r.pc = "loaded" /\ ~(r.asOf < since[r.topic]) /\ Streams(q, r.topic) =>
    MadeUp(bs[r.topic], r.page, r.asOf, q.pending)

BoardInv ==
  /\ DOMAIN board = Topics /\ events \in [Topics -> Nat]
  /\ brought \in [Topics -> Nat]
  /\ \A t \in Topics : BoardOK(board[t], events[t])

CarriedInv ==
  /\ \A h \in Threads : CarriesOK(thread[h], board, events)
  /\ \A h, k \in Threads : MakesUpFor(thread[h], thread[k], board, brought)

CachesInv ==
  \A t \in Topics :
    messageCache[t] # None => CacheOK(board[t], messageCache[t])

(* When its stream has been read, the cache will be the board. *)
OutlookInv ==
  \A t \in Topics \ spoilt, h \in Threads : Streams(thread[h], t) =>
    \A i \in OnPage(board[t]) :
      WillBeRight(board[t], Entry(t), thread[h].pending, i)

DataInv == BoardInv /\ CarriedInv /\ CachesInv /\ OutlookInv

(* The goroutine reads, or is about to read, a stream that nobody has      *)
(* closed, of a topic that it has marked.                                  *)
Follows(r, t) ==
  IsStream(r) /\ r.topic = t /\ ~r.closed /\ r.pc # "mark"

FollowedInv ==
  \A t \in subscribedTopics : \E h \in Threads : Follows(thread[h], t)

-----------------------------------------------------------------------------

(* A goroutine goes on with nothing new in hand but a page. *)
Harmless(r, q) ==
  /\ q.pc = "write" => q.op \in Writes
  /\ q.pc = "written" => q = r
  /\ q.pc = "loaded" => \/ q = r
                        \/ /\ q.page = Page(q.topic) /\ q.topic \in Topics
                           /\ q.asOf = events[q.topic]
  /\ IsStream(q) => q.from \in Nat /\ (q.open \/ q.pending = <<>>)
  /\ \A t : Streams(q, t) => Streams(r, t) /\ q.pending = r.pending

LEMMA CarriedKept ==
  ASSUME ShapeInv, BoardInv, CarriedInv, UNCHANGED <<board, events, brought>>,
         \A k \in Threads : Harmless(thread[k], thread'[k])
  PROVE  BoardInv' /\ CarriedInv'
<1>1. BoardInv'
  BY DEF BoardInv
<1>2. ASSUME NEW h \in Threads, thread'[h].pc = "loaded",
             thread'[h] # thread[h]
      PROVE  LET r == thread'[h]
                 b == board[r.topic]
             IN  /\ LoadedOK(b, events[r.topic], r.page, r.asOf)
                 /\ \A i \in OnPage(b) : Right(b, r.page, i)
  <2>1. PICK r : r = thread'[h]
    OBVIOUS
  <2>2. r.page = Page(r.topic) /\ r.topic \in Topics /\ r.asOf = events[r.topic]
    BY <1>2, <2>1 DEF Harmless
  <2>3. BoardOK(board[r.topic], events[r.topic])
    BY <2>2 DEF BoardInv
  <2>4. /\ CacheOK(board[r.topic], r.page) /\ PageOK(r.page)
        /\ \A i \in OnPage(board[r.topic]) : Right(board[r.topic], r.page, i)
    BY <2>2, <2>3, PageIsRight
  <2>5. r.asOf \in 0..events[r.topic]
    BY <2>2, <2>3, BoardFacts
  <2>. QED BY <2>1, <2>4, <2>5 DEF LoadedOK
<1>3. \A h \in Threads : CarriesOK(thread'[h], board, events)
  <2>. SUFFICES ASSUME NEW h \in Threads
                PROVE  CarriesOK(thread'[h], board, events)
    OBVIOUS
  <2>1. PICK r, q : r = thread[h] /\ q = thread'[h]
    OBVIOUS
  <2>2. Harmless(r, q) /\ CarriesOK(r, board, events)
    BY <2>1 DEF CarriedInv
  <2>3. q.pc = "loaded" =>
          LoadedOK(board[q.topic], events[q.topic], q.page, q.asOf)
    BY <1>2, <2>1, <2>2 DEF CarriesOK
  <2>4. IsStream(q) /\ q.open =>
          PendingOK(board[q.topic], events[q.topic], q.pending)
    BY <2>2 DEF Harmless, CarriesOK, Streams
  <2>5. q.pc = "written" => EventOK(board[q.topic], events[q.topic], q.event)
    BY <2>2 DEF Harmless, CarriesOK
  <2>. QED BY <2>1, <2>2, <2>3, <2>4, <2>5 DEF Harmless, CarriesOK
<1>4. \A h, k \in Threads : MakesUpFor(thread'[h], thread'[k], board, brought)
  <2>. SUFFICES ASSUME NEW h \in Threads, NEW k \in Threads
                PROVE  MakesUpFor(thread'[h], thread'[k], board, brought)
    OBVIOUS
  <2>1. Streams(thread'[k], thread'[h].topic) =>
          /\ Streams(thread[k], thread'[h].topic)
          /\ thread'[k].pending = thread[k].pending
    BY DEF Harmless
  <2>2. CASE thread'[h] = thread[h]
    <3>1. MakesUpFor(thread[h], thread[k], board, brought)
      BY DEF CarriedInv
    <3>. QED BY <2>1, <2>2, <3>1 DEF MakesUpFor
  <2>3. CASE thread'[h] # thread[h]
    BY <1>2, <2>3 DEF MakesUpFor, MadeUp
  <2>. QED BY <2>2, <2>3
<1>5. CarriedInv'
  BY <1>3, <1>4 DEF CarriedInv
<1>. QED BY <1>1, <1>5

LEMMA OutlookKept ==
  ASSUME CachesInv, OutlookInv,
         UNCHANGED <<board, messageCache, spoilt>>,
         \A k \in Threads : \A t : Streams(thread'[k], t) =>
           Streams(thread[k], t) /\ thread'[k].pending = thread[k].pending
  PROVE  CachesInv' /\ OutlookInv'
<1>1. CachesInv'
  BY DEF CachesInv
<1>2. \A t : Entry(t)' = Entry(t)
  BY DEF Entry
<1>3. OutlookInv'
  <2>. SUFFICES ASSUME NEW t \in Topics \ spoilt, NEW h \in Threads,
                       Streams(thread'[h], t), NEW i \in OnPage(board[t])
                PROVE  WillBeRight(board[t], Entry(t), thread'[h].pending, i)
    BY <1>2 DEF OutlookInv
  <2>. QED BY DEF OutlookInv
<1>. QED BY <1>1, <1>3

LEMMA DataKept ==
  ASSUME IInv, DataInv, UNCHANGED <<board, events, cacheVars>>,
         \A k \in Threads : Harmless(thread[k], thread'[k])
  PROVE  DataInv'
<1>1. UNCHANGED <<board, events, brought, messageCache, spoilt>>
  BY DEF cacheVars
<1>2. BoardInv' /\ CarriedInv'
  BY <1>1, CarriedKept DEF IInv, DataInv
<1>3. CachesInv' /\ OutlookInv'
  BY <1>1, OutlookKept DEF DataInv, Harmless
<1>. QED BY <1>2, <1>3 DEF DataInv

(* Whoever stays as he was. *)
LEMMA StayingIsHarmless ==
  ASSUME CarriedInv, NEW h \in Threads
  PROVE  Harmless(thread[h], thread[h])
BY DEF CarriedInv, CarriesOK, Harmless

LEMMA MoveKeepsData ==
  ASSUME IInv, DataInv, NEW h \in Threads, NEW r, Become(h, r),
         Harmless(thread[h], r), UNCHANGED <<board, events, cacheVars>>
  PROVE  DataInv'
<1>1. \A k \in Threads : Harmless(thread[k], thread'[k])
  <2>. SUFFICES ASSUME NEW k \in Threads
                PROVE  Harmless(thread[k], thread'[k])
    OBVIOUS
  <2>1. CASE k = h
    BY <2>1, OthersStay DEF IInv
  <2>2. CASE k # h
    <3>1. thread'[k] = thread[k]
      BY <2>2, OthersStay DEF IInv
    <3>2. Harmless(thread[k], thread[k])
      BY StayingIsHarmless DEF DataInv
    <3>. QED BY <3>1, <3>2
  <2>. QED BY <2>1, <2>2
<1>. QED BY <1>1, DataKept

LEMMA FollowedKept ==
  ASSUME FollowedInv, subscribedTopics' \subseteq subscribedTopics,
         \A k \in Threads : \A t \in subscribedTopics' :
           Follows(thread[k], t) => Follows(thread'[k], t)
  PROVE  FollowedInv'
BY DEF FollowedInv

-----------------------------------------------------------------------------
(* Something happens on the board. *)

LEMMA HappensFacts ==
  ASSUME BoardInv, NEW t \in Topics, NEW op \in {"post", "change", "delete"},
         NEW id \in IF op = "post" THEN {NextId(t)} ELSE Alive(t),
         Happens(t, op, id)
  PROVE  /\ events[t] < MaxEvents /\ events'[t] = events[t] + 1
         /\ Publishes(board[t], events[t], board'[t], EventOf(t, op, id))
         /\ DOMAIN board' = Topics /\ events' \in [Topics -> Nat]
         /\ \A u \in Topics \ {t} :
              board'[u] = board[u] /\ events'[u] = events[u]
<1>. DEFINE sum == FoldFunction(+, 0, events)
<1>1. events[t] <= sum /\ sum \in Nat
  BY CacheAssumption, SumBoundsAll DEF BoardInv
<1>2. events[t] < MaxEvents
  <2>1. sum < MaxEvents
    BY DEF Happens
  <2>. HIDE DEF sum
  <2>2. events[t] \in Nat /\ MaxEvents \in Nat
    BY GuiClientAssumption DEF BoardInv
  <2>. QED BY <1>1, <2>1, <2>2
<1>. HIDE DEF sum
<1>3. /\ events' = [events EXCEPT ![t] = events[t] + 1]
      /\ events[t] \in Nat /\ DOMAIN board = Topics
      /\ BoardOK(board[t], events[t])
  BY DEF Happens, BoardInv
<1>4. /\ events'[t] = events[t] + 1 /\ events' \in [Topics -> Nat]
      /\ \A u \in Topics \ {t} : events'[u] = events[u]
  BY <1>3 DEF BoardInv
<1>. DEFINE n == events[t]
            e == EventOf(t, op, id)
            bb == CASE op = "post"   -> Append(board[t], events'[t])
                    [] op = "change" -> [board[t] EXCEPT ![id] = events'[t]]
                    [] op = "delete" -> [board[t] EXCEPT ![id] = 0]
<1>5. board' = [board EXCEPT ![t] = bb]
  BY DEF Happens
<1>6. e.op = op /\ e.id = id /\ e.v = n + 1
  BY DEF EventOf, Event
<1>7. /\ IF op = "post" THEN id = Len(board[t]) + 1
         ELSE id \in DOMAIN board[t] /\ board[t][id] # 0
      /\ id \in Nat
  <2>1. Len(board[t]) \in Nat /\ DOMAIN board[t] = 1..Len(board[t])
    BY <1>3, BoardFacts
  <2>. QED BY <2>1 DEF NextId, Alive
<1>8. e \in AllEvents
  BY <1>3, <1>7 DEF EventOf, Event, AllEvents
<1>. HIDE DEF e
<1>9. Publishes(board[t], n, bb, e)
  <2>1. CASE op = "post"
    <3>1. bb = Append(board[t], e.v)
      BY <1>4, <1>6, <2>1
    <3>. HIDE DEF bb
    <3>. QED BY <1>6, <1>7, <1>8, <2>1, <3>1 DEF Publishes
  <2>2. CASE op = "change"
    <3>1. bb = [board[t] EXCEPT ![id] = e.v]
      BY <1>4, <1>6, <2>2
    <3>. HIDE DEF bb
    <3>. QED BY <1>6, <1>7, <1>8, <2>2, <3>1 DEF Publishes
  <2>3. CASE op = "delete"
    <3>1. bb = [board[t] EXCEPT ![id] = 0]
      BY <2>3
    <3>. HIDE DEF bb
    <3>. QED BY <1>6, <1>7, <1>8, <2>3, <3>1 DEF Publishes
  <2>. QED BY <2>1, <2>2, <2>3
<1>. HIDE DEF bb
<1>10. /\ board'[t] = bb /\ DOMAIN board' = Topics
       /\ \A u \in Topics \ {t} : board'[u] = board[u]
  BY <1>3, <1>5
<1>. QED BY <1>2, <1>4, <1>9, <1>10 DEF e

(* A goroutine that has a stream has nothing else in hand. *)
LEMMA StreamHasFields ==
  ASSUME NEW r, ThreadOK(r), IsStream(r)
  PROVE  /\ DOMAIN r = StreamFields
         /\ r.pc \notin {"write", "written", "loaded"}
<1>. DEFINE d == DOMAIN r
<1>1. "pending" \in d
  BY DEF IsStream
<1>2. r.pc \notin {"refreshed", "write", "written", "loaded"}
  BY <1>1 DEF ThreadOK, Fields
<1>3. r.pc \in PcsOfStream \cup PcsOfDrawing
  BY <1>1, <1>2 DEF ThreadOK, Fields, PcsAlone, PcsOfTopic
<1>4. d = StreamFields
  BY <1>1, <1>3 DEF ThreadOK, Fields
<1>. QED BY <1>2, <1>4

LEMMA EntryOK ==
  ASSUME BoardInv, CachesInv, NEW t \in Topics
  PROVE  CacheOK(board[t], Entry(t))
<1>1. Len(board[t]) \in Nat
  BY BoardFacts DEF BoardInv
<1>2. CacheOK(board[t], NewEntry)
  BY <1>1, NewEntryOK
<1>. QED BY <1>2 DEF CachesInv, Entry

(* What the board publishes reaches every stream of the topic; a goroutine *)
(* may have asked for it.                                                  *)
LEMMA PublishKeepsData ==
  ASSUME ShapeInv, DataInv, UNCHANGED <<messageCache, brought, spoilt>>,
         NEW t \in Topics, NEW e, NEW threads,
         thread' = Published(threads, t, e),
         events[t] < MaxEvents, events'[t] = events[t] + 1,
         Publishes(board[t], events[t], board'[t], e),
         DOMAIN board' = Topics, events' \in [Topics -> Nat],
         \A u \in Topics \ {t} : board'[u] = board[u] /\ events'[u] = events[u],
         \A k \in Threads :
           threads[k] \in
             {thread[k], [pc |-> "written", topic |-> t, event |-> e]}
  PROVE  DataInv'
<1>1. BoardOK(board[t], events[t]) /\ events[t] \in Nat
  BY DEF DataInv, BoardInv
<1>2. /\ BoardOK(board'[t], events'[t]) /\ EventOK(board'[t], events'[t], e)
      /\ Len(board[t]) \in Nat /\ Len(board'[t]) \in Nat
      /\ Len(board[t]) <= Len(board'[t])
  BY <1>1, PublishFacts
<1>3. BoardInv'
  BY <1>2 DEF DataInv, BoardInv
<1>4. ASSUME NEW k \in Threads
      PROVE  \/ thread'[k] = [pc |-> "written", topic |-> t, event |-> e]
             \/ /\ Streams(thread[k], t)
                /\ thread'[k] =
                     [thread[k] EXCEPT !.pending = Append(thread[k].pending, e)]
             \/ ~Streams(thread[k], t) /\ thread'[k] = thread[k]
  <2>1. thread'[k] = IF Streams(threads[k], t)
                     THEN [threads[k] EXCEPT !.pending = Append(@, e)]
                     ELSE threads[k]
    BY DEF Published, Streams
  <2>2. CASE threads[k] = thread[k]
    BY <2>1, <2>2
  <2>3. CASE threads[k] = [pc |-> "written", topic |-> t, event |-> e]
    <3>1. ~Streams(threads[k], t)
      BY <2>3 DEF Streams, IsStream
    <3>. QED BY <2>1, <2>3, <3>1
  <2>. QED BY <2>2, <2>3
<1>5. ASSUME NEW k \in Threads, Streams(thread[k], t)
      PROVE  LET r == [thread[k] EXCEPT !.pending =
                             Append(thread[k].pending, e)]
             IN  /\ r.topic = t /\ r.pc = thread[k].pc /\ IsStream(r) /\ r.open
                 /\ r.pending = Append(thread[k].pending, e)
                 /\ r.from = thread[k].from
                 /\ r.pc \notin {"write", "written", "loaded"}
                 /\ PendingOK(board[t], events[t], thread[k].pending)
                 /\ thread[k].from \in Nat
  <2>1. /\ DOMAIN thread[k] = StreamFields
        /\ thread[k].pc \notin {"write", "written", "loaded"}
    BY <1>5, StreamHasFields DEF Streams, ShapeInv
  <2>2. /\ PendingOK(board[t], events[t], thread[k].pending)
        /\ thread[k].from \in Nat
    BY <1>5 DEF DataInv, CarriedInv, CarriesOK, Streams
  <2>. QED BY <1>5, <2>1, <2>2 DEF StreamFields, Streams, IsStream
<1>6. ASSUME NEW k \in Threads
      PROVE  CarriesOK(thread'[k], board', events')
  <2>1. CASE thread'[k] = [pc |-> "written", topic |-> t, event |-> e]
    BY <1>2, <2>1 DEF CarriesOK, IsStream
  <2>2. CASE /\ Streams(thread[k], t)
             /\ thread'[k] =
                  [thread[k] EXCEPT !.pending = Append(thread[k].pending, e)]
    <3>1. PICK r : r = thread'[k]
      OBVIOUS
    <3>2. PendingOK(board'[t], events'[t], Append(thread[k].pending, e))
      BY <1>1, <1>5, <2>2, PendingGrows
    <3>3. /\ r.topic = t /\ r.pc \notin {"write", "written", "loaded"}
          /\ r.pending = Append(thread[k].pending, e) /\ r.from \in Nat
          /\ r.open
      BY <1>5, <2>2, <3>1
    <3>. QED BY <3>1, <3>2, <3>3 DEF CarriesOK
  <2>3. CASE ~Streams(thread[k], t) /\ thread'[k] = thread[k]
    <3>1. PICK r : r = thread[k]
      OBVIOUS
    <3>2. /\ ThreadOK(r) /\ CarriesOK(r, board, events) /\ ~Streams(r, t)
      BY <2>3, <3>1 DEF ShapeInv, DataInv, CarriedInv
    <3>3. r.pc \in {"written", "loaded"} \/ IsStream(r) => r.topic \in Topics
      BY <3>2 DEF ThreadOK, Fields, IsStream, PcsAlone, PcsOfTopic,
                  PcsOfStream, PcsOfDrawing, StreamFields
    <3>4. CASE r.topic # t
      <4>1. r.topic \in Topics => /\ board'[r.topic] = board[r.topic]
                                  /\ events'[r.topic] = events[r.topic]
        BY <3>4
      <4>. QED BY <2>3, <3>1, <3>2, <3>3, <4>1 DEF CarriesOK
    <3>5. CASE r.topic = t
      <4>1. r.pc = "written" => EventOK(board'[t], events'[t], r.event)
        BY <1>1, <1>2, <3>2, <3>5, EventGrows DEF CarriesOK
      <4>2. r.pc = "loaded" =>
              LoadedOK(board'[t], events'[t], r.page, r.asOf)
        <5>. SUFFICES ASSUME r.pc = "loaded"
                      PROVE  LoadedOK(board'[t], events'[t], r.page, r.asOf)
          OBVIOUS
        <5>1. LoadedOK(board[t], events[t], r.page, r.asOf)
          BY <3>2, <3>5 DEF CarriesOK
        <5>2. CacheOK(board'[t], r.page)
          BY <1>2, <5>1, CacheGrows DEF LoadedOK
        <5>3. r.asOf \in 0..events'[t] /\ r.asOf # events'[t]
          BY <1>1, <5>1 DEF LoadedOK
        <5>. QED BY <5>1, <5>2, <5>3 DEF LoadedOK
      <4>. QED BY <2>3, <3>1, <3>2, <3>5, <4>1, <4>2 DEF CarriesOK, Streams
    <3>. QED BY <3>4, <3>5
  <2>. QED BY <1>4, <2>1, <2>2, <2>3
(* Who has a stream has had it before. *)
<1>7. ASSUME NEW k \in Threads, NEW u, Streams(thread'[k], u)
      PROVE  /\ Streams(thread[k], u)
             /\ thread'[k].pending = IF u = t THEN Append(thread[k].pending, e)
                                     ELSE thread[k].pending
  <2>1. CASE thread'[k] = [pc |-> "written", topic |-> t, event |-> e]
    BY <1>7, <2>1 DEF Streams, IsStream
  <2>2. CASE /\ Streams(thread[k], t)
             /\ thread'[k] =
                  [thread[k] EXCEPT !.pending = Append(thread[k].pending, e)]
    BY <1>5, <1>7, <2>2 DEF Streams
  <2>3. CASE ~Streams(thread[k], t) /\ thread'[k] = thread[k]
    BY <1>7, <2>3
  <2>. QED BY <1>4, <2>1, <2>2, <2>3
<1>8. ASSUME NEW h \in Threads, NEW k \in Threads
      PROVE  MakesUpFor(thread'[h], thread'[k], board', brought)
  <2>. SUFFICES ASSUME thread'[h].pc = "loaded",
                       ~(thread'[h].asOf < brought[thread'[h].topic]),
                       Streams(thread'[k], thread'[h].topic)
                PROVE  MadeUp(board'[thread'[h].topic], thread'[h].page,
                              thread'[h].asOf, thread'[k].pending)
    BY DEF MakesUpFor
  <2>1. thread'[h] = thread[h]
    <3>1. ASSUME Streams(thread[h], t),
                 thread'[h] =
                   [thread[h] EXCEPT !.pending = Append(thread[h].pending, e)]
          PROVE  FALSE
      <4>1. thread'[h].pc \notin {"write", "written", "loaded"}
        BY <1>5, <3>1
      <4>. QED BY <4>1
    <3>2. thread'[h] # [pc |-> "written", topic |-> t, event |-> e]
      OBVIOUS
    <3>. QED BY <1>4, <3>1, <3>2
  <2>2. PICK r : r = thread[h]
    OBVIOUS
  <2>3. /\ r.pc = "loaded" /\ r.topic \in Topics
        /\ LoadedOK(board[r.topic], events[r.topic], r.page, r.asOf)
    BY <2>1, <2>2 DEF ShapeInv, ThreadOK, Fields, DataInv, CarriedInv, CarriesOK
  <2>4. Streams(thread[k], r.topic)
    BY <1>7, <2>1, <2>2
  <2>5. MadeUp(board[r.topic], r.page, r.asOf, thread[k].pending)
    BY <2>1, <2>2, <2>4 DEF DataInv, CarriedInv, MakesUpFor
  <2>6. CASE r.topic = t
    <3>1. PendingOK(board[t], events[t], thread[k].pending)
      BY <1>5, <2>4, <2>6
    <3>2. MadeUp(board'[t], r.page, r.asOf, Append(thread[k].pending, e))
      BY <1>1, <2>3, <2>5, <2>6, <3>1, MadeUpGrows DEF LoadedOK
    <3>. QED BY <1>7, <2>1, <2>2, <2>6, <3>2
  <2>7. CASE r.topic # t
    BY <1>7, <2>1, <2>2, <2>3, <2>5, <2>7
  <2>. QED BY <2>6, <2>7
<1>9. CarriedInv'
  BY <1>6, <1>8 DEF CarriedInv
<1>10. CachesInv'
  <2>. SUFFICES ASSUME NEW u \in Topics, messageCache[u] # None
                PROVE  CacheOK(board'[u], messageCache[u])
    BY DEF CachesInv
  <2>1. CacheOK(board[u], messageCache[u])
    BY DEF DataInv, CachesInv
  <2>2. CASE u = t
    BY <1>2, <2>1, <2>2, CacheGrows
  <2>. QED BY <2>1, <2>2
<1>11. OutlookInv'
  <2>. SUFFICES ASSUME NEW u \in Topics \ spoilt, NEW k \in Threads,
                       Streams(thread'[k], u)
                PROVE  \A i \in OnPage(board'[u]) :
                         WillBeRight(board'[u], Entry(u), thread'[k].pending, i)
    BY DEF OutlookInv, Entry
  <2>1. Streams(thread[k], u)
    BY <1>7
  <2>2. \A i \in OnPage(board[u]) :
          WillBeRight(board[u], Entry(u), thread[k].pending, i)
    BY <2>1 DEF DataInv, OutlookInv
  <2>3. CASE u = t
    <3>1. /\ PendingOK(board[t], events[t], thread[k].pending)
          /\ CacheOK(board[t], Entry(t))
      BY <1>5, <2>1, <2>3, EntryOK DEF DataInv
    <3>2. \A i \in OnPage(board'[t]) :
            WillBeRight(board'[t], Entry(t), Append(thread[k].pending, e), i)
      BY <1>1, <2>2, <2>3, <3>1, OutlookGrows
    <3>. QED BY <1>7, <2>3, <3>2
  <2>4. CASE u # t
    BY <1>7, <2>2, <2>4
  <2>. QED BY <2>3, <2>4
<1>. QED BY <1>3, <1>9, <1>10, <1>11 DEF DataInv

LEMMA OthersKeepData ==
  ASSUME IInv, DataInv, Others
  PROVE  DataInv'
<1>1. PICK t \in ToSet(exists), op \in {"post", "change", "delete"} :
        \E id \in IF op = "post" THEN {NextId(t)} ELSE Alive(t) :
          /\ Happens(t, op, id)
          /\ thread' = Published(thread, t, EventOf(t, op, id))
  BY DEF Others
<1>2. PICK id \in IF op = "post" THEN {NextId(t)} ELSE Alive(t) :
        /\ Happens(t, op, id)
        /\ thread' = Published(thread, t, EventOf(t, op, id))
  BY <1>1
<1>3. t \in Topics
  BY DEF IInv, ListInv, ToSet
<1>4. UNCHANGED <<messageCache, brought, spoilt>>
  BY DEF Others, cacheVars
<1>5. /\ events[t] < MaxEvents /\ events'[t] = events[t] + 1
      /\ Publishes(board[t], events[t], board'[t], EventOf(t, op, id))
      /\ DOMAIN board' = Topics /\ events' \in [Topics -> Nat]
      /\ \A u \in Topics \ {t} :
           board'[u] = board[u] /\ events'[u] = events[u]
  BY <1>2, <1>3, HappensFacts DEF DataInv
<1>. QED BY <1>2, <1>3, <1>4, <1>5, PublishKeepsData DEF IInv

LEMMA WriteAsksKeepsData ==
  ASSUME IInv, DataInv, NEW h \in Threads, WriteAsks(h)
  PROVE  DataInv'
<1>. DEFINE r == thread[h]
            t == IF r.topic = None THEN currentTopicId ELSE r.topic
            op == IF r.op \in {"like", "update"} THEN "change" ELSE r.op
            id == IF op = "post" THEN NextId(t) ELSE r.id
            w == [pc |-> "written", topic |-> t, event |-> EventOf(t, op, id)]
            threads == [thread EXCEPT ![h] = w]
<1>1. /\ r.pc = "write"
      /\ op = "post" \/ id \in Alive(t)
      /\ Happens(t, op, id)
      /\ thread' = Published(threads, t, EventOf(t, op, id))
  BY DEF WriteAsks, At
<1>2. t \in Topics
  BY <1>1 DEF IInv, ShapeInv, ThreadOK, Fields
<1>3. r.op \in Writes
  BY <1>1 DEF DataInv, CarriedInv, CarriesOK
<1>4. op \in {"post", "change", "delete"}
  BY <1>3 DEF Writes
<1>5. id \in IF op = "post" THEN {NextId(t)} ELSE Alive(t)
  BY <1>1
<1>6. \A k \in Threads : threads[k] \in {thread[k], w}
  BY DEF IInv, ShapeInv
<1>7. UNCHANGED <<messageCache, brought, spoilt>>
  BY DEF WriteAsks, cacheVars
<1>. HIDE DEF t, op, id, threads
<1>8. /\ events[t] < MaxEvents /\ events'[t] = events[t] + 1
      /\ Publishes(board[t], events[t], board'[t], EventOf(t, op, id))
      /\ DOMAIN board' = Topics /\ events' \in [Topics -> Nat]
      /\ \A u \in Topics \ {t} :
           board'[u] = board[u] /\ events'[u] = events[u]
  BY <1>1, <1>2, <1>4, <1>5, HappensFacts DEF DataInv
<1>. QED BY <1>1, <1>2, <1>6, <1>7, <1>8, PublishKeepsData DEF IInv

-----------------------------------------------------------------------------
(* Something is stored. *)

LEMMA LoadStoresKeepsData ==
  ASSUME IInv, DataInv, NEW h \in Threads, LoadStores(h)
  PROVE  DataInv'
<1>1. PICK r : r = thread[h]
  OBVIOUS
<1>2. /\ r.pc = "loaded" /\ Become(h, Show(r.topic))
      /\ messageCache' = [messageCache EXCEPT ![r.topic] = r.page]
      /\ spoilt' = IF TooOld(r.topic, r.asOf) THEN spoilt \cup {r.topic}
                   ELSE spoilt \ {r.topic}
      /\ UNCHANGED <<board, events, brought>>
  BY <1>1 DEF LoadStores, At, boardVars
<1>. DEFINE t == r.topic
<1>3. /\ t \in Topics /\ LoadedOK(board[t], events[t], r.page, r.asOf)
      /\ DOMAIN messageCache = Topics
      /\ BoardOK(board[t], events[t])
  BY <1>1, <1>2 DEF IInv, ShapeInv, ThreadOK, Fields, DataInv, BoardInv,
                    CarriedInv, CarriesOK
<1>4. r.page # None /\ CacheOK(board[t], r.page) /\ PageOK(r.page)
  <2>1. CacheOK(board[t], r.page) /\ PageOK(r.page)
    BY <1>3 DEF LoadedOK
  <2>2. Len(board[t]) \in Nat
    BY <1>3, BoardFacts
  <2>. QED BY <2>1, <2>2, EntryIsThere
<1>5. \A k \in Threads : k # h => thread'[k] = thread[k]
  BY <1>2, OthersStay DEF IInv
<1>6. /\ thread'[h] = Show(t) /\ ~IsStream(Show(t)) /\ Show(t).pc = "show"
  BY <1>2, OthersStay DEF IInv, Show, IsStream
<1>7. \A k \in Threads : Harmless(thread[k], thread'[k])
  <2>. SUFFICES ASSUME NEW k \in Threads
                PROVE  Harmless(thread[k], thread'[k])
    OBVIOUS
  <2>1. Harmless(thread[k], thread[k])
    BY StayingIsHarmless DEF DataInv
  <2>2. k = h => Harmless(thread[k], thread'[k])
    BY <1>6 DEF Harmless, Streams
  <2>. QED BY <1>5, <2>1, <2>2
<1>8. BoardInv' /\ CarriedInv'
  BY <1>2, <1>7, CarriedKept DEF IInv, DataInv
<1>9. CachesInv'
  BY <1>2, <1>3, <1>4 DEF DataInv, CachesInv
<1>10. OutlookInv'
  <2>. SUFFICES ASSUME NEW u \in Topics \ spoilt', NEW k \in Threads,
                       Streams(thread'[k], u)
                PROVE  \A i \in OnPage(board[u]) :
                         WillBeRight(board[u], Entry(u)', thread'[k].pending, i)
    BY <1>2 DEF OutlookInv
  <2>1. thread'[k] = thread[k] /\ Streams(thread[k], u)
    BY <1>5, <1>6 DEF Streams
  <2>2. CASE u = t
    <3>1. Entry(u)' = r.page
      BY <1>2, <1>3, <1>4, <2>2 DEF Entry
    <3>2. ~(r.asOf < brought[t])
      BY <1>2, <2>2 DEF TooOld
    <3>3. MadeUp(board[t], r.page, r.asOf, thread[k].pending)
      BY <1>1, <1>2, <2>1, <2>2, <3>2 DEF DataInv, CarriedInv, MakesUpFor
    <3>. QED BY <1>3, <1>4, <2>1, <2>2, <3>1, <3>3, OutlookOfPage
  <2>3. CASE u # t
    <3>1. Entry(u)' = Entry(u) /\ u \notin spoilt
      BY <1>2, <1>3, <2>3 DEF Entry
    <3>. QED BY <2>1, <3>1 DEF DataInv, OutlookInv
  <2>. QED BY <2>2, <2>3
<1>. QED BY <1>8, <1>9, <1>10 DEF DataInv

LEMMA WriteStoresKeepsData ==
  ASSUME IInv, DataInv, NEW h \in Threads, WriteStores(h)
  PROVE  DataInv'
<1>1. PICK r : r = thread[h]
  OBVIOUS
<1>. DEFINE t == r.topic
<1>2. PICK q : q \in {Idle, Show(t)} /\ Become(h, q)
  BY <1>1 DEF WriteStores
<1>3. /\ r.pc = "written" /\ UNCHANGED <<board, events, brought>>
      /\ \/ UNCHANGED <<messageCache, spoilt>>
         \/ WritesEntry(t, r.event)
  BY <1>1 DEF WriteStores, At, boardVars
<1>4. /\ t \in Topics /\ EventOK(board[t], events[t], r.event)
      /\ DOMAIN messageCache = Topics /\ BoardOK(board[t], events[t])
  BY <1>1, <1>3 DEF IInv, ShapeInv, ThreadOK, Fields, DataInv, BoardInv,
                    CarriedInv, CarriesOK
<1>5. Harmless(thread[h], q)
  BY <1>2 DEF Harmless, Streams, IsStream, Idle, Show
<1>6. CASE UNCHANGED <<messageCache, spoilt>>
  <2>1. UNCHANGED <<board, events, cacheVars>>
    BY <1>3, <1>6 DEF cacheVars
  <2>. QED BY <1>2, <1>5, <2>1, MoveKeepsData
<1>7. CASE /\ messageCache[t] # None
           /\ messageCache' = [messageCache EXCEPT
                                 ![t] = Applied(messageCache[t], r.event)]
           /\ spoilt' = spoilt \cup ({t} \cap Streamed(Threads))
  <2>1. \A k \in Threads : k # h => thread'[k] = thread[k]
    BY <1>2, OthersStay DEF IInv
  <2>2. thread'[h] = q
    BY <1>2, OthersStay DEF IInv
  <2>3. \A k \in Threads : Harmless(thread[k], thread'[k])
    <3>. SUFFICES ASSUME NEW k \in Threads
                  PROVE  Harmless(thread[k], thread'[k])
      OBVIOUS
    <3>1. Harmless(thread[k], thread[k])
      BY StayingIsHarmless DEF DataInv
    <3>. QED BY <1>5, <2>1, <2>2, <3>1
  <2>4. BoardInv' /\ CarriedInv'
    BY <1>3, <2>3, CarriedKept DEF IInv, DataInv
  <2>5. CacheOK(board[t], Applied(messageCache[t], r.event))
    <3>1. CacheOK(board[t], messageCache[t])
      BY <1>4, <1>7 DEF DataInv, CachesInv
    <3>. QED BY <1>4, <3>1, AppliedFacts
  <2>6. CachesInv'
    BY <1>3, <1>4, <1>7, <2>5 DEF DataInv, CachesInv
  <2>7. OutlookInv'
    <3>. SUFFICES ASSUME NEW u \in Topics \ spoilt', NEW k \in Threads,
                         Streams(thread'[k], u)
                  PROVE  \A i \in OnPage(board[u]) :
                           WillBeRight(board[u], Entry(u)',
                                       thread'[k].pending, i)
      BY <1>3 DEF OutlookInv
    <3>1. Streams(thread[k], u) /\ thread'[k].pending = thread[k].pending
      BY <2>3 DEF Harmless
    <3>2. u \in Streamed(Threads)
      BY <3>1 DEF Streamed, Streams
    <3>3. u # t /\ u \notin spoilt
      BY <1>7, <3>2
    <3>4. Entry(u)' = Entry(u)
      BY <1>4, <1>7, <3>3 DEF Entry
    <3>. QED BY <3>1, <3>3, <3>4 DEF DataInv, OutlookInv
  <2>. QED BY <2>4, <2>6, <2>7 DEF DataInv
<1>. QED BY <1>3, <1>6, <1>7 DEF WritesEntry

LEMMA StreamShape ==
  ASSUME IInv, DataInv, NEW h \in Threads, IsStream(thread[h])
  PROVE  LET r == thread[h]
             t == r.topic
         IN  /\ DOMAIN r = StreamFields /\ t \in Topics
             /\ r.pc \in PcsOfStream \cup PcsOfDrawing
             /\ r.from \in Nat /\ (r.open \/ r.pending = <<>>)
             /\ r.open => PendingOK(board[t], events[t], r.pending)
             /\ BoardOK(board[t], events[t]) /\ events[t] \in Nat
<1>1. PICK r : r = thread[h]
  OBVIOUS
<1>2. ThreadOK(r) /\ CarriesOK(r, board, events) /\ IsStream(r)
  BY <1>1 DEF IInv, ShapeInv, DataInv, CarriedInv
<1>3. /\ DOMAIN r = StreamFields /\ r.topic \in Topics
      /\ r.pc \in PcsOfStream \cup PcsOfDrawing
  BY <1>2 DEF ThreadOK, Fields, IsStream, PcsAlone, PcsOfTopic, PcsOfStream,
              PcsOfDrawing, StreamFields
<1>. QED BY <1>1, <1>2, <1>3 DEF CarriesOK, DataInv, BoardInv

LEMMA StreamOpensKeepsData ==
  ASSUME IInv, DataInv, NEW h \in Threads, StreamOpens(h)
  PROVE  DataInv'
<1>1. PICK r : r = thread[h]
  OBVIOUS
<1>. DEFINE t == r.topic
            past == PastMessages(t, r.from)
<1>2. PICK q : q = [r EXCEPT !.open = TRUE, !.pending = past]
  OBVIOUS
<1>3. /\ IsStream(r) /\ ~r.open /\ Become(h, q)
      /\ brought' = [brought EXCEPT ![t] = events[t]]
      /\ spoilt' = IF IsTheBoard(t, Outlook(t, past)) THEN spoilt
                   ELSE spoilt \cup {t}
      /\ UNCHANGED <<board, events, messageCache>>
  BY <1>1, <1>2 DEF StreamOpens, boardVars
<1>4. /\ DOMAIN r = StreamFields /\ t \in Topics /\ r.from \in Nat
      /\ r.pc \in PcsOfStream \cup PcsOfDrawing
      /\ BoardOK(board[t], events[t]) /\ events[t] \in Nat
  BY <1>1, <1>3, StreamShape
<1>5. PostsOnce(board[t], events[t], past)
  BY <1>4, PastIsPosts
<1>6. PendingOK(board[t], events[t], past)
  BY <1>5, PostsArePending
<1>. HIDE DEF past
<1>7. /\ q.topic = t /\ q.pc = r.pc /\ q.open /\ q.pending = past
      /\ q.from = r.from /\ IsStream(q)
      /\ q.pc \notin {"write", "written", "loaded"}
  BY <1>2, <1>4 DEF StreamFields, IsStream, PcsOfStream, PcsOfDrawing
<1>8. /\ thread'[h] = q
      /\ \A k \in Threads : k # h => thread'[k] = thread[k]
  BY <1>3, OthersStay DEF IInv
<1>9. /\ brought'[t] = events[t] /\ brought' \in [Topics -> Nat]
      /\ \A u \in Topics \ {t} : brought'[u] = brought[u]
  BY <1>3, <1>4 DEF DataInv, BoardInv
<1>10. BoardInv'
  BY <1>3, <1>9 DEF DataInv, BoardInv
<1>11. ASSUME NEW k \in Threads
       PROVE  CarriesOK(thread'[k], board, events)
  <2>1. CASE k = h
    BY <1>4, <1>6, <1>7, <1>8, <2>1 DEF CarriesOK
  <2>2. CASE k # h
    BY <1>8, <2>2 DEF DataInv, CarriedInv
  <2>. QED BY <2>1, <2>2
<1>12. ASSUME NEW j \in Threads, NEW k \in Threads
       PROVE  MakesUpFor(thread'[j], thread'[k], board, brought')
  <2>1. PICK a : a = thread'[j]
    OBVIOUS
  <2>. SUFFICES ASSUME a.pc = "loaded", ~(a.asOf < brought'[a.topic]),
                       Streams(thread'[k], a.topic)
                PROVE  MadeUp(board[a.topic],
                              a.page, a.asOf, thread'[k].pending)
    BY <2>1 DEF MakesUpFor
  <2>2. a = thread[j]
    BY <1>7, <1>8, <2>1
  <2>3. /\ a.topic \in Topics
        /\ LoadedOK(board[a.topic], events[a.topic], a.page, a.asOf)
    BY <2>2 DEF IInv, ShapeInv, ThreadOK, Fields, DataInv, CarriedInv, CarriesOK
  <2>4. CASE a.topic = t
    <3>1. a.asOf = events[t]
      BY <1>4, <1>9, <2>3, <2>4 DEF LoadedOK
    <3>. QED BY <2>3, <2>4, <3>1 DEF LoadedOK, MadeUp
  <2>5. CASE a.topic # t
    <3>1. thread'[k] = thread[k]
      BY <1>7, <1>8, <2>5 DEF Streams
    <3>. QED BY <1>9, <2>2, <2>3, <2>5, <3>1 DEF DataInv, CarriedInv, MakesUpFor
  <2>. QED BY <2>4, <2>5
<1>13. CarriedInv'
  BY <1>3, <1>11, <1>12 DEF CarriedInv
<1>14. CachesInv'
  BY <1>3 DEF DataInv, CachesInv
<1>15. OutlookInv'
  <2>. SUFFICES ASSUME NEW u \in Topics \ spoilt', NEW k \in Threads,
                       Streams(thread'[k], u)
                PROVE  \A i \in OnPage(board[u]) :
                         WillBeRight(board[u], Entry(u), thread'[k].pending, i)
    BY <1>3 DEF OutlookInv, Entry
  <2>1. CASE k = h
    <3>1. u = t /\ thread'[k].pending = past
      BY <1>7, <1>8, <2>1 DEF Streams
    <3>2. IsTheBoard(t, FoldLeft(Applied, Entry(t), past))
      BY <1>3, <3>1 DEF Outlook
    <3>3. CacheOK(board[t], Entry(t))
      BY <1>4, EntryOK DEF DataInv
    <3>4. \A i \in OnPage(board[t]) : WillBeRight(board[t], Entry(t), past, i)
      BY <1>4, <1>5, <3>2, <3>3, StreamBeginsRight
    <3>. QED BY <3>1, <3>4
  <2>2. CASE k # h
    BY <1>3, <1>8, <2>2 DEF DataInv, OutlookInv
  <2>. QED BY <2>1, <2>2
<1>. QED BY <1>10, <1>13, <1>14, <1>15 DEF DataInv

LEMMA ReceiveKeepsData ==
  ASSUME IInv, DataInv, NEW h \in Threads, Receive(h)
  PROVE  DataInv'
<1>1. PICK r : r = thread[h]
  OBVIOUS
<1>. DEFINE t == r.topic
            p == r.pending
            e == Head(p)
<1>2. PICK q : q = [[r EXCEPT !.pending = Tail(@)] EXCEPT !.pc = "show"]
  OBVIOUS
<1>3. /\ r.pc = "recv" /\ p # <<>> /\ Become(h, q)
      /\ UNCHANGED <<board, events>>
  BY <1>1, <1>2 DEF Receive, At, boardVars
<1>4. /\ DOMAIN r = StreamFields /\ t \in Topics /\ r.from \in Nat
      /\ r.open /\ PendingOK(board[t], events[t], p)
      /\ BoardOK(board[t], events[t]) /\ events[t] \in Nat
  <2>1. IsStream(r)
    BY <1>1, <1>3 DEF IInv, ShapeInv, ThreadOK, Fields, PcsOfStream, IsStream,
                      StreamFields
  <2>. QED BY <1>1, <1>3, <2>1, StreamShape
<1>5. /\ PendingOK(board[t], events[t], Tail(p))
      /\ EventOK(board[t], events[t], e) /\ e.v \in Nat
  <2>1. /\ PendingOK(board[t], events[t], Tail(p))
        /\ EventOK(board[t], events[t], e)
    BY <1>3, <1>4, PendingRead
  <2>. QED BY <2>1 DEF EventOK
<1>6. /\ q.topic = t /\ q.pc = "show" /\ q.open /\ q.pending = Tail(p)
      /\ q.from = r.from /\ IsStream(q) /\ IsStream(r)
  BY <1>2, <1>4 DEF StreamFields, IsStream
<1>7. /\ q.topic = t
      /\ messageCache' = [messageCache EXCEPT ![t] = Applied(Entry(t), e)]
      /\ brought' = [brought EXCEPT ![t] = IF e.v > brought[t] THEN e.v
                                           ELSE brought[t]]
      /\ spoilt' = spoilt \cup ({t} \cap Streamed(Threads \ {h}))
  <2>1. [thread[h] EXCEPT !.pending = Tail(@)].topic = t
    BY <1>1, <1>4 DEF StreamFields
  <2>. QED BY <1>1, <1>6, <2>1 DEF Receive
<1>. HIDE DEF t, p, e
<1>8. /\ thread'[h] = q
      /\ \A k \in Threads : k # h => thread'[k] = thread[k]
  BY <1>3, OthersStay DEF IInv
<1>9. /\ brought'[t] >= e.v /\ brought'[t] >= brought[t]
      /\ brought' \in [Topics -> Nat]
      /\ \A u \in Topics \ {t} : brought'[u] = brought[u]
  BY <1>4, <1>5, <1>7 DEF DataInv, BoardInv
<1>10. BoardInv'
  BY <1>3, <1>9 DEF DataInv, BoardInv
<1>11. ASSUME NEW k \in Threads
       PROVE  CarriesOK(thread'[k], board, events)
  <2>1. CASE k = h
    BY <1>4, <1>5, <1>6, <1>8, <2>1 DEF CarriesOK, t
  <2>2. CASE k # h
    BY <1>8, <2>2 DEF DataInv, CarriedInv
  <2>. QED BY <2>1, <2>2
<1>12. ASSUME NEW j \in Threads, NEW k \in Threads
       PROVE  MakesUpFor(thread'[j], thread'[k], board, brought')
  <2>1. PICK a : a = thread'[j]
    OBVIOUS
  <2>. SUFFICES ASSUME a.pc = "loaded", ~(a.asOf < brought'[a.topic]),
                       Streams(thread'[k], a.topic)
                PROVE  MadeUp(board[a.topic],
                              a.page, a.asOf, thread'[k].pending)
    BY <2>1 DEF MakesUpFor
  <2>2. a = thread[j]
    BY <1>6, <1>8, <2>1
  <2>3. /\ a.topic \in Topics /\ a.asOf \in Nat
        /\ LoadedOK(board[a.topic], events[a.topic], a.page, a.asOf)
    <3>1. /\ a.topic \in Topics
          /\ LoadedOK(board[a.topic], events[a.topic], a.page, a.asOf)
      BY <2>2
      DEF IInv, ShapeInv, ThreadOK, Fields, DataInv, CarriedInv, CarriesOK
    <3>. QED BY <3>1 DEF LoadedOK
  <2>4. /\ brought'[a.topic] >= brought[a.topic]
        /\ brought[a.topic] \in Nat /\ brought'[a.topic] \in Nat
    BY <1>9, <2>3 DEF DataInv, BoardInv
  <2>5. ~(a.asOf < brought[a.topic])
    BY <2>3, <2>4
  <2>6. CASE k = h
    <3>1. a.topic = t
      BY <1>6, <1>8, <2>6 DEF Streams
    <3>2. Streams(thread[h], t) /\ thread[h].pending = p
      BY <1>1, <1>4, <1>6 DEF Streams, t, p
    <3>3. MadeUp(board[t], a.page, a.asOf, p)
      BY <2>2, <2>5, <3>1, <3>2 DEF DataInv, CarriedInv, MakesUpFor
    <3>4. a.asOf >= e.v
      BY <1>5, <1>9, <2>3, <2>4, <3>1
    <3>5. MadeUp(board[t], a.page, a.asOf, Tail(p))
      BY <1>3, <1>4, <2>3, <3>3, <3>4, MadeUpRead DEF e
    <3>. QED BY <1>6, <1>8, <2>6, <3>1, <3>5
  <2>7. CASE k # h
    BY <1>8, <2>2, <2>5, <2>7 DEF DataInv, CarriedInv, MakesUpFor
  <2>. QED BY <2>6, <2>7
<1>13. CarriedInv'
  BY <1>3, <1>11, <1>12 DEF CarriedInv
<1>14. CacheOK(board[t], Entry(t)) /\ CacheOK(board[t], Applied(Entry(t), e))
  <2>1. CacheOK(board[t], Entry(t))
    BY <1>4, EntryOK DEF DataInv
  <2>. QED BY <1>4, <1>5, <2>1, AppliedFacts
<1>15. DOMAIN messageCache = Topics
  BY DEF IInv, ShapeInv
<1>16. CachesInv'
  BY <1>3, <1>4, <1>7, <1>14, <1>15 DEF DataInv, CachesInv
<1>17. OutlookInv'
  <2>. SUFFICES ASSUME NEW u \in Topics \ spoilt', NEW k \in Threads,
                       Streams(thread'[k], u)
                PROVE  \A i \in OnPage(board[u]) :
                         WillBeRight(board[u], Entry(u)', thread'[k].pending, i)
    BY <1>3 DEF OutlookInv
  <2>1. u \notin spoilt
    BY <1>7
  <2>2. CASE k = h
    <3>1. u = t
      BY <1>6, <1>8, <2>2 DEF Streams
    <3>2. Streams(thread[h], t) /\ thread[h].pending = p
      BY <1>1, <1>4, <1>6 DEF Streams, t, p
    <3>3. \A i \in OnPage(board[t]) : WillBeRight(board[t], Entry(t), p, i)
      BY <2>1, <3>1, <3>2 DEF DataInv, OutlookInv
    <3>4. \A i \in OnPage(board[t]) :
            WillBeRight(board[t], Applied(Entry(t), e), Tail(p), i)
      BY <1>3, <1>4, <1>14, <3>3, OutlookRead DEF e
    <3>5. Entry(u)' = Applied(Entry(t), e)
      <4>1. Applied(Entry(t), e) # None
        <5>1. Len(board[t]) \in Nat
          BY <1>4, BoardFacts
        <5>. QED BY <1>14, <5>1, EntryIsThere
      <4>. QED BY <1>4, <1>7, <1>15, <3>1, <4>1 DEF Entry
    <3>. QED BY <1>6, <1>8, <2>2, <3>1, <3>4, <3>5
  <2>3. CASE k # h
    <3>1. thread'[k] = thread[k] /\ Streams(thread[k], u)
      BY <1>8, <2>3
    <3>2. u \in Streamed(Threads \ {h})
      BY <2>3, <3>1 DEF Streamed, Streams
    <3>3. u # t
      BY <1>7, <3>2
    <3>4. Entry(u)' = Entry(u)
      BY <1>7, <1>15, <3>3 DEF Entry
    <3>. QED BY <2>1, <3>1, <3>4 DEF DataInv, OutlookInv
  <2>. QED BY <2>2, <2>3
<1>. QED BY <1>10, <1>13, <1>16, <1>17 DEF DataInv

-----------------------------------------------------------------------------
(* What the other actions have in common. *)

LEMMA StillKeepsCache ==
  ASSUME IInv, DataInv, FollowedInv,
         UNCHANGED <<board, events, cacheVars, thread, subscribedTopics>>
  PROVE  DataInv' /\ FollowedInv'
<1>1. \A k \in Threads : Harmless(thread[k], thread'[k])
  BY StayingIsHarmless DEF DataInv
<1>2. DataInv'
  BY <1>1, DataKept
<1>3. FollowedInv'
  BY FollowedKept
<1>. QED BY <1>2, <1>3

LEMMA MoveKeepsFollowed ==
  ASSUME IInv, FollowedInv, NEW h \in Threads, NEW r, Become(h, r),
         subscribedTopics' \subseteq subscribedTopics,
         \A t \in subscribedTopics' : Follows(thread[h], t) => Follows(r, t)
  PROVE  FollowedInv'
<1>1. \A k \in Threads : \A t \in subscribedTopics' :
        Follows(thread[k], t) => Follows(thread'[k], t)
  BY OthersStay DEF IInv
<1>. QED BY <1>1, FollowedKept

LEMMA MoveKeepsCache ==
  ASSUME IInv, DataInv, FollowedInv, NEW h \in Threads, NEW r, Become(h, r),
         Harmless(thread[h], r), UNCHANGED <<board, events, cacheVars>>,
         subscribedTopics' \subseteq subscribedTopics,
         \A t \in subscribedTopics' : Follows(thread[h], t) => Follows(r, t)
  PROVE  DataInv' /\ FollowedInv'
BY MoveKeepsData, MoveKeepsFollowed

(* The goroutine goes on to something that is neither a stream nor in need *)
(* of anything.                                                            *)
LEMMA PlainMoveKeepsCache ==
  ASSUME IInv, DataInv, FollowedInv, NEW h \in Threads, NEW r, Become(h, r),
         ~IsStream(thread[h]), ~IsStream(r),
         r.pc \notin {"written", "loaded"}, r.pc = "write" => r.op \in Writes,
         UNCHANGED <<board, events, cacheVars, subscribedTopics>>
  PROVE  DataInv' /\ FollowedInv'
<1>1. Harmless(thread[h], r)
  BY DEF Harmless, Streams
<1>2. \A t : ~Follows(thread[h], t)
  BY DEF Follows
<1>. QED BY <1>1, <1>2, MoveKeepsCache

(* Those goroutines have no streams. *)
LEMMA NoStream ==
  ASSUME IInv, NEW h \in Threads,
         thread[h].pc \notin PcsOfStream \cup PcsOfDrawing
  PROVE  ~IsStream(thread[h])
<1>1. PICK r : r = thread[h]
  OBVIOUS
<1>2. ThreadOK(r) /\ r.pc \notin PcsOfStream \cup PcsOfDrawing
  BY <1>1 DEF IInv, ShapeInv
<1>3. "pending" \notin DOMAIN r
  BY <1>2 DEF ThreadOK, Fields, PcsAlone, PcsOfTopic
<1>. QED BY <1>1, <1>3 DEF IsStream

LEMMA GoKeepsCache ==
  ASSUME IInv, DataInv, FollowedInv, NEW r, Go(r), ~IsStream(r),
         r.pc \in Begins, r.pc = "write" => r.op \in Writes,
         UNCHANGED <<boardVars, streamVars, cacheVars>>
  PROVE  DataInv' /\ FollowedInv'
<1>1. PICK h \in Threads : At(h, "idle") /\ Become(h, r)
  BY DEF Go
<1>2. ~IsStream(thread[h])
  BY <1>1, NoStream DEF At, PcsOfStream, PcsOfDrawing
<1>3. UNCHANGED <<board, events, cacheVars, subscribedTopics>>
  BY DEF boardVars, streamVars
<1>. QED BY <1>1, <1>2, <1>3, PlainMoveKeepsCache DEF Begins

LEMMA MainLoopKeepsCache ==
  ASSUME IInv, DataInv, FollowedInv, MainLoop
  PROVE  DataInv' /\ FollowedInv'
<1>1. CASE PressReload
  BY <1>1, GoKeepsCache DEF PressReload, LoadMessages, IsStream, Begins
<1>2. CASE PressRefresh
  BY <1>2, GoKeepsCache DEF PressRefresh, IsStream, Begins
<1>3. CASE PressCreateTopic
  BY <1>3, GoKeepsCache DEF PressCreateTopic, IsStream, Begins
<1>4. CASE PressCreateUser
  BY <1>4, GoKeepsCache DEF PressCreateUser, IsStream, Begins
<1>5. ASSUME NEW op \in {"post", "update", "like", "delete"}, PressWrite(op)
      PROVE  DataInv' /\ FollowedInv'
  <2>1. PICK r, id, t :
        /\ r = [pc |-> "write", op |-> op, id |-> id, topic |-> t]
        /\ Go(r)
    BY <1>5 DEF PressWrite
  <2>2. ~IsStream(r) /\ r.pc = "write" /\ r.op \in Writes
    BY <2>1 DEF IsStream, Writes
  <2>3. UNCHANGED <<boardVars, streamVars, cacheVars>>
    BY <1>5 DEF PressWrite
  <2>. QED BY <2>1, <2>2, <2>3, GoKeepsCache DEF Begins
<1>6. ASSUME NEW op \in {"select", "subscribe"}, PressTopic(op)
      PROVE  DataInv' /\ FollowedInv'
  <2>1. UNCHANGED <<board, events, cacheVars, thread, subscribedTopics>>
    BY <1>6 DEF PressTopic, boardVars, streamVars
  <2>. QED BY <2>1, StillKeepsCache
<1>7. CASE IndexPanics
  <2>1. UNCHANGED <<board, events, cacheVars, thread, subscribedTopics>>
    BY <1>7 DEF IndexPanics, boardVars, streamVars
  <2>. QED BY <2>1, StillKeepsCache
<1>8. CASE SelectTopic
  BY <1>8, GoKeepsCache DEF SelectTopic, LoadMessages, IsStream, Begins
<1>9. CASE ChooseSubscription
  <2>1. PICK r : r = [pc |-> "subscribe", topic |-> Chosen] /\ Go(r)
    BY <1>9 DEF ChooseSubscription
  <2>2. ~IsStream(r) /\ r.pc = "subscribe"
    BY <2>1 DEF IsStream
  <2>3. UNCHANGED <<boardVars, streamVars, cacheVars>>
    BY <1>9 DEF ChooseSubscription
  <2>. QED BY <2>1, <2>2, <2>3, GoKeepsCache DEF Begins
<1>. QED BY <1>1, <1>2, <1>3, <1>4, <1>5, <1>6, <1>7, <1>8, <1>9 DEF MainLoop

LEMMA TopicsDrawingKeepsCache ==
  ASSUME IInv, DataInv, FollowedInv,
         CopyTopics \/ \E d \in listDrawings : DrawTopics(d)
  PROVE  DataInv' /\ FollowedInv'
<1>1. UNCHANGED <<board, events, cacheVars, thread, subscribedTopics>>
  BY DEF CopyTopics, DrawTopics, boardVars, streamVars
<1>. QED BY <1>1, StillKeepsCache

-----------------------------------------------------------------------------
(* The steps of a goroutine that change neither board nor cache. *)

LEMMA LoadAsksKeepsCache ==
  ASSUME IInv, DataInv, FollowedInv, NEW h \in Threads, LoadAsks(h)
  PROVE  DataInv' /\ FollowedInv'
<1>1. PICK r : /\ r = [pc |-> "loaded", topic |-> currentTopicId,
                       page |-> Page(currentTopicId),
                       asOf |-> events[currentTopicId]]
               /\ Become(h, r)
  BY DEF LoadAsks
<1>2. ~IsStream(thread[h])
  BY NoStream DEF LoadAsks, At, PcsOfStream, PcsOfDrawing
<1>3. Harmless(thread[h], r)
  BY <1>1 DEF Harmless, Streams, IsStream, IInv, ShapeInv
<1>4. \A t : ~Follows(thread[h], t)
  BY <1>2 DEF Follows
<1>5. UNCHANGED <<board, events, cacheVars, subscribedTopics>>
  BY DEF LoadAsks, boardVars, streamVars
<1>. QED BY <1>1, <1>3, <1>4, <1>5, MoveKeepsCache

(* A stream goes on being one when something is drawn, unless it has been  *)
(* closed.                                                                 *)
LEMMA RedrawnIsHarmless ==
  ASSUME IInv, DataInv, NEW h \in Threads, thread[h].pc \in {"show", "draw"},
         NEW pc \in {"draw", "recv"}, NEW rows, NEW q,
         q = [thread[h] EXCEPT !.pc = pc, !.rows = rows]
  PROVE  Harmless(thread[h], q) /\ \A t : Follows(thread[h], t) => Follows(q, t)
<1>1. PICK r : r = thread[h]
  OBVIOUS
<1>2. DOMAIN q = DOMAIN r
  BY <1>1
<1>3. CASE IsStream(r)
  <2>1. /\ DOMAIN r = StreamFields /\ r.from \in Nat
        /\ r.open \/ r.pending = <<>>
    BY <1>1, <1>3, StreamShape
  <2>2. /\ q.pc = pc /\ q.topic = r.topic /\ q.pending = r.pending
        /\ q.open = r.open /\ q.closed = r.closed /\ q.from = r.from
        /\ IsStream(q)
    BY <1>1, <2>1 DEF StreamFields, IsStream
  <2>. QED BY <1>1, <1>3, <2>1, <2>2 DEF Harmless, Streams, Follows
<1>4. CASE ~IsStream(r)
  <2>1. ThreadOK(r) /\ r.pc \in {"show", "draw"}
    BY <1>1 DEF IInv, ShapeInv
  <2>2. "pc" \in DOMAIN r
    BY <2>1 DEF ThreadOK, Fields, PcsOfDrawing, StreamFields
  <2>3. q.pc = pc /\ ~IsStream(q)
    BY <1>1, <1>2, <1>4, <2>2 DEF IsStream
  <2>. QED BY <1>1, <1>4, <2>3 DEF Harmless, Streams, Follows
<1>. QED BY <1>3, <1>4

LEMMA ResumedIsHarmless ==
  ASSUME IInv, DataInv, NEW h \in Threads, thread[h].pc \in {"show", "draw"}
  PROVE  /\ Harmless(thread[h], Resumed(thread[h]))
         /\ \A t : Follows(thread[h], t) => Follows(Resumed(thread[h]), t)
<1>1. CASE IsStream(thread[h]) /\ ~thread[h].closed
  <2>1. PICK q : q = [thread[h] EXCEPT !.pc = "recv", !.rows = <<>>]
    OBVIOUS
  <2>2. Resumed(thread[h]) = q
    BY <1>1, <2>1 DEF Resumed
  <2>. QED BY <2>1, <2>2, RedrawnIsHarmless
<1>2. CASE ~(IsStream(thread[h]) /\ ~thread[h].closed)
  <2>1. Resumed(thread[h]) = Idle
    BY <1>2 DEF Resumed
  <2>. QED BY <1>2, <2>1 DEF Harmless, Streams, Follows, IsStream, Idle
<1>. QED BY <1>1, <1>2

LEMMA UpdateMessageViewKeepsCache ==
  ASSUME IInv, DataInv, FollowedInv, NEW h \in Threads, UpdateMessageView(h)
  PROVE  DataInv' /\ FollowedInv'
<1>1. /\ thread[h].pc = "show"
      /\ UNCHANGED <<board, events, cacheVars, subscribedTopics>>
  BY DEF UpdateMessageView, At, boardVars, streamVars
<1>2. PICK q : /\ Become(h, q)
               /\ \/ q = Resumed(thread[h])
                  \/ q = [thread[h] EXCEPT !.pc = "draw",
                            !.rows = Rows(Entry(thread[h].topic))]
  BY DEF UpdateMessageView
<1>3. /\ Harmless(thread[h], q)
      /\ \A t : Follows(thread[h], t) => Follows(q, t)
  BY <1>1, <1>2, ResumedIsHarmless, RedrawnIsHarmless
<1>. QED BY <1>1, <1>2, <1>3, MoveKeepsCache

LEMMA DrawKeepsCache ==
  ASSUME IInv, DataInv, FollowedInv, NEW h \in Threads, Draw(h)
  PROVE  DataInv' /\ FollowedInv'
<1>1. /\ thread[h].pc = "draw" /\ Become(h, Resumed(thread[h]))
      /\ UNCHANGED <<board, events, cacheVars, subscribedTopics>>
  BY DEF Draw, At, boardVars, streamVars
<1>. QED BY <1>1, ResumedIsHarmless, MoveKeepsCache

LEMMA TopicsStepsKeepCache ==
  ASSUME IInv, DataInv, FollowedInv, NEW h \in Threads,
         \/ RefreshAsks(h) \/ RefreshStores(h) \/ CreateAsks(h)
         \/ CreateStores(h) \/ Fails(h)
  PROVE  DataInv' /\ FollowedInv'
<1>1. /\ thread[h].pc \notin PcsOfStream \cup PcsOfDrawing
      /\ UNCHANGED <<board, events, cacheVars, subscribedTopics>>
  BY DEF RefreshAsks, RefreshStores, CreateAsks, CreateStores, Fails, At,
         PcsOfStream, PcsOfDrawing, boardVars, streamVars
<1>2. PICK r : /\ Become(h, r) /\ ~IsStream(r)
               /\ r.pc \notin {"write", "written", "loaded"}
  <2>1. CASE RefreshAsks(h)
    <3>1. PICK r : r = [pc |-> "refreshed", order |-> exists] /\ Become(h, r)
      BY <2>1 DEF RefreshAsks
    <3>. QED BY <3>1 DEF IsStream
  <2>2. CASE RefreshStores(h) \/ CreateStores(h) \/ Fails(h)
    <3>1. PICK r : r = Idle /\ Become(h, r)
      BY <2>2 DEF RefreshStores, CreateStores, Fails
    <3>. QED BY <3>1 DEF IsStream, Idle
  <2>3. CASE CreateAsks(h)
    <3>1. PICK r, t : r = [pc |-> "created", topic |-> t] /\ Become(h, r)
      BY <2>3 DEF CreateAsks
    <3>. QED BY <3>1 DEF IsStream
  <2>. QED BY <2>1, <2>2, <2>3
<1>3. ~IsStream(thread[h])
  BY <1>1, NoStream
<1>. QED BY <1>1, <1>2, <1>3, PlainMoveKeepsCache

LEMMA SubscribeChecksKeepsCache ==
  ASSUME IInv, DataInv, FollowedInv, NEW h \in Threads, SubscribeChecks(h)
  PROVE  DataInv' /\ FollowedInv'
<1>1. /\ thread[h].pc = "subscribe"
      /\ UNCHANGED <<board, events, cacheVars, subscribedTopics>>
  BY DEF SubscribeChecks, At, boardVars, streamVars
<1>2. ~IsStream(thread[h]) /\ "pc" \in DOMAIN thread[h]
  BY <1>1 DEF IInv, ShapeInv, ThreadOK, Fields, PcsOfTopic, IsStream
<1>3. PICK r : /\ Become(h, r)
               /\ r = Idle \/ r = [thread[h] EXCEPT !.pc = "ask"]
  BY DEF SubscribeChecks
<1>4. ~IsStream(r) /\ r.pc \in {"idle", "ask"}
  BY <1>2, <1>3 DEF IsStream, Idle
<1>. QED BY <1>1, <1>2, <1>3, <1>4, PlainMoveKeepsCache

LEMMA SubscribeAsksKeepsCache ==
  ASSUME IInv, DataInv, FollowedInv, NEW h \in Threads, SubscribeAsks(h)
  PROVE  DataInv' /\ FollowedInv'
<1>. DEFINE t == thread[h].topic
<1>1. PICK r : /\ r = [pc |-> "mark", topic |-> t, from |-> FirstMissing(t),
                       open |-> FALSE, pending |-> <<>>, closed |-> FALSE,
                       rows |-> <<>>]
               /\ Become(h, r)
  BY DEF SubscribeAsks
<1>2. /\ thread[h].pc = "ask"
      /\ UNCHANGED <<board, events, cacheVars, subscribedTopics>>
  BY DEF SubscribeAsks, At, boardVars, streamVars
<1>3. ~IsStream(thread[h]) /\ t \in Topics
  BY <1>2 DEF IInv, ShapeInv, ThreadOK, Fields, PcsOfTopic, IsStream
<1>4. FirstMissing(t) \in Nat
  <2>1. CacheOK(board[t], Entry(t))
    BY <1>3, EntryOK DEF DataInv
  <2>2. PICK s : s = Entry(t).order
    OBVIOUS
  <2>3. s \in Seq(Nat)
    BY <2>1, <2>2 DEF CacheOK
  <2>4. s # <<>> => Last(s) + 1 \in Nat
    BY <2>3 DEF Last
  <2>. QED BY <2>2, <2>4 DEF FirstMissing
<1>5. Harmless(thread[h], r)
  BY <1>1, <1>4 DEF Harmless, Streams
<1>6. \A u : ~Follows(thread[h], u)
  BY <1>3 DEF Follows
<1>. QED BY <1>1, <1>2, <1>5, <1>6, MoveKeepsCache

LEMMA MarkSubscribedKeepsCache ==
  ASSUME IInv, DataInv, FollowedInv, NEW h \in Threads, MarkSubscribed(h)
  PROVE  DataInv' /\ FollowedInv'
<1>. DEFINE t == thread[h].topic
<1>1. PICK q : q = [thread[h] EXCEPT !.pc = "register"] /\ Become(h, q)
  BY DEF MarkSubscribed
<1>2. /\ thread[h].pc = "mark"
      /\ subscribedTopics' = subscribedTopics \cup {t}
      /\ UNCHANGED <<board, events, cacheVars>>
  BY DEF MarkSubscribed, At, boardVars
<1>3. IsStream(thread[h]) /\ ~thread[h].closed
  BY <1>2 DEF IInv, ShapeInv, ThreadOK, Fields, PcsOfStream, IsStream,
              StreamFields, ChannelsInv
<1>4. /\ DOMAIN thread[h] = StreamFields /\ thread[h].from \in Nat
      /\ thread[h].open \/ thread[h].pending = <<>>
  BY <1>3, StreamShape
<1>5. /\ q.pc = "register" /\ q.topic = t /\ q.closed = thread[h].closed
      /\ q.open = thread[h].open /\ q.pending = thread[h].pending
      /\ q.from = thread[h].from /\ IsStream(q)
  BY <1>1, <1>4 DEF StreamFields, IsStream
<1>6. Harmless(thread[h], q)
  BY <1>3, <1>4, <1>5 DEF Harmless, Streams
<1>7. DataInv'
  BY <1>1, <1>2, <1>6, MoveKeepsData
<1>8. /\ thread'[h] = q
      /\ \A k \in Threads : k # h => thread'[k] = thread[k]
  BY <1>1, OthersStay DEF IInv
<1>9. Follows(thread'[h], t)
  BY <1>3, <1>5, <1>8 DEF Follows
<1>10. ASSUME NEW u \in subscribedTopics
       PROVE  \E k \in Threads : Follows(thread'[k], u)
  <2>1. PICK k \in Threads : Follows(thread[k], u)
    BY DEF FollowedInv
  <2>2. k # h
    BY <1>2, <2>1 DEF Follows
  <2>. QED BY <1>8, <2>1, <2>2
<1>11. FollowedInv'
  BY <1>2, <1>9, <1>10 DEF FollowedInv
<1>. QED BY <1>7, <1>11

LEMMA RegisterChannelKeepsCache ==
  ASSUME IInv, DataInv, FollowedInv, NEW h \in Threads, RegisterChannel(h)
  PROVE  DataInv' /\ FollowedInv'
<1>1. PICK q : q = [thread[h] EXCEPT !.pc = "recv"] /\ Become(h, q)
  BY DEF RegisterChannel
<1>2. /\ thread[h].pc = "register"
      /\ UNCHANGED <<board, events, cacheVars, subscribedTopics>>
  BY DEF RegisterChannel, At, boardVars
<1>3. IsStream(thread[h])
  BY <1>2 DEF IInv, ShapeInv, ThreadOK, Fields, PcsOfStream, IsStream,
              StreamFields
<1>4. /\ DOMAIN thread[h] = StreamFields /\ thread[h].from \in Nat
      /\ thread[h].open \/ thread[h].pending = <<>>
  BY <1>3, StreamShape
<1>5. /\ q.pc = "recv" /\ q.topic = thread[h].topic
      /\ q.closed = thread[h].closed /\ q.open = thread[h].open
      /\ q.pending = thread[h].pending /\ q.from = thread[h].from
      /\ IsStream(q)
  BY <1>1, <1>4 DEF StreamFields, IsStream
<1>6. Harmless(thread[h], q)
  BY <1>3, <1>4, <1>5 DEF Harmless, Streams
<1>7. \A t : Follows(thread[h], t) => Follows(q, t)
  BY <1>5 DEF Follows
<1>. QED BY <1>1, <1>2, <1>6, <1>7, MoveKeepsCache

LEMMA StreamBreaksKeepsCache ==
  ASSUME IInv, DataInv, FollowedInv, NEW h \in Threads, StreamBreaks(h)
  PROVE  DataInv' /\ FollowedInv'
<1>1. /\ Become(h, Idle)
      /\ subscribedTopics' = subscribedTopics \ {thread[h].topic}
      /\ UNCHANGED <<board, events, cacheVars>>
  BY DEF StreamBreaks, boardVars
<1>2. Harmless(thread[h], Idle)
  BY DEF Harmless, Streams, IsStream, Idle
<1>3. \A t \in subscribedTopics' : ~Follows(thread[h], t)
  BY <1>1 DEF Follows
<1>. QED BY <1>1, <1>2, <1>3, MoveKeepsCache

LEMMA SignUpKeepsCache ==
  ASSUME IInv, DataInv, FollowedInv, NEW h \in Threads, SignUp(h)
  PROVE  DataInv' /\ FollowedInv'
<1>. DEFINE open == {t \in Topics : streamsChans[t] # None}
            streams == {streamsChans[t] : t \in open} \cap Threads
<1>1. /\ thread[h].pc = "signup"
      /\ subscribedTopics' = subscribedTopics \ open
      /\ thread' = [k \in Threads |->
           IF k = h THEN [pc |-> "refresh"]
           ELSE IF k \in streams THEN [thread[k] EXCEPT !.closed = TRUE]
           ELSE thread[k]]
      /\ UNCHANGED <<board, events, cacheVars>>
  BY DEF SignUp, At, CloseSubscriptions, boardVars
(* The stream that is closed is one of a topic no longer marked. *)
<1>2. ASSUME NEW k \in streams
      PROVE  /\ IsStream(thread[k])
             /\ thread[k].topic \in open
  <2>1. PICK t \in Topics : t \in open /\ streamsChans[t] = k
    OBVIOUS
  <2>2. Reads(thread[k], t)
    BY <2>1 DEF IInv, ChannelsInv
  <2>. QED BY <2>1, <2>2 DEF Reads
<1>. HIDE DEF open, streams
<1>3. ~IsStream(thread[h])
  BY <1>1, NoStream DEF PcsOfStream, PcsOfDrawing
<1>4. ASSUME NEW k \in Threads PROVE Harmless(thread[k], thread'[k])
  <2>1. CASE k = h
    BY <1>1, <2>1 DEF Harmless, Streams, IsStream
  <2>2. CASE k # h /\ k \in streams
    <3>1. PICK q : q = [thread[k] EXCEPT !.closed = TRUE]
      OBVIOUS
    <3>2. /\ DOMAIN thread[k] = StreamFields /\ thread[k].from \in Nat
          /\ thread[k].open \/ thread[k].pending = <<>>
          /\ thread[k].pc \in PcsOfStream \cup PcsOfDrawing
      BY <1>2, <2>2, StreamShape
    <3>3. /\ q.pc = thread[k].pc /\ q.topic = thread[k].topic
          /\ q.open = thread[k].open /\ q.pending = thread[k].pending
          /\ q.from = thread[k].from /\ IsStream(q)
      BY <3>1, <3>2 DEF StreamFields, IsStream
    <3>4. Harmless(thread[k], q)
      BY <1>2, <2>2, <3>2, <3>3 DEF Harmless, Streams, PcsOfStream, PcsOfDrawing
    <3>. QED BY <1>1, <2>2, <3>1, <3>4
  <2>3. CASE k # h /\ k \notin streams
    <3>1. thread'[k] = thread[k]
      BY <1>1, <2>3
    <3>. QED BY <3>1, StayingIsHarmless DEF DataInv
  <2>. QED BY <2>1, <2>2, <2>3
<1>5. DataInv'
  BY <1>1, <1>4, DataKept
<1>6. ASSUME NEW k \in Threads, NEW t \in subscribedTopics',
             Follows(thread[k], t)
      PROVE  Follows(thread'[k], t)
  <2>1. k # h
    BY <1>3, <1>6 DEF Follows
  <2>2. k \notin streams
    BY <1>1, <1>2, <1>6 DEF Follows
  <2>. QED BY <1>1, <1>6, <2>1, <2>2
<1>7. FollowedInv'
  BY <1>1, <1>6, FollowedKept
<1>. QED BY <1>5, <1>7

(* What is published leaves every stream that there is. *)
LEMMA PublishedFollows ==
  ASSUME NEW threads, NEW t, NEW e, NEW k \in Threads, NEW u,
         Follows(threads[k], u)
  PROVE  Follows(Published(threads, t, e)[k], u)
<1>1. PICK r : r = threads[k]
  OBVIOUS
<1>2. PICK q : q = [r EXCEPT !.pending = Append(@, e)]
  OBVIOUS
<1>3. Published(threads, t, e)[k] \in {r, q}
  BY <1>1, <1>2 DEF Published
<1>4. /\ DOMAIN q = DOMAIN r /\ q.topic = r.topic
      /\ q.closed = r.closed /\ q.pc = r.pc
  BY <1>2
<1>. QED BY <1>1, <1>3, <1>4 DEF Follows, IsStream

LEMMA BoardStepsKeepFollowed ==
  ASSUME IInv, FollowedInv, Others \/ \E h \in Threads : WriteAsks(h)
  PROVE  FollowedInv'
<1>1. UNCHANGED subscribedTopics
  BY DEF Others, WriteAsks, streamVars
<1>2. CASE Others
  <2>1. PICK t, e : thread' = Published(thread, t, e)
    BY <1>2 DEF Others
  <2>. QED BY <1>1, <2>1, PublishedFollows, FollowedKept
<1>3. ASSUME NEW h \in Threads, WriteAsks(h)
      PROVE  FollowedInv'
  <2>1. PICK w, t, e : thread' = Published([thread EXCEPT ![h] = w], t, e)
    BY <1>3 DEF WriteAsks
  <2>2. ~IsStream(thread[h])
    BY <1>3, NoStream DEF WriteAsks, At, PcsOfStream, PcsOfDrawing
  <2>3. \A k \in Threads : \A u : Follows(thread[k], u) =>
          [thread EXCEPT ![h] = w][k] = thread[k]
    BY <2>2 DEF Follows, IInv, ShapeInv
  <2>4. \A k \in Threads : \A u \in subscribedTopics' :
          Follows(thread[k], u) => Follows(thread'[k], u)
    BY <2>1, <2>3, PublishedFollows
  <2>. QED BY <1>1, <2>4, FollowedKept
<1>. QED BY <1>2, <1>3

LEMMA StoresKeepFollowed ==
  ASSUME IInv, FollowedInv, NEW h \in Threads,
         LoadStores(h) \/ WriteStores(h)
  PROVE  FollowedInv'
<1>1. UNCHANGED subscribedTopics /\ thread[h].pc \in {"loaded", "written"}
  BY DEF LoadStores, WriteStores, At, streamVars
<1>2. PICK r : Become(h, r)
  BY DEF LoadStores, WriteStores
<1>3. ~IsStream(thread[h])
  BY <1>1, NoStream DEF PcsOfStream, PcsOfDrawing
<1>. QED BY <1>1, <1>2, <1>3, MoveKeepsFollowed DEF Follows

LEMMA StreamsKeepFollowed ==
  ASSUME IInv, DataInv, FollowedInv, NEW h \in Threads,
         StreamOpens(h) \/ Receive(h)
  PROVE  FollowedInv'
<1>1. UNCHANGED subscribedTopics
  BY DEF StreamOpens, Receive, streamVars
<1>2. PICK r : r = thread[h]
  OBVIOUS
<1>3. CASE StreamOpens(h)
  <2>1. PICK past, q : q = [r EXCEPT !.open = TRUE, !.pending = past]
                       /\ Become(h, q)
    BY <1>2, <1>3 DEF StreamOpens
  <2>2. /\ q.topic = r.topic /\ q.closed = r.closed /\ q.pc = r.pc
        /\ DOMAIN q = DOMAIN r
    BY <2>1
  <2>3. \A t : Follows(thread[h], t) => Follows(q, t)
    BY <1>2, <2>2 DEF Follows, IsStream
  <2>. QED BY <1>1, <2>1, <2>3, MoveKeepsFollowed
<1>4. CASE Receive(h)
  <2>1. PICK q : q = [[r EXCEPT !.pending = Tail(@)] EXCEPT !.pc = "show"]
                 /\ Become(h, q)
    BY <1>2, <1>4 DEF Receive
  <2>2. /\ q.topic = r.topic /\ q.closed = r.closed /\ DOMAIN q = DOMAIN r
        /\ IsStream(r) => q.pc = "show"
    <3>1. IsStream(r) => DOMAIN r = StreamFields
      BY <1>2, StreamShape
    <3>. QED BY <2>1, <3>1 DEF StreamFields
  <2>3. \A t : Follows(thread[h], t) => Follows(q, t)
    BY <1>2, <2>2 DEF Follows, IsStream
  <2>. QED BY <1>1, <2>1, <2>3, MoveKeepsFollowed
<1>. QED BY <1>3, <1>4

-----------------------------------------------------------------------------

LEMMA InitEstablishesCache == Init => DataInv /\ FollowedInv
<1>. SUFFICES ASSUME Init PROVE DataInv /\ FollowedInv
  OBVIOUS
<1>1. \A h \in Threads : thread[h] = Idle
  BY DEF Init
<1>2. ~IsStream(Idle) /\ Idle.pc = "idle"
  BY DEF Idle, IsStream
<1>3. /\ DOMAIN board = Topics /\ events \in [Topics -> Nat]
      /\ \A t \in Topics : BoardOK(board[t], events[t])
  <2>1. \A t \in Topics : /\ board[t] \in {<<>>, <<1>>}
                          /\ events[t] = Len(board[t])
    BY DEF Init
  <2>2. DOMAIN board = Topics /\ DOMAIN events = Topics
    BY DEF Init
  <2>3. \A t \in Topics : events[t] \in Nat /\ BoardOK(board[t], events[t])
    <3>. SUFFICES ASSUME NEW t \in Topics
                  PROVE  events[t] \in Nat /\ BoardOK(board[t], events[t])
      OBVIOUS
    <3>1. 0 \in 0..MaxEvents /\ 1 \in 0..MaxEvents
      BY GuiClientAssumption
    <3>2. BoardOK(<<>>, 0) /\ BoardOK(<<1>>, 1)
      <4>1. <<>> \in Seq(0..0) /\ <<1>> \in Seq(0..1)
        OBVIOUS
      <4>. QED BY <3>1, <4>1 DEF BoardOK
    <3>3. CASE board[t] = <<>>
      BY <2>1, <3>2, <3>3
    <3>4. CASE board[t] = <<1>>
      <4>1. Len(<<1>>) = 1
        OBVIOUS
      <4>2. events[t] = 1
        BY <2>1, <3>4, <4>1
      <4>. QED BY <3>2, <3>4, <4>2
    <3>. QED BY <2>1, <3>3, <3>4
  <2>4. events = [t \in Topics |-> events[t]]
    BY DEF Init
  <2>. QED BY <2>2, <2>3, <2>4
<1>4. BoardInv
  BY <1>3 DEF BoardInv, Init
<1>5. CarriedInv
  BY <1>1, <1>2 DEF CarriedInv, CarriesOK, MakesUpFor
<1>6. CachesInv
  <2>1. \A t \in Topics : CacheOK(board[t], Page(t))
    BY <1>3, PageIsRight
  <2>2. \A t \in Topics : messageCache[t] # None => messageCache[t] = Page(t)
    BY DEF Init
  <2>. QED BY <2>1, <2>2 DEF CachesInv
<1>7. OutlookInv
  BY <1>1, <1>2 DEF OutlookInv, Streams
<1>8. FollowedInv
  BY DEF Init, FollowedInv
<1>. QED BY <1>4, <1>5, <1>6, <1>7, <1>8 DEF DataInv

LEMMA NextKeepsCache ==
  IInv /\ DataInv /\ FollowedInv /\ [Next]_vars => DataInv' /\ FollowedInv'
<1>. SUFFICES ASSUME IInv, DataInv, FollowedInv, [Next]_vars
              PROVE  DataInv' /\ FollowedInv'
  OBVIOUS
<1>1. CASE UNCHANGED vars
  <2>1. UNCHANGED <<board, events, cacheVars, thread, subscribedTopics>>
    BY <1>1 DEF vars, boardVars, streamVars
  <2>. QED BY <2>1, StillKeepsCache
<1>2. CASE MainLoop
  BY <1>2, MainLoopKeepsCache
<1>3. CASE Others
  BY <1>3, OthersKeepData, BoardStepsKeepFollowed
<1>4. CASE CopyTopics \/ \E d \in listDrawings : DrawTopics(d)
  BY <1>4, TopicsDrawingKeepsCache
<1>5. ASSUME NEW h \in Threads, Step(h) PROVE DataInv' /\ FollowedInv'
  <2>1. CASE LoadAsks(h)
    BY <2>1, LoadAsksKeepsCache
  <2>2. CASE LoadStores(h)
    BY <2>2, LoadStoresKeepsData, StoresKeepFollowed
  <2>3. CASE WriteAsks(h)
    BY <2>3, WriteAsksKeepsData, BoardStepsKeepFollowed
  <2>4. CASE WriteStores(h)
    BY <2>4, WriteStoresKeepsData, StoresKeepFollowed
  <2>5. CASE UpdateMessageView(h)
    BY <2>5, UpdateMessageViewKeepsCache
  <2>6. CASE Draw(h)
    BY <2>6, DrawKeepsCache
  <2>7. CASE \/ RefreshAsks(h) \/ RefreshStores(h) \/ CreateAsks(h)
             \/ CreateStores(h) \/ Fails(h)
    BY <2>7, TopicsStepsKeepCache
  <2>8. CASE SubscribeChecks(h)
    BY <2>8, SubscribeChecksKeepsCache
  <2>9. CASE SubscribeAsks(h)
    BY <2>9, SubscribeAsksKeepsCache
  <2>10. CASE StreamOpens(h)
    BY <2>10, StreamOpensKeepsData, StreamsKeepFollowed
  <2>11. CASE MarkSubscribed(h)
    BY <2>11, MarkSubscribedKeepsCache
  <2>12. CASE RegisterChannel(h)
    BY <2>12, RegisterChannelKeepsCache
  <2>13. CASE Receive(h)
    BY <2>13, ReceiveKeepsData, StreamsKeepFollowed
  <2>14. CASE StreamBreaks(h)
    BY <2>14, StreamBreaksKeepsCache
  <2>15. CASE SignUp(h)
    BY <2>15, SignUpKeepsCache
  <2>. QED BY <1>5, <2>1, <2>2, <2>3, <2>4, <2>5, <2>6, <2>7, <2>8, <2>9, <2>10,
              <2>11, <2>12, <2>13, <2>14, <2>15 DEF Step
<1>. QED BY <1>1, <1>2, <1>3, <1>4, <1>5 DEF Next

LEMMA CacheInvariant == Spec => [](DataInv /\ FollowedInv)
<1>. QED BY ClientInvariant, InitEstablishesCache, NextKeepsCache, PTL DEF Spec

(* When all is quiet, a topic that is marked as subscribed has the board's *)
(* messages in its cache, each once, unless something too old has been     *)
(* stored there (loadMessagesForCurrentTopic, handlePostMessage,           *)
(* subscribeToTopic, handleSubscriptionStream).                            *)
THEOREM SubscribedCacheIsTheBoard == Spec => []CacheIsTheBoard
<1>1. ASSUME DataInv, FollowedInv, IInv PROVE CacheIsTheBoard
  <2>. SUFFICES ASSUME Quiet, NEW t \in subscribedTopics \ spoilt
                PROVE  IsTheBoard(t, Entry(t))
    BY DEF CacheIsTheBoard
  <2>1. PICK h \in Threads : Follows(thread[h], t)
    BY <1>1 DEF FollowedInv
  <2>2. thread[h] # Idle
    BY <2>1 DEF Follows, IsStream, Idle
  <2>3. thread[h].open /\ thread[h].pending = <<>>
    BY <2>2 DEF Quiet
  <2>4. Streams(thread[h], t)
    BY <2>1, <2>3 DEF Follows, Streams
  <2>5. t \in Topics /\ BoardOK(board[t], events[t])
    BY <1>1, <2>1, StreamShape DEF Follows
  <2>6. \A i \in OnPage(board[t]) : WillBeRight(board[t], Entry(t), <<>>, i)
    BY <1>1, <2>3, <2>4, <2>5 DEF DataInv, OutlookInv
  <2>7. \A i \in OnPage(board[t]) : Right(board[t], Entry(t), i)
    BY <2>6 DEF WillBeRight
  <2>8. CacheOK(board[t], Entry(t))
    BY <1>1, <2>5, EntryOK DEF DataInv
  <2>. QED BY <2>5, <2>7, <2>8, BoardIsAllRight
<1>2. IInv /\ DataInv /\ FollowedInv => CacheIsTheBoard
  BY <1>1
<1>. QED BY <1>2, ClientInvariant, CacheInvariant, PTL

=============================================================================
