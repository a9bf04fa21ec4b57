--------------------------- MODULE Subscriptions ---------------------------
(***************************************************************************)
(* The subscriptions of one data node.  The ACK processor changes the      *)
(* storage under its lock and afterwards, under topicMu, puts an event     *)
(* into the channel of each subscriber of the topic, or drops it if the    *)
(* channel is full.  A SubscribeTopic handler exchanges its token, reads   *)
(* the past messages and opens its channel with the storage locked, and    *)
(* sends first the past messages, then the events.  Messages are pointers  *)
(* into the storage: what is sent is the message as it is by then.  Writes *)
(* the storage refuses make no event and are left out; an update and a     *)
(* like are one kind of event, "change", which clients treat alike.        *)
(***************************************************************************)
EXTENDS Integers, Sequences, FiniteSets, SequencesExt, Functions

CONSTANTS
  Topics,       \* the topics of the storage
  Users,        \* the users of the storage
  Streams,      \* the SubscribeTopic calls
  Requests,     \* what they ask for: a list of topics and a first message
  Capacity,     \* of a subscription's channel (100)
  MaxWrites,    \* bound: requests applied to the storage
  MaxTokens     \* bound: tokens issued

ASSUME SubscriptionsAssumption ==
  /\ Capacity \in Nat \ {0}
  /\ MaxWrites \in Nat /\ MaxTokens \in Nat
  /\ \A request \in Requests :
       /\ request.topics \in Seq(ToSet(request.topics))
       /\ request.from \in Int

VARIABLES
  versions,     \* topic -> how often message i has changed, also if deleted
  messages,     \* topic -> the ids that are not deleted
  writes,       \* how many requests have been applied
  processor,    \* the ACK processor: event in hand, next subscriber
  tokens,       \* availableSubscriptions: token -> user
  issued,       \* how many tokens have been issued
  active,       \* activeSubscriptions: token -> subscription
  subscribers,  \* subscriptionsByTopic: topic -> list of subscriptions
  stream,       \* the handlers
  channel,      \* the subscriptions' channels
  dropped,      \* the subscriptions that have lost an event
  gone,         \* the calls whose client has hung up
  shown         \* what the client of the call has made of what it was sent

storageVars == <<versions, messages, writes>>
managerVars == <<tokens, issued, active, subscribers>>
vars == <<versions, messages, writes, processor, tokens, issued, active,
          subscribers, stream, channel, dropped, gone, shown>>

MessageIds == 1..MaxWrites
MessageEvent == [op : {"post", "change", "delete"},
                 topic : Topics, id : MessageIds]
NoEvent == [op |-> "none"]

SubscriptionsTypeOK ==
  /\ \A t \in Topics : /\ versions[t] \in Seq(0..MaxWrites)
                       /\ messages[t] \subseteq DOMAIN versions[t]
                       /\ subscribers[t] \in Seq(Streams)
  /\ processor.event \in MessageEvent \cup {NoEvent}
  /\ tokens \subseteq [token : 1..issued, user : Users]
  /\ active \subseteq [token : 1..issued, subscription : Streams]
  /\ \A s \in Streams :
       /\ stream[s].past \in Seq([topic : Topics, id : MessageIds])
       /\ channel[s] \in Seq(MessageEvent) /\ Len(channel[s]) <= Capacity
       /\ shown[s] \subseteq
            [topic : Topics, id : MessageIds, version : 0..MaxWrites]
  /\ dropped \cup gone \subseteq Streams

Init ==                                          \* NewSubscriptionManager
  /\ versions = [t \in Topics |-> <<>>]
  /\ messages = [t \in Topics |-> {}]
  /\ writes = 0
  /\ processor = [event |-> NoEvent, next |-> 0]
  /\ tokens = {} /\ issued = 0
  /\ active = {}
  /\ subscribers = [t \in Topics |-> <<>>]
  /\ stream = [s \in Streams |-> [pc |-> "idle", token |-> 0,
                                  topics |-> <<>>, from |-> 1, past |-> <<>>]]
  /\ channel = [s \in Streams |-> <<>>]
  /\ dropped = {} /\ gone = {}
  /\ shown = [s \in Streams |-> {}]

-----------------------------------------------------------------------------
(* The ACK processor: applyEvent.  It holds topicMu for reading from       *)
(* BeginAddMessageEvent on, until every subscriber has been served.        *)

Idle == processor.event = NoEvent
TopicsLocked == processor.next > 0

Applied(op, t, id) ==
  /\ writes < MaxWrites
  /\ writes' = writes + 1
  /\ processor' = [event |-> [op |-> op, topic |-> t, id |-> id], next |-> 0]

ApplyPost(t) ==
  /\ Idle
  /\ versions' = [versions EXCEPT ![t] = Append(@, 0)]
  /\ messages' = [messages EXCEPT ![t] = @ \cup {Len(versions[t]) + 1}]
  /\ Applied("post", t, Len(versions[t]) + 1)
  /\ UNCHANGED <<managerVars, stream, channel, dropped, gone, shown>>

(* UpdateMessage, or LikeMessage by a new user. *)
ApplyChange(t, id) ==
  /\ Idle
  /\ id \in messages[t]
  /\ versions' = [versions EXCEPT ![t][id] = @ + 1]
  /\ Applied("change", t, id)
  /\ UNCHANGED <<messages, managerVars, stream, channel, dropped, gone, shown>>

(* A like that is refused as a repetition returns the message along with   *)
(* the error, so it is an event all the same.                              *)
ApplyRepeatedLike(t, id) ==
  /\ Idle
  /\ id \in messages[t]
  /\ Applied("change", t, id)
  /\ UNCHANGED <<versions, messages, managerVars, stream, channel, dropped,
                 gone, shown>>

ApplyDelete(t, id) ==
  /\ Idle
  /\ id \in messages[t]
  /\ messages' = [messages EXCEPT ![t] = @ \ {id}]
  /\ Applied("delete", t, id)
  /\ UNCHANGED <<versions, managerVars, stream, channel, dropped, gone,
                 shown>>

BeginAddMessageEvent ==
  /\ ~Idle /\ ~TopicsLocked
  /\ processor' = [processor EXCEPT !.next = 1]
  /\ UNCHANGED <<storageVars, managerVars, stream, channel, dropped, gone,
                 shown>>

(* Mutant: off by one, an event is put into a full channel. *)
SendToFullSubscriber ==
  /\ TopicsLocked
  /\ LET e == processor.event
         subs == subscribers[e.topic]
     IN  /\ processor.next <= Len(subs)
         /\ LET s == subs[processor.next] IN
            IF Len(channel[s]) <= Capacity
            THEN /\ channel' = [channel EXCEPT ![s] = Append(@, e)]
                 /\ UNCHANGED dropped
            ELSE /\ dropped' = dropped \cup {s}
                 /\ UNCHANGED channel
  /\ processor' = [processor EXCEPT !.next = @ + 1]
  /\ UNCHANGED <<storageVars, managerVars, stream, gone, shown>>

(* The non-blocking send to the next subscriber. *)
SendToSubscriber ==
  /\ TopicsLocked
  /\ LET e == processor.event
         subs == subscribers[e.topic]
     IN  /\ processor.next <= Len(subs)
         /\ LET s == subs[processor.next] IN
            IF Len(channel[s]) < Capacity
            THEN /\ channel' = [channel EXCEPT ![s] = Append(@, e)]
                 /\ UNCHANGED dropped
            ELSE /\ dropped' = dropped \cup {s}
                 /\ UNCHANGED channel
  /\ processor' = [processor EXCEPT !.next = @ + 1]
  /\ UNCHANGED <<storageVars, managerVars, stream, gone, shown>>

EndAddMessageEvent ==
  /\ TopicsLocked
  /\ processor.next > Len(subscribers[processor.event.topic])
  /\ processor' = [event |-> NoEvent, next |-> 0]
  /\ UNCHANGED <<storageVars, managerVars, stream, channel, dropped, gone,
                 shown>>

-----------------------------------------------------------------------------
(* Tokens. *)

AddSubscriptionRequest(u) ==
  /\ issued < MaxTokens
  /\ issued' = issued + 1
  /\ tokens' = tokens \cup {[token |-> issued + 1, user |-> u]}
  /\ UNCHANGED <<storageVars, processor, active, subscribers, stream, channel,
                 dropped, gone, shown>>

Accept(s, token, request) ==
  stream' = [stream EXCEPT ![s] = [pc |-> "validated", token |-> token,
               topics |-> request.topics, from |-> request.from,
               past |-> <<>>]]

(* Mutant: the token stays available. *)
SubscribeWithoutConsuming(s, u, token, request) ==
  /\ stream[s].pc = "idle"
  /\ [token |-> token, user |-> u] \in tokens
  /\ Accept(s, token, request)
  /\ UNCHANGED <<storageVars, processor, managerVars, channel, dropped, gone,
                 shown>>

(* SubscribeTopic begins: ValidateSubscriptionToken consumes a token that  *)
(* was issued to the user.                                                 *)
Subscribe(s, u, token, request) ==
  /\ stream[s].pc = "idle"
  /\ [token |-> token, user |-> u] \in tokens
  /\ tokens' = tokens \ {[token |-> token, user |-> u]}
  /\ Accept(s, token, request)
  /\ UNCHANGED <<storageVars, processor, issued, active, subscribers, channel,
                 dropped, gone, shown>>

(* Any other token, or another user's, is refused and stays as it is. *)
SubscribeRefused(s, u, token) ==
  /\ stream[s].pc = "idle"
  /\ [token |-> token, user |-> u] \notin tokens
  /\ stream' = [stream EXCEPT ![s].pc = "refused"]
  /\ UNCHANGED <<storageVars, processor, managerVars, channel, dropped, gone,
                 shown>>

-----------------------------------------------------------------------------
(* The rest of the handler. *)

(* GetMessagesFromTopics: the messages of each topic from the first one    *)
(* asked for, topic by topic in the order of their ids.                    *)
PastMessages(topics, from) ==
  LET asked == {p \in (DOMAIN topics) \X MessageIds :
                  p[2] \in messages[topics[p[1]]] /\ p[2] >= from}
      Rank(p) == Cardinality({q \in asked :
                   q[1] < p[1] \/ (q[1] = p[1] /\ q[2] <= p[2])})
  IN  [k \in 1..Cardinality(asked) |->
         LET p == CHOOSE p \in asked : Rank(p) = k
         IN  [topic |-> topics[p[1]], id |-> p[2]]]

(* How often a list of topics names one. *)
Times(t, topics) == Cardinality({i \in DOMAIN topics : topics[i] = t})

(* The lists of subscribers with s appended once for each topic it names. *)
Subscribed(s, topics) ==
  [t \in Topics |-> subscribers[t] \o [i \in 1..Times(t, topics) |-> s]]

(* activeSubscriptions with s under its token. *)
Activated(s) ==
  {a \in active : a.token # stream[s].token}
    \cup {[token |-> stream[s].token, subscription |-> s]}

(* Mutant: the storage is unlocked before the channel is opened, that is,  *)
(* the channel may be opened any time after the past has been read.        *)
ReadPastThenOpen(s) ==
  /\ ToSet(stream[s].topics) \subseteq Topics
  /\ \/ /\ stream[s].pc = "validated"
        /\ stream' = [stream EXCEPT ![s].pc = "read",
             ![s].past = PastMessages(stream[s].topics, stream[s].from)]
        /\ UNCHANGED <<active, subscribers>>
     \/ /\ stream[s].pc = "read"
        /\ ~TopicsLocked
        /\ stream' = [stream EXCEPT ![s].pc = "streaming"]
        /\ active' = Activated(s)
        /\ subscribers' = Subscribed(s, stream[s].topics)
  /\ UNCHANGED <<storageVars, processor, tokens, issued, channel, dropped,
                 gone, shown>>

(* The past is read and, still under the storage's lock,                   *)
(* OpenSubscriptionChannel called.                                         *)
ReadPastAndOpen(s) ==
  /\ stream[s].pc = "validated"
  /\ ToSet(stream[s].topics) \subseteq Topics
  /\ ~TopicsLocked
  /\ stream' = [stream EXCEPT ![s].pc = "streaming",
       ![s].past = PastMessages(stream[s].topics, stream[s].from)]
  /\ active' = Activated(s)
  /\ subscribers' = Subscribed(s, stream[s].topics)
  /\ UNCHANGED <<storageVars, processor, tokens, issued, channel, dropped,
                 gone, shown>>

(* A topic that does not exist: nothing is opened. *)
ReadPastFails(s) ==
  /\ stream[s].pc = "validated"
  /\ ~(ToSet(stream[s].topics) \subseteq Topics)
  /\ stream' = [stream EXCEPT ![s].pc = "returning"]
  /\ UNCHANGED <<storageVars, processor, managerVars, channel, dropped, gone,
                 shown>>

(* What a client makes of an event about a message in the given version    *)
(* (client/gui, handleSubscriptionStream).                                 *)
Shown(before, e, version) ==
  {m \in before : m.topic # e.topic \/ m.id # e.id} \cup
    IF e.op = "delete" THEN {}
    ELSE {[topic |-> e.topic, id |-> e.id, version |-> version]}

Show(s, e) ==
  shown' = [shown EXCEPT ![s] = Shown(@, e, versions[e.topic][e.id])]

PostEvent(m) == [op |-> "post", topic |-> m.topic, id |-> m.id]

SendPastMessage(s) ==
  /\ stream[s].pc = "streaming" /\ s \notin gone
  /\ stream[s].past # <<>>
  /\ Show(s, PostEvent(Head(stream[s].past)))
  /\ stream' = [stream EXCEPT ![s].past = Tail(@)]
  /\ UNCHANGED <<storageVars, processor, managerVars, channel, dropped, gone>>

SendEvent(s) ==
  /\ stream[s].pc = "streaming" /\ s \notin gone
  /\ stream[s].past = <<>> /\ channel[s] # <<>>
  /\ Show(s, Head(channel[s]))
  /\ channel' = [channel EXCEPT ![s] = Tail(@)]
  /\ UNCHANGED <<storageVars, processor, managerVars, stream, dropped, gone>>

(* That the client is gone is found out with the next message to be sent. *)
SendFails(s) ==
  /\ stream[s].pc = "streaming" /\ s \in gone
  /\ stream[s].past # <<>> \/ channel[s] # <<>>
  /\ stream' = [stream EXCEPT ![s].pc = "returning"]
  /\ UNCHANGED <<storageVars, processor, managerVars, channel, dropped, gone,
                 shown>>

(* What has not been sent by now is lost with the handler. *)
Forget(s) ==
  /\ stream' = [stream EXCEPT ![s].pc = "closed", ![s].past = <<>>]
  /\ channel' = [channel EXCEPT ![s] = <<>>]
  /\ shown' = [shown EXCEPT ![s] = {}]

(* Mutant: only the first topic's list is cleared. *)
ClearFirstTopic(s) ==
  /\ stream[s].pc = "returning"
  /\ ~TopicsLocked
  /\ active' = {a \in active : a.token # stream[s].token}
  /\ subscribers' =
       IF \A a \in active : a.token # stream[s].token THEN subscribers
       ELSE [subscribers EXCEPT ![Head(stream[s].topics)] = RemoveFirst(@, s)]
  /\ Forget(s)
  /\ UNCHANGED <<storageVars, processor, tokens, issued, dropped, gone>>

(* The list without the first n entries that are s. *)
WithoutFirst(subs, s, n) ==
  LET kept == {i \in DOMAIN subs :
                 subs[i] = s => Cardinality({j \in 1..i : subs[j] = s}) > n}
      Rank(i) == Cardinality({j \in kept : j <= i})
  IN  [k \in 1..Cardinality(kept) |-> subs[CHOOSE i \in kept : Rank(i) = k]]

(* The deferred ClearSubscription closes the channel and removes the       *)
(* subscription, once for each topic it names, if it was ever opened.      *)
(* What it finds under the token is the handler's own (TokensOpenOnce).    *)
ClearSubscription(s) ==
  /\ stream[s].pc = "returning"
  /\ ~TopicsLocked
  /\ active' = {a \in active : a.token # stream[s].token}
  /\ subscribers' =
       IF \A a \in active : a.token # stream[s].token THEN subscribers
       ELSE [t \in Topics |->
               WithoutFirst(subscribers[t], s, Times(t, stream[s].topics))]
  /\ Forget(s)
  /\ UNCHANGED <<storageVars, processor, tokens, issued, dropped, gone>>

HangUp(s) ==
  /\ stream[s].pc \in {"validated", "streaming"} /\ s \notin gone
  /\ gone' = gone \cup {s}
  /\ UNCHANGED <<storageVars, processor, managerVars, stream, channel, dropped,
                 shown>>

ApplyEvent ==
  \/ \E t \in Topics : ApplyPost(t)
  \/ \E t \in Topics, id \in MessageIds :
       \/ ApplyChange(t, id)
       \/ ApplyRepeatedLike(t, id)
       \/ ApplyDelete(t, id)

SubscribeTopic(s) ==
  \/ \E u \in Users, token \in 1..MaxTokens :
       \/ \E request \in Requests : Subscribe(s, u, token, request)
       \/ SubscribeRefused(s, u, token)
  \/ ReadPastAndOpen(s)
  \/ ReadPastFails(s)
  \/ SendPastMessage(s)
  \/ SendEvent(s)
  \/ SendFails(s)
  \/ ClearSubscription(s)

Next ==
  \/ ApplyEvent
  \/ BeginAddMessageEvent
  \/ SendToSubscriber
  \/ EndAddMessageEvent
  \/ \E u \in Users : AddSubscriptionRequest(u)
  \/ \E s \in Streams : SubscribeTopic(s) \/ HangUp(s)

Spec == Init /\ [][Next]_vars

-----------------------------------------------------------------------------
(* Properties. *)

(* Nothing is ever sent to a channel that ClearSubscription has closed,    *)
(* which would be a panic in the ACK processor and the end of the node:    *)
(* neither to a subscription left in some topic's list, nor while the      *)
(* lists are being walked.                                                 *)
NeverSendsOnClosed ==
  \A t \in Topics : \A s \in ToSet(subscribers[t]) :
    /\ stream[s].pc # "closed"
    /\ [token |-> stream[s].token, subscription |-> s] \in active

(* The event in the ACK processor's hand will still reach s, as far as its *)
(* channel has room.                                                       *)
StillToServe(s) ==
  /\ ~Idle
  /\ \E i \in DOMAIN subscribers[processor.event.topic] :
       subscribers[processor.event.topic][i] = s /\ i >= processor.next

(* What s has been sent and will be sent, of everything that has happened  *)
(* so far.                                                                 *)
InFlight(s) ==
  [i \in DOMAIN stream[s].past |-> PostEvent(stream[s].past[i])]
    \o channel[s]
    \o IF StillToServe(s) THEN <<processor.event>> ELSE <<>>

(* What s will show in the end: of the events on their way about the same  *)
(* message, the last one counts.                                           *)
Outlook(s) ==
  LET flight == InFlight(s)
      IsAbout(i, m) == flight[i].topic = m.topic /\ flight[i].id = m.id
      last == {i \in DOMAIN flight :
                 \A j \in i + 1..Len(flight) : ~IsAbout(j, flight[i])}
  IN  {m \in shown[s] : \A i \in DOMAIN flight : ~IsAbout(i, m)} \cup
        {[topic |-> flight[i].topic, id |-> flight[i].id,
          version |-> versions[flight[i].topic][flight[i].id]] :
           i \in {j \in last : flight[j].op # "delete"}}

(* A subscriber is never cheated of anything it does not lose to a full    *)
(* channel: what it shows, brought up to date with what is on its way, is  *)
(* the contents of the storage in the topics and from the message on that  *)
(* it asked for.  No write falls between the past messages and the events, *)
(* none is resurrected or undone by the order in which they come, and      *)
(* another subscriber's full channel makes no difference.                  *)
SubscribersUpToDate ==
  \A s \in Streams \ dropped : stream[s].pc = "streaming" =>
    {m \in Outlook(s) : m.id >= stream[s].from} =
      {[topic |-> m.topic, id |-> m.id, version |-> versions[m.topic][m.id]] :
         m \in {m \in [topic : ToSet(stream[s].topics), id : MessageIds] :
                  m.id \in messages[m.topic] /\ m.id >= stream[s].from}}

(* A token opens one subscription, and while it is available none: a       *)
(* repeated SubscribeTopic with the same token does not take over or close *)
(* the first one's channel.                                                *)
TokensOpenOnce ==
  \A s \in Streams : stream[s].pc \in {"validated", "streaming"} =>
    /\ \A a \in tokens : a.token # stream[s].token
    /\ \A r \in Streams \ {s} : stream[r].token # stream[s].token
=============================================================================
