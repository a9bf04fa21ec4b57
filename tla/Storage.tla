------------------------------ MODULE Storage ------------------------------
(***************************************************************************)
(* pkg/storage: users, topics, messages and likes in maps under one lock.  *)
(* Each operation holds the lock throughout, so it is one action.  On a    *)
(* node the writes come from applyEvent, one at a time in the order of the *)
(* chain; the arguments are whatever clients asked for, so ids of topics,  *)
(* messages and users that do not exist are among them.                    *)
(***************************************************************************)
EXTENDS Integers, FiniteSets, Functions, SortedIds

CONSTANTS
  Texts,        \* message texts
  MaxUsers, MaxTopics,
  MaxPosts      \* bounds: users, topics, and messages ever posted in one topic

ASSUME StorageAssumption ==
  MaxUsers \in Nat /\ MaxTopics \in Nat /\ MaxPosts \in Nat

VARIABLES
  users, topics,    \* the ids in s.users, s.topics
  messages,         \* s.messages: topic id -> (message id -> message)
  likes,            \* s.likes: message id -> users
  nextMessageId,    \* s.nextMessageId: topic id -> the next id
  nextUserId, nextTopicId,
  result,           \* the last write's error, and the like it was refused as
  posted, liked     \* history: <<topic, message, user>> that have succeeded

maps == <<users, topics, messages, likes>>
counters == <<nextMessageId, nextUserId, nextTopicId>>
history == <<posted, liked>>
storage == <<maps, counters>>
vars == <<users, topics, messages, likes, nextMessageId, nextUserId,
          nextTopicId, result, posted, liked>>

UserIds == 1..MaxUsers + 1      \* one id more than will ever be assigned
TopicIds == 1..MaxTopics + 1
MessageIds == 1..MaxPosts + 1
Message == [user : UserIds, text : Texts, likes : Nat]

Errors == {"none", "topic not found", "user not found", "message not found",
           "not author", "already liked"}

(* A like refused as a repetition goes with its error: it is what          *)
(* AlreadyLikedIsTrue is about.                                            *)
Results == [err : Errors, like : SUBSET (TopicIds \X MessageIds \X UserIds)]

StorageTypeOK ==
  /\ users = 1..nextUserId - 1
  /\ topics = 1..nextTopicId - 1
  /\ DOMAIN messages = topics
  /\ \A t \in topics : /\ DOMAIN messages[t] \subseteq 1..nextMessageId[t] - 1
                       /\ Range(messages[t]) \subseteq Message
  /\ \A m \in DOMAIN likes : likes[m] \subseteq users
  /\ DOMAIN nextMessageId = topics
  /\ result \in Results
  /\ posted \cup liked \subseteq TopicIds \X MessageIds \X UserIds

Init ==                                                     \* NewStorage
  /\ users = {} /\ topics = {}
  /\ messages = <<>> /\ likes = <<>> /\ nextMessageId = <<>>
  /\ nextUserId = 1 /\ nextTopicId = 1
  /\ result = [err |-> "none", like |-> {}]
  /\ posted = {} /\ liked = {}

Put(f, x, y) == [z \in DOMAIN f \cup {x} |-> IF z = x THEN y ELSE f[z]]
Without(f, x) == [z \in DOMAIN f \ {x} |-> f[z]]

-----------------------------------------------------------------------------
CreateUser ==
  /\ nextUserId <= MaxUsers
  /\ users' = users \cup {nextUserId}
  /\ nextUserId' = nextUserId + 1
  /\ UNCHANGED <<topics, messages, likes, nextMessageId, nextTopicId, result,
                 history>>

CreateTopic ==
  /\ nextTopicId <= MaxTopics
  /\ topics' = topics \cup {nextTopicId}
  /\ nextTopicId' = nextTopicId + 1
  /\ messages' = Put(messages, nextTopicId, <<>>)
  /\ nextMessageId' = Put(nextMessageId, nextTopicId, 1)
  /\ UNCHANGED <<users, likes, nextUserId, result, history>>

Return(err) == result' = [err |-> err, like |-> {}]

(* What the checks at the top of the operations on messages find. *)
TopicOrUserMissing(t, u) ==
  IF t \notin topics THEN "topic not found"
  ELSE IF u \notin users THEN "user not found" ELSE "none"

MessageMissing(t, m, u) ==
  IF TopicOrUserMissing(t, u) # "none" THEN TopicOrUserMissing(t, u)
  ELSE IF m \notin DOMAIN messages[t] THEN "message not found" ELSE "none"

NotAuthor(t, m, u) ==
  IF MessageMissing(t, m, u) # "none" THEN MessageMissing(t, m, u)
  ELSE IF messages[t][m].user # u THEN "not author" ELSE "none"

(* Mutant: the id is taken from the number of messages. *)
PostMessageByCount(t, u, text) ==
  LET m == Cardinality(DOMAIN messages[t]) + 1 IN
  /\ TopicOrUserMissing(t, u) = "none"
  /\ nextMessageId[t] <= MaxPosts
  /\ messages' = [messages EXCEPT
       ![t] = Put(@, m, [user |-> u, text |-> text, likes |-> 0])]
  /\ nextMessageId' = [nextMessageId EXCEPT ![t] = @ + 1]
  /\ posted' = posted \cup {<<t, m, u>>}
  /\ Return("none")
  /\ UNCHANGED <<users, topics, likes, nextUserId, nextTopicId, liked>>

(* Mutant: the next id is not moved on. *)
PostMessageUncounted(t, u, text) ==
  LET m == nextMessageId[t] IN
  /\ TopicOrUserMissing(t, u) = "none"
  /\ m <= MaxPosts
  /\ messages' = [messages EXCEPT
       ![t] = Put(@, m, [user |-> u, text |-> text, likes |-> 0])]
  /\ posted' = posted \cup {<<t, m, u>>}
  /\ Return("none")
  /\ UNCHANGED <<users, topics, likes, counters, liked>>

PostMessage(t, u, text) ==
  LET m == nextMessageId[t] IN
  /\ TopicOrUserMissing(t, u) = "none"
  /\ m <= MaxPosts
  /\ messages' = [messages EXCEPT
       ![t] = Put(@, m, [user |-> u, text |-> text, likes |-> 0])]
  /\ nextMessageId' = [nextMessageId EXCEPT ![t] = @ + 1]
  /\ posted' = posted \cup {<<t, m, u>>}
  /\ Return("none")
  /\ UNCHANGED <<users, topics, likes, nextUserId, nextTopicId, liked>>

UpdateMessage(t, u, m, text) ==
  /\ NotAuthor(t, m, u) = "none"
  /\ messages' = [messages EXCEPT ![t][m].text = text]
  /\ Return("none")
  /\ UNCHANGED <<users, topics, likes, counters, history>>

(* The likes of the message stay in s.likes. *)
DeleteMessage(t, u, m) ==
  /\ NotAuthor(t, m, u) = "none"
  /\ messages' = [messages EXCEPT ![t] = Without(@, m)]
  /\ Return("none")
  /\ UNCHANGED <<users, topics, likes, counters, history>>

(* The users in s.likes under the message's id. *)
LikedBy(m) == IF m \in DOMAIN likes THEN likes[m] ELSE {}

(* Mutant: a repeated like is counted again. *)
LikeMessageAgain(t, u, m) ==
  /\ MessageMissing(t, m, u) = "none"
  /\ messages[t][m].likes < MaxUsers + 1
  /\ likes' = Put(likes, m, LikedBy(m) \cup {u})
  /\ messages' = [messages EXCEPT ![t][m].likes = @ + 1]
  /\ liked' = liked \cup {<<t, m, u>>}
  /\ Return("none")
  /\ UNCHANGED <<users, topics, counters, posted>>

LikeMessage(t, u, m) ==
  /\ MessageMissing(t, m, u) = "none"
  /\ u \notin LikedBy(m)
  /\ likes' = Put(likes, m, LikedBy(m) \cup {u})
  /\ messages' = [messages EXCEPT ![t][m].likes = @ + 1]
  /\ liked' = liked \cup {<<t, m, u>>}
  /\ Return("none")
  /\ UNCHANGED <<users, topics, counters, posted>>

LikeAgain(t, u, m) ==
  /\ MessageMissing(t, m, u) = "none"
  /\ u \in LikedBy(m)
  /\ result' = [err |-> "already liked", like |-> {<<t, m, u>>}]
  /\ UNCHANGED <<storage, history>>

(* A write that one of the checks refuses changes nothing. *)
Refused(t, u, m) ==
  /\ \E err \in {TopicOrUserMissing(t, u), MessageMissing(t, m, u),
                 NotAuthor(t, m, u)} \ {"none"} : Return(err)
  /\ UNCHANGED <<storage, history>>

Next ==
  \/ CreateUser
  \/ CreateTopic
  \/ \E t \in TopicIds, u \in UserIds, text \in Texts : PostMessage(t, u, text)
  \/ \E t \in TopicIds, u \in UserIds, m \in MessageIds :
       \/ \E text \in Texts : UpdateMessage(t, u, m, text)
       \/ DeleteMessage(t, u, m)
       \/ LikeMessage(t, u, m)
       \/ LikeAgain(t, u, m)
       \/ Refused(t, u, m)

Spec == Init /\ [][Next]_vars

-----------------------------------------------------------------------------
(* Mutant: the bound of the loop is inclusive. *)
PageInclusive(t, from, limit) ==
  InOrder({m \in DOMAIN messages[t] :
             from <= m /\ m <= from + limit /\ m < nextMessageId[t]})

(* GetMessagesWithLimit of an existing topic: the ids it returns, in order. *)
GetMessagesWithLimit(t, from, limit) ==
  InOrder({m \in DOMAIN messages[t] :
             from <= m /\ m < from + limit /\ m < nextMessageId[t]})

-----------------------------------------------------------------------------
(* Properties. *)

(* A message shows as many likes as different users have liked it: likes   *)
(* are not counted twice, nor inherited from a deleted message, although   *)
(* s.likes never forgets and knows message ids only.                       *)
LikesAreCounted ==
  \A t \in topics : \A m \in DOMAIN messages[t] :
    messages[t][m].likes = Cardinality({u \in users : <<t, m, u>> \in liked})

(* An id stands for one message of its topic for ever, also after the      *)
(* message has been deleted: clients and subscribers keep ids.             *)
IdsNameOneMessage ==
  /\ \A p, q \in posted : p[1] = q[1] /\ p[2] = q[2] => p = q
  /\ \A t \in topics : \A m \in DOMAIN messages[t] :
       <<t, m, messages[t][m].user>> \in posted

(* A client that reads a topic page by page, each from where the last      *)
(* page's window ended, gets every message once and in the order of        *)
(* posting, whatever has been deleted in between.                          *)
PagesCoverTopic ==
  \A t \in topics, limit \in 1..MaxPosts :
    LET Page(k) == GetMessagesWithLimit(t, 1 + (k - 1) * limit, limit)
    IN  /\ UNION {Range(Page(k)) : k \in 1..MaxPosts} = DOMAIN messages[t]
        /\ \A k, l \in 1..MaxPosts :
             \A i \in DOMAIN Page(k), j \in DOMAIN Page(l) :
               k < l \/ (k = l /\ i < j) => Page(k)[i] < Page(l)[j]

(* storage.go:15, "user has already liked the message": the error is       *)
(* returned only to a user who has liked that message.                     *)
AlreadyLikedIsTrue ==
  result.err = "already liked" => result.like \subseteq liked
=============================================================================
