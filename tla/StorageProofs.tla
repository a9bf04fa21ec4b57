--------------------------- MODULE StorageProofs ---------------------------
(***************************************************************************)
(* Proofs about Storage for any number of users, topics, messages and      *)
(* texts.                                                                  *)
(*                                                                         *)
(* Both properties rest on the same fact: an id that a topic has not given *)
(* out yet has no past, neither an author nor likes.                       *)
(***************************************************************************)
EXTENDS Storage, FiniteSetTheorems, TLAPS

CountersInv ==
  /\ nextUserId \in 1..MaxUsers + 1
  /\ nextTopicId \in 1..MaxTopics + 1
  /\ \A t \in topics : nextMessageId[t] \in 1..MaxPosts + 1

(* Only ids that have been given out have been posted under or liked. *)
PastInv ==
  \A x \in posted \cup liked : x[1] \in topics /\ x[2] < nextMessageId[x[1]]

(* s.likes remembers everybody who has liked some message of an id. *)
LikedInv == \A x \in liked : x[3] \in users /\ x[3] \in LikedBy(x[2])

IInv ==
  /\ StorageTypeOK /\ CountersInv /\ PastInv /\ LikedInv
  /\ IdsNameOneMessage /\ LikesAreCounted

-----------------------------------------------------------------------------
LEMMA Bounds ==
  /\ MaxUsers \in Nat /\ MaxTopics \in Nat /\ MaxPosts \in Nat
BY StorageAssumption DEF StorageAssumption

LEMMA PutIsFunction ==
  ASSUME NEW f, NEW x, NEW y
  PROVE  /\ DOMAIN Put(f, x, y) = DOMAIN f \cup {x}
         /\ Put(f, x, y)[x] = y
         /\ \A z \in DOMAIN f \ {x} : Put(f, x, y)[z] = f[z]
BY DEF Put

LEMMA WithoutIsFunction ==
  ASSUME NEW f, NEW x
  PROVE  /\ DOMAIN Without(f, x) = DOMAIN f \ {x}
         /\ \A z \in DOMAIN f \ {x} : Without(f, x)[z] = f[z]
BY DEF Without

(* The state's part of the type invariant, without Range. *)
LEMMA TypeByElement ==
  StorageTypeOK <=>
    /\ users = 1..nextUserId - 1
    /\ topics = 1..nextTopicId - 1
    /\ DOMAIN messages = topics
    /\ \A t \in topics : \A m \in DOMAIN messages[t] :
         m \in 1..nextMessageId[t] - 1 /\ messages[t][m] \in Message
    /\ \A m \in DOMAIN likes : likes[m] \subseteq users
    /\ DOMAIN nextMessageId = topics
    /\ result \in Results
    /\ posted \cup liked \subseteq TopicIds \X MessageIds \X UserIds
BY DEF StorageTypeOK, Range

(* The checks at the top of the operations. *)
LEMMA ChecksFind ==
  ASSUME NEW t, NEW u, NEW m
  PROVE  /\ TopicOrUserMissing(t, u) = "none" <=> t \in topics /\ u \in users
         /\ MessageMissing(t, m, u) = "none" <=>
              t \in topics /\ u \in users /\ m \in DOMAIN messages[t]
         /\ NotAuthor(t, m, u) = "none" =>
              t \in topics /\ u \in users /\ m \in DOMAIN messages[t]
         /\ TopicOrUserMissing(t, u) \in Errors
         /\ MessageMissing(t, m, u) \in Errors
         /\ NotAuthor(t, m, u) \in Errors
BY DEF TopicOrUserMissing, MessageMissing, NotAuthor, Errors

Likers(t, m) == {u \in users : <<t, m, u>> \in liked}

LEMMA LikersAreFinite ==
  ASSUME StorageTypeOK, CountersInv, NEW t, NEW m
  PROVE  IsFiniteSet(Likers(t, m)) /\ Cardinality(Likers(t, m)) \in Nat
<1>1. IsFiniteSet(users)
  BY Bounds, FS_Interval DEF StorageTypeOK, CountersInv
<1>2. Likers(t, m) \subseteq users
  BY DEF Likers
<1>. QED BY <1>1, <1>2, FS_Subset, FS_CardinalityType

-----------------------------------------------------------------------------
LEMMA InitIInv == Init => IInv
<1>. SUFFICES ASSUME Init PROVE IInv
  OBVIOUS
<1>. USE Bounds
<1>1. topics = {} /\ users = {} /\ posted = {} /\ liked = {}
  BY DEF Init
<1>2. StorageTypeOK
  <2>1. result \in Results
    BY DEF Init, Results, Errors
  <2>2. DOMAIN messages = {} /\ DOMAIN likes = {} /\ DOMAIN nextMessageId = {}
    BY DEF Init
  <2>3. 1..nextUserId - 1 = {} /\ 1..nextTopicId - 1 = {}
    BY DEF Init
  <2>. QED BY <1>1, <2>1, <2>2, <2>3, TypeByElement
<1>3. CountersInv
  BY <1>1 DEF Init, CountersInv
<1>4. PastInv /\ LikedInv
  BY <1>1 DEF PastInv, LikedInv
<1>5. IdsNameOneMessage /\ LikesAreCounted
  BY <1>1 DEF IdsNameOneMessage, LikesAreCounted
<1>. QED BY <1>2, <1>3, <1>4, <1>5 DEF IInv

(* Only the result differs: what a refused write and a repeated like do.   *)
LEMMA ReturnKeeps ==
  ASSUME IInv, UNCHANGED <<storage, history>>,
         result' \in Results
  PROVE  IInv'
<1>. USE DEF storage, maps, counters, history, IInv
<1>1. StorageTypeOK'
  BY DEF StorageTypeOK
<1>2. CountersInv' /\ PastInv' /\ LikedInv'
  BY DEF CountersInv, PastInv, LikedInv, LikedBy
<1>3. IdsNameOneMessage' /\ LikesAreCounted'
  BY DEF IdsNameOneMessage, LikesAreCounted
<1>. QED BY <1>1, <1>2, <1>3

(* A new user has liked nothing. *)
LEMMA CreateUserKeeps == IInv /\ CreateUser => IInv'
<1>. SUFFICES ASSUME IInv, CreateUser PROVE IInv'
  OBVIOUS
<1>. USE Bounds
<1>0. StorageTypeOK /\ CountersInv /\ PastInv /\ LikedInv
      /\ IdsNameOneMessage /\ LikesAreCounted
  BY DEF IInv
<1>1. /\ users' = users \cup {nextUserId} /\ nextUserId' = nextUserId + 1
      /\ nextUserId <= MaxUsers
      /\ UNCHANGED <<topics, messages, likes, nextMessageId, nextTopicId,
                     result, posted, liked>>
  BY DEF CreateUser, history
<1>2. StorageTypeOK'
  <2>1. users' = 1..nextUserId' - 1
    BY <1>0, <1>1 DEF StorageTypeOK, CountersInv
  <2>. QED BY <1>0, <1>1, <2>1 DEF StorageTypeOK
<1>3. CountersInv' /\ PastInv' /\ LikedInv' /\ IdsNameOneMessage'
  BY <1>0, <1>1
     DEF CountersInv, PastInv, LikedInv, LikedBy, IdsNameOneMessage
<1>4. LikesAreCounted'
  <2>. SUFFICES ASSUME NEW t \in topics, NEW m \in DOMAIN messages[t]
                PROVE  {u \in users' : <<t, m, u>> \in liked}
                         = {u \in users : <<t, m, u>> \in liked}
    BY <1>0, <1>1 DEF LikesAreCounted
  <2>1. ASSUME NEW x \in liked PROVE x[3] \in users
    BY <1>0 DEF LikedInv
  <2>2. \A u : <<t, m, u>> \in liked => u \in users
    BY <2>1
  <2>. QED BY <1>1, <2>2
<1>. QED BY <1>2, <1>3, <1>4 DEF IInv

(* A new topic is empty, and no message or like of its number exists. *)
LEMMA CreateTopicKeeps == IInv /\ CreateTopic => IInv'
<1>. SUFFICES ASSUME IInv, CreateTopic PROVE IInv'
  OBVIOUS
<1>. USE Bounds
<1>. DEFINE n == nextTopicId
<1>0. StorageTypeOK /\ CountersInv /\ PastInv /\ LikedInv
      /\ IdsNameOneMessage /\ LikesAreCounted
  BY DEF IInv
<1>1. /\ topics' = topics \cup {n} /\ nextTopicId' = n + 1 /\ n <= MaxTopics
      /\ messages' = Put(messages, n, <<>>)
      /\ nextMessageId' = Put(nextMessageId, n, 1)
      /\ UNCHANGED <<users, likes, nextUserId, result, posted, liked>>
  BY DEF CreateTopic, history
<1>2. /\ n \notin topics /\ topics' = 1..n /\ n \in Nat
      /\ DOMAIN messages = topics /\ DOMAIN nextMessageId = topics
  BY <1>0, <1>1 DEF StorageTypeOK, CountersInv
<1>3. /\ DOMAIN messages' = topics' /\ DOMAIN nextMessageId' = topics'
      /\ DOMAIN messages'[n] = {} /\ nextMessageId'[n] = 1
      /\ \A t \in topics : /\ messages'[t] = messages[t]
                           /\ nextMessageId'[t] = nextMessageId[t]
  <2>1. DOMAIN <<>> = {}
    OBVIOUS
  <2>2. /\ DOMAIN messages' = topics' /\ messages'[n] = <<>>
        /\ \A t \in topics : messages'[t] = messages[t]
    BY <1>1, <1>2 DEF Put
  <2>3. /\ DOMAIN nextMessageId' = topics' /\ nextMessageId'[n] = 1
        /\ \A t \in topics : nextMessageId'[t] = nextMessageId[t]
    BY <1>1, <1>2 DEF Put
  <2>. QED BY <2>1, <2>2, <2>3
<1>4. StorageTypeOK'
  BY <1>0, <1>1, <1>2, <1>3 DEF StorageTypeOK, Range
<1>5. CountersInv' /\ PastInv' /\ LikedInv'
  BY <1>0, <1>1, <1>2, <1>3 DEF CountersInv, PastInv, LikedInv, LikedBy
<1>6. IdsNameOneMessage' /\ LikesAreCounted'
  BY <1>0, <1>1, <1>2, <1>3 DEF IdsNameOneMessage, LikesAreCounted
<1>. QED BY <1>4, <1>5, <1>6 DEF IInv

(* The new id has neither an author nor likes. *)
LEMMA PostMessageKeeps ==
  ASSUME IInv, NEW t \in TopicIds, NEW u \in UserIds, NEW text \in Texts,
         PostMessage(t, u, text)
  PROVE  IInv'
<1>. USE Bounds
<1>. DEFINE m == nextMessageId[t]
            new == [user |-> u, text |-> text, likes |-> 0]
<1>0. StorageTypeOK /\ CountersInv /\ PastInv /\ LikedInv
      /\ IdsNameOneMessage /\ LikesAreCounted
  BY DEF IInv
<1>1. /\ t \in topics /\ u \in users /\ m <= MaxPosts
      /\ messages' = [messages EXCEPT ![t] = Put(@, m, new)]
      /\ nextMessageId' = [nextMessageId EXCEPT ![t] = @ + 1]
      /\ posted' = posted \cup {<<t, m, u>>}
      /\ result' = [err |-> "none", like |-> {}]
      /\ UNCHANGED <<users, topics, likes, nextUserId, nextTopicId, liked>>
  BY ChecksFind DEF PostMessage, Return
<1>2. /\ DOMAIN messages = topics /\ DOMAIN nextMessageId = topics
      /\ m \in Nat \ {0} /\ m \in MessageIds /\ m \notin DOMAIN messages[t]
      /\ new \in Message
  BY <1>0, <1>1, TypeByElement DEF CountersInv, MessageIds, Message
<1>3. /\ DOMAIN messages' = topics /\ DOMAIN nextMessageId' = topics
      /\ DOMAIN messages'[t] = DOMAIN messages[t] \cup {m}
      /\ messages'[t][m] = new
      /\ \A k \in DOMAIN messages[t] : messages'[t][k] = messages[t][k]
      /\ nextMessageId'[t] = m + 1
      /\ \A s \in topics \ {t} : /\ messages'[s] = messages[s]
                                 /\ nextMessageId'[s] = nextMessageId[s]
  <2>1. messages'[t] = Put(messages[t], m, new)
    BY <1>1, <1>2
  <2>2. /\ DOMAIN messages' = topics
        /\ \A s \in topics \ {t} : messages'[s] = messages[s]
    BY <1>1, <1>2
  <2>3. /\ DOMAIN nextMessageId' = topics /\ nextMessageId'[t] = m + 1
        /\ \A s \in topics \ {t} : nextMessageId'[s] = nextMessageId[s]
    BY <1>1, <1>2
  <2>4. /\ DOMAIN messages'[t] = DOMAIN messages[t] \cup {m}
        /\ messages'[t][m] = new
        /\ \A k \in DOMAIN messages[t] : messages'[t][k] = messages[t][k]
    <3>. HIDE DEF m, new
    <3>. QED BY <1>2, <2>1 DEF Put
  <2>. QED BY <2>2, <2>3, <2>4
<1>. HIDE DEF m, new
<1>4. StorageTypeOK'
  <2>1. \A s \in topics : \A k \in DOMAIN messages'[s] :
          k \in 1..nextMessageId'[s] - 1 /\ messages'[s][k] \in Message
    <3>. SUFFICES ASSUME NEW s \in topics, NEW k \in DOMAIN messages'[s]
                  PROVE  /\ k \in 1..nextMessageId'[s] - 1
                         /\ messages'[s][k] \in Message
      OBVIOUS
    <3>1. CASE s # t
      BY <1>0, <1>3, <3>1, TypeByElement
    <3>2. CASE s = t /\ k = m
      BY <1>2, <1>3, <3>2
    <3>3. CASE s = t /\ k # m
      <4>1. k \in DOMAIN messages[t] /\ messages'[s][k] = messages[t][k]
        BY <1>3, <3>3
      <4>2. k \in 1..m - 1 /\ messages[t][k] \in Message
        BY <1>0, <1>1, <4>1, TypeByElement DEF m
      <4>. QED BY <1>2, <1>3, <3>3, <4>1, <4>2
    <3>. QED BY <3>1, <3>2, <3>3
  <2>2. result' \in Results
    BY <1>1 DEF Results, Errors
  <2>3. posted' \cup liked' \subseteq TopicIds \X MessageIds \X UserIds
    BY <1>0, <1>1, <1>2, TypeByElement DEF m
  <2>4. /\ users' = 1..nextUserId' - 1 /\ topics' = 1..nextTopicId' - 1
        /\ \A k \in DOMAIN likes' : likes'[k] \subseteq users'
    BY <1>0, <1>1 DEF StorageTypeOK
  <2>. QED BY <1>1, <1>3, <2>1, <2>2, <2>3, <2>4 DEF StorageTypeOK, Range
<1>5. CountersInv'
  BY <1>0, <1>1, <1>2, <1>3 DEF CountersInv, m
<1>6. PastInv'
  <2>. SUFFICES ASSUME NEW x \in posted' \cup liked'
                PROVE  x[1] \in topics /\ x[2] < nextMessageId'[x[1]]
    BY <1>1 DEF PastInv
  <2>1. CASE x = <<t, m, u>>
    BY <1>1, <1>2, <1>3, <2>1
  <2>2. CASE x \in posted \cup liked
    <3>1. /\ x[1] \in topics /\ x[2] < nextMessageId[x[1]]
          /\ x[2] \in MessageIds
      BY <1>0, <2>2, TypeByElement DEF PastInv
    <3>. QED BY <1>2, <1>3, <3>1 DEF m, MessageIds
  <2>. QED BY <1>1, <2>1, <2>2 DEF m
<1>7. LikedInv'
  BY <1>0, <1>1 DEF LikedInv, LikedBy
<1>8. IdsNameOneMessage'
  <2>1. \A p \in posted : ~(p[1] = t /\ p[2] = m)
    BY <1>0, <1>2 DEF PastInv, m
  <2>2. posted' = posted \cup {<<t, m, u>>}
    BY <1>1 DEF m
  <2>3. \A p, q \in posted' : p[1] = q[1] /\ p[2] = q[2] => p = q
    BY <1>0, <2>1, <2>2 DEF IdsNameOneMessage
  <2>4. ASSUME NEW s \in topics, NEW k \in DOMAIN messages'[s]
        PROVE  <<s, k, messages'[s][k].user>> \in posted'
    <3>1. CASE s = t /\ k = m
      BY <1>3, <2>2, <3>1 DEF new
    <3>2. CASE ~(s = t /\ k = m)
      <4>1. k \in DOMAIN messages[s] /\ messages'[s][k] = messages[s][k]
        BY <1>3, <3>2
      <4>. QED BY <1>0, <2>2, <4>1 DEF IdsNameOneMessage
    <3>. QED BY <3>1, <3>2
  <2>. QED BY <1>1, <2>3, <2>4 DEF IdsNameOneMessage
<1>9. LikesAreCounted'
  <2>. SUFFICES ASSUME NEW s \in topics, NEW k \in DOMAIN messages'[s]
                PROVE  messages'[s][k].likes = Cardinality(Likers(s, k))
    <3>1. \A s, k : {v \in users' : <<s, k, v>> \in liked'} = Likers(s, k)
      BY <1>1 DEF Likers
    <3>. QED BY <1>1, <3>1, Zenon DEF LikesAreCounted
  <2>1. CASE s = t /\ k = m
    <3>1. \A v : <<t, m, v>> \notin liked
      BY <1>0, <1>2 DEF PastInv, m
    <3>2. Likers(t, m) = {}
      BY <3>1 DEF Likers
    <3>. QED BY <1>3, <2>1, <3>2, FS_EmptySet DEF new
  <2>2. CASE ~(s = t /\ k = m)
    <3>1. k \in DOMAIN messages[s] /\ messages'[s][k] = messages[s][k]
      BY <1>3, <2>2
    <3>. QED BY <1>0, <3>1 DEF LikesAreCounted, Likers
  <2>. QED BY <2>1, <2>2
<1>. QED BY <1>4, <1>5, <1>6, <1>7, <1>8, <1>9 DEF IInv

(* A message keeps its author and its likes. *)
LEMMA UpdateMessageKeeps ==
  ASSUME IInv, NEW t \in TopicIds, NEW u \in UserIds, NEW m \in MessageIds,
         NEW text \in Texts, UpdateMessage(t, u, m, text)
  PROVE  IInv'
<1>0. StorageTypeOK /\ CountersInv /\ PastInv /\ LikedInv
      /\ IdsNameOneMessage /\ LikesAreCounted
  BY DEF IInv
<1>1. /\ t \in topics /\ m \in DOMAIN messages[t]
      /\ messages' = [messages EXCEPT ![t][m].text = text]
      /\ result' = [err |-> "none", like |-> {}]
      /\ UNCHANGED <<users, topics, likes, nextMessageId, nextUserId,
                     nextTopicId, posted, liked>>
  BY ChecksFind DEF UpdateMessage, Return, counters, history
<1>2. /\ DOMAIN messages = topics /\ messages[t][m] \in Message
  BY <1>0, <1>1, TypeByElement
<1>3. /\ DOMAIN messages' = topics
      /\ \A s \in topics : /\ DOMAIN messages'[s] = DOMAIN messages[s]
                           /\ \A k \in DOMAIN messages[s] :
                                s # t \/ k # m =>
                                  messages'[s][k] = messages[s][k]
      /\ messages'[t][m] = [messages[t][m] EXCEPT !.text = text]
  BY <1>1, <1>2
<1>4. /\ messages'[t][m] \in Message
      /\ messages'[t][m].user = messages[t][m].user
      /\ messages'[t][m].likes = messages[t][m].likes
  BY <1>2, <1>3 DEF Message
<1>5. \A s \in topics : \A k \in DOMAIN messages[s] :
        /\ messages[s][k] \in Message => messages'[s][k] \in Message
        /\ messages'[s][k].user = messages[s][k].user
        /\ messages'[s][k].likes = messages[s][k].likes
  BY <1>1, <1>3, <1>4
<1>6. StorageTypeOK'
  <2>1. result' \in Results
    BY <1>1 DEF Results, Errors
  <2>2. \A s \in topics : \A k \in DOMAIN messages'[s] :
          k \in 1..nextMessageId[s] - 1 /\ messages'[s][k] \in Message
    BY <1>0, <1>3, <1>5, TypeByElement
  <2>3. \A s \in topics :
          /\ DOMAIN messages'[s] \subseteq 1..nextMessageId[s] - 1
          /\ Range(messages'[s]) \subseteq Message
    BY <2>2 DEF Range
  <2>. QED BY <1>0, <1>1, <1>3, <2>1, <2>3 DEF StorageTypeOK
<1>7. CountersInv' /\ PastInv' /\ LikedInv'
  BY <1>0, <1>1 DEF CountersInv, PastInv, LikedInv, LikedBy
<1>8. IdsNameOneMessage' /\ LikesAreCounted'
  BY <1>0, <1>1, <1>3, <1>5 DEF IdsNameOneMessage, LikesAreCounted
<1>. QED BY <1>6, <1>7, <1>8 DEF IInv

(* A message goes, its past stays. *)
LEMMA DeleteMessageKeeps ==
  ASSUME IInv, NEW t \in TopicIds, NEW u \in UserIds, NEW m \in MessageIds,
         DeleteMessage(t, u, m)
  PROVE  IInv'
<1>0. StorageTypeOK /\ CountersInv /\ PastInv /\ LikedInv
      /\ IdsNameOneMessage /\ LikesAreCounted
  BY DEF IInv
<1>1. /\ t \in topics
      /\ messages' = [messages EXCEPT ![t] = Without(@, m)]
      /\ result' = [err |-> "none", like |-> {}]
      /\ UNCHANGED <<users, topics, likes, nextMessageId, nextUserId,
                     nextTopicId, posted, liked>>
  BY ChecksFind DEF DeleteMessage, Return, counters, history
<1>2. DOMAIN messages = topics
  BY <1>0 DEF StorageTypeOK
<1>3. DOMAIN messages' = topics /\ messages'[t] = Without(messages[t], m)
      /\ \A s \in topics \ {t} : messages'[s] = messages[s]
  BY <1>1, <1>2
<1>4. \A s \in topics : \A k \in DOMAIN messages'[s] :
        k \in DOMAIN messages[s] /\ messages'[s][k] = messages[s][k]
  BY <1>3 DEF Without
<1>5. StorageTypeOK'
  <2>1. result' \in Results
    BY <1>1 DEF Results, Errors
  <2>2. \A s \in topics : \A k \in DOMAIN messages'[s] :
          k \in 1..nextMessageId[s] - 1 /\ messages'[s][k] \in Message
    BY <1>0, <1>4, TypeByElement
  <2>. QED BY <1>0, <1>1, <1>3, <2>1, <2>2 DEF StorageTypeOK, Range
<1>6. CountersInv' /\ PastInv' /\ LikedInv'
  BY <1>0, <1>1 DEF CountersInv, PastInv, LikedInv, LikedBy
<1>7. IdsNameOneMessage' /\ LikesAreCounted'
  BY <1>0, <1>1, <1>3, <1>4 DEF IdsNameOneMessage, LikesAreCounted
<1>. QED BY <1>5, <1>6, <1>7 DEF IInv

(* Who is not in s.likes under the id has not liked the message. *)
LEMMA LikeMessageKeeps ==
  ASSUME IInv, NEW t \in TopicIds, NEW u \in UserIds, NEW m \in MessageIds,
         LikeMessage(t, u, m)
  PROVE  IInv'
<1>. DEFINE x == <<t, m, u>>
            by == LikedBy(m) \cup {u}
<1>0. StorageTypeOK /\ CountersInv /\ PastInv /\ LikedInv
      /\ IdsNameOneMessage /\ LikesAreCounted
  BY DEF IInv
<1>1. /\ t \in topics /\ u \in users /\ m \in DOMAIN messages[t]
      /\ u \notin LikedBy(m)
      /\ likes' = Put(likes, m, by)
      /\ messages' = [messages EXCEPT ![t][m].likes = @ + 1]
      /\ liked' = liked \cup {x}
      /\ result' = [err |-> "none", like |-> {}]
      /\ UNCHANGED <<users, topics, nextMessageId, nextUserId, nextTopicId,
                     posted>>
  BY ChecksFind DEF LikeMessage, Return, counters
<1>2. /\ DOMAIN messages = topics /\ messages[t][m] \in Message
      /\ m \in 1..nextMessageId[t] - 1
  BY <1>0, <1>1, TypeByElement
<1>3. /\ DOMAIN messages' = topics
      /\ \A s \in topics : /\ DOMAIN messages'[s] = DOMAIN messages[s]
                           /\ \A k \in DOMAIN messages[s] :
                                s # t \/ k # m =>
                                  messages'[s][k] = messages[s][k]
      /\ messages'[t][m] =
           [messages[t][m] EXCEPT !.likes = messages[t][m].likes + 1]
  BY <1>1, <1>2
<1>4. /\ messages'[t][m] \in Message
      /\ messages'[t][m].user = messages[t][m].user
      /\ messages'[t][m].likes = messages[t][m].likes + 1
  BY <1>2, <1>3 DEF Message
<1>5. \A s \in topics : \A k \in DOMAIN messages[s] :
        /\ messages[s][k] \in Message => messages'[s][k] \in Message
        /\ messages'[s][k].user = messages[s][k].user
  BY <1>1, <1>3, <1>4
<1>6. /\ DOMAIN likes' = DOMAIN likes \cup {m} /\ likes'[m] = by
      /\ \A k \in DOMAIN likes \ {m} : likes'[k] = likes[k]
  BY <1>1 DEF Put
<1>7. \A k : LikedBy(k)' = IF k = m THEN by ELSE LikedBy(k)
  BY <1>6 DEF LikedBy
<1>8. StorageTypeOK'
  <2>1. result' \in Results
    BY <1>1 DEF Results, Errors
  <2>2. \A k \in DOMAIN likes' : likes'[k] \subseteq users
    BY <1>0, <1>1, <1>6 DEF StorageTypeOK, LikedBy
  <2>3. posted' \cup liked' \subseteq TopicIds \X MessageIds \X UserIds
    BY <1>0, <1>1 DEF StorageTypeOK
  <2>4. \A s \in topics : \A k \in DOMAIN messages'[s] :
          k \in 1..nextMessageId[s] - 1 /\ messages'[s][k] \in Message
    BY <1>0, <1>3, <1>5, TypeByElement
  <2>5. /\ users' = 1..nextUserId' - 1 /\ topics' = 1..nextTopicId' - 1
        /\ DOMAIN nextMessageId' = topics'
    BY <1>0, <1>1 DEF StorageTypeOK
  <2>6. \A s \in topics' :
          /\ DOMAIN messages'[s] \subseteq 1..nextMessageId'[s] - 1
          /\ Range(messages'[s]) \subseteq Message
    BY <1>1, <2>4 DEF Range
  <2>7. users' = users /\ topics' = topics
    BY <1>1
  <2>. HIDE DEF by, x
  <2>. QED BY <1>3, <2>1, <2>2, <2>3, <2>5, <2>6, <2>7 DEF StorageTypeOK
<1>9. CountersInv'
  BY <1>0, <1>1 DEF CountersInv
<1>10. PastInv'
  <2>1. m < nextMessageId[t]
    BY <1>0, <1>1, <1>2, Bounds DEF CountersInv
  <2>2. x[1] = t /\ x[2] = m
    OBVIOUS
  <2>. HIDE DEF by, x
  <2>. QED BY <1>0, <1>1, <2>1, <2>2 DEF PastInv
<1>11. LikedInv'
  BY <1>0, <1>1, <1>7 DEF LikedInv
<1>12. IdsNameOneMessage'
  BY <1>0, <1>1, <1>3, <1>5 DEF IdsNameOneMessage
<1>13. LikesAreCounted'
  <2>. SUFFICES ASSUME NEW s \in topics', NEW k \in DOMAIN messages'[s]
                PROVE  messages'[s][k].likes =
                         Cardinality({v \in users' : <<s, k, v>> \in liked'})
    BY DEF LikesAreCounted
  <2>0. s \in topics /\ k \in DOMAIN messages[s] /\ users' = users
    BY <1>1, <1>3
  <2>1. messages[s][k].likes = Cardinality(Likers(s, k))
    BY <1>0, <2>0 DEF LikesAreCounted, Likers
  <2>2. CASE s = t /\ k = m
    <3>1. u \notin Likers(t, m)
      BY <1>0, <1>1 DEF LikedInv, Likers
    <3>2. {v \in users' : <<s, k, v>> \in liked'} = Likers(t, m) \cup {u}
      BY <1>1, <2>0, <2>2 DEF Likers
    <3>3. Cardinality(Likers(t, m) \cup {u}) = Cardinality(Likers(t, m)) + 1
      BY <1>0, <3>1, LikersAreFinite, FS_AddElement
    <3>. QED BY <1>4, <2>1, <2>2, <3>2, <3>3
  <2>3. CASE s # t \/ k # m
    <3>1. {v \in users' : <<s, k, v>> \in liked'} = Likers(s, k)
      BY <1>1, <2>0, <2>3 DEF Likers
    <3>. QED BY <1>3, <2>0, <2>1, <2>3, <3>1
  <2>. QED BY <2>2, <2>3
<1>. QED BY <1>8, <1>9, <1>10, <1>11, <1>12, <1>13 DEF IInv

-----------------------------------------------------------------------------
LEMMA NextIInv == IInv /\ [Next]_vars => IInv'
<1>. SUFFICES ASSUME IInv, [Next]_vars PROVE IInv'
  OBVIOUS
<1>1. CASE CreateUser
  BY <1>1, CreateUserKeeps
<1>2. CASE CreateTopic
  BY <1>2, CreateTopicKeeps
<1>3. ASSUME NEW t \in TopicIds, NEW u \in UserIds, NEW text \in Texts,
             PostMessage(t, u, text)
      PROVE  IInv'
  BY <1>3, PostMessageKeeps
<1>4. ASSUME NEW t \in TopicIds, NEW u \in UserIds, NEW m \in MessageIds,
             NEW text \in Texts, UpdateMessage(t, u, m, text)
      PROVE  IInv'
  BY <1>4, UpdateMessageKeeps
<1>5. ASSUME NEW t \in TopicIds, NEW u \in UserIds, NEW m \in MessageIds,
             DeleteMessage(t, u, m)
      PROVE  IInv'
  BY <1>5, DeleteMessageKeeps
<1>6. ASSUME NEW t \in TopicIds, NEW u \in UserIds, NEW m \in MessageIds,
             LikeMessage(t, u, m)
      PROVE  IInv'
  BY <1>6, LikeMessageKeeps
<1>7. ASSUME NEW t \in TopicIds, NEW u \in UserIds, NEW m \in MessageIds,
             LikeAgain(t, u, m) \/ Refused(t, u, m)
      PROVE  IInv'
  <2>1. UNCHANGED <<storage, history>>
    BY <1>7 DEF LikeAgain, Refused
  <2>2. CASE LikeAgain(t, u, m)
    <3>. DEFINE refused == {<<t, m, u>>}
    <3>1. refused \in SUBSET (TopicIds \X MessageIds \X UserIds)
      OBVIOUS
    <3>2. result' = [err |-> "already liked", like |-> refused]
      BY <2>2 DEF LikeAgain
    <3>. HIDE DEF refused
    <3>3. result' \in Results
      BY <3>1, <3>2 DEF Results, Errors
    <3>. QED BY <2>1, <3>3, ReturnKeeps
  <2>3. CASE Refused(t, u, m)
    <3>1. PICK err \in Errors : Return(err)
      BY <2>3, ChecksFind DEF Refused
    <3>2. result' \in Results
      BY <3>1 DEF Return, Results
    <3>. QED BY <2>1, <3>2, ReturnKeeps
  <2>. QED BY <1>7, <2>2, <2>3
<1>8. CASE UNCHANGED vars
  <2>1. UNCHANGED <<storage, history>> /\ result' = result
    BY <1>8 DEF vars, storage, history, maps, counters
  <2>. QED BY <2>1, ReturnKeeps DEF IInv, StorageTypeOK
<1>. QED BY <1>1, <1>2, <1>3, <1>4, <1>5, <1>6, <1>7, <1>8 DEF Next

(* The inductive invariant holds throughout. *)
THEOREM StorageInvariant == Spec => []IInv
BY InitIInv, NextIInv, PTL DEF Spec

(* The maps of a node keep their types, whatever is asked of it. *)
THEOREM StorageTypeCorrect == Spec => []StorageTypeOK
<1>1. IInv => StorageTypeOK
  BY DEF IInv
<1>. QED BY StorageInvariant, <1>1, PTL

(* An id of a topic is given out once (PostMessage takes it from           *)
(* nextMessageId, which no deletion turns back), and the message under it  *)
(* is by the user it was given to.                                         *)
THEOREM IdsNameOneMessageAlways == Spec => []IdsNameOneMessage
<1>1. IInv => IdsNameOneMessage
  BY DEF IInv
<1>. QED BY StorageInvariant, <1>1, PTL

(* LikeMessage counts every user once, and a new message inherits no likes,*)
(* although s.likes is by message id and is never emptied.                 *)
THEOREM LikesAreCountedAlways == Spec => []LikesAreCounted
<1>1. IInv => LikesAreCounted
  BY DEF IInv
<1>. QED BY StorageInvariant, <1>1, PTL

-----------------------------------------------------------------------------
(* Pages. *)

(* Among n numbers, those up to each of them are 1, 2, ..., n many, in the *)
(* order of the numbers.                                                   *)
LEMMA RanksAreAll ==
  ASSUME NEW ids \in SUBSET Nat, IsFiniteSet(ids)
  PROVE  /\ Cardinality(ids) \in Nat
         /\ \A i \in ids :
              Cardinality({j \in ids : j <= i}) \in 1..Cardinality(ids)
         /\ \A i, k \in ids : i < k =>
              Cardinality({j \in ids : j <= i}) <
                Cardinality({j \in ids : j <= k})
         /\ \A k \in 1..Cardinality(ids) :
              \E i \in ids : Cardinality({j \in ids : j <= i}) = k
<1>. DEFINE Upto(i) == {j \in ids : j <= i}
            rank == [i \in ids |-> Cardinality(Upto(i))]
            n == Cardinality(ids)
<1>1. n \in Nat
  BY FS_CardinalityType
<1>2. \A i \in ids : Upto(i) \in SUBSET ids /\ i \in Upto(i)
  OBVIOUS
<1>3. ASSUME NEW i \in ids, NEW k \in ids, i < k
      PROVE  Upto(i) \in SUBSET Upto(k) /\ Upto(i) # Upto(k)
  <2>1. i \in Nat /\ k \in Nat /\ \A j \in ids : j \in Nat
    OBVIOUS
  <2>2. \A j \in ids : j <= i => j <= k
    BY <1>3, <2>1
  <2>3. k \notin Upto(i) /\ k \in Upto(k)
    BY <1>3, <2>1
  <2>. QED BY <2>2, <2>3
<1>. HIDE DEF Upto
<1>4. ASSUME NEW i \in ids
      PROVE  IsFiniteSet(Upto(i)) /\ Cardinality(Upto(i)) \in 1..n
  <2>1. IsFiniteSet(Upto(i)) /\ Cardinality(Upto(i)) <= n
    BY <1>2, FS_Subset
  <2>2. Cardinality(Upto(i)) \in Nat
    BY <2>1, FS_CardinalityType
  <2>3. Cardinality(Upto(i)) # 0
    BY <1>2, <2>1, FS_EmptySet
  <2>. QED BY <1>1, <2>1, <2>2, <2>3
<1>5. ASSUME NEW i \in ids, NEW k \in ids, i < k
      PROVE  Cardinality(Upto(i)) < Cardinality(Upto(k))
  <2>1. /\ Cardinality(Upto(i)) <= Cardinality(Upto(k))
        /\ Cardinality(Upto(i)) # Cardinality(Upto(k))
    BY <1>3, <1>4, <1>5, FS_Subset
  <2>. QED BY <1>4, <2>1
<1>6. ASSUME NEW i \in ids, NEW k \in ids,
             Cardinality(Upto(i)) = Cardinality(Upto(k))
      PROVE  i = k
  <2>1. i < k \/ k < i \/ i = k
    OBVIOUS
  <2>2. ~(i < k)
    BY <1>4, <1>5, <1>6
  <2>3. ~(k < i)
    BY <1>4, <1>5, <1>6
  <2>. QED BY <2>1, <2>2, <2>3
<1>7. rank \in Injection(ids, 1..n)
  BY <1>4, <1>6 DEF Injection, IsInjective
<1>8. IsFiniteSet(1..n) /\ Cardinality(1..n) = n
  BY <1>1, FS_Interval
<1>9. rank \in Surjection(ids, 1..n)
  <2>. HIDE DEF rank, n
  <2>1. n = Cardinality(ids)
    BY DEF n
  <2>. QED BY <1>7, <1>8, <2>1, FS_Injection
<1>10. \A k \in 1..n : \E i \in ids : Cardinality(Upto(i)) = k
  BY <1>9 DEF Surjection
<1>. QED BY <1>1, <1>4, <1>5, <1>10 DEF Upto

(* The list of a set of ids is theirs, and increasing. *)
LEMMA InOrderIncreases ==
  ASSUME NEW ids \in SUBSET Nat, IsFiniteSet(ids)
  PROVE  /\ Range(InOrder(ids)) = ids
         /\ \A i, j \in DOMAIN InOrder(ids) :
              i < j => InOrder(ids)[i] < InOrder(ids)[j]
<1>. DEFINE Rank(m) == Cardinality({k \in ids : k <= m})
            n == Cardinality(ids)
            list == [i \in 1..n |-> CHOOSE m \in ids : Rank(m) = i]
<1>1. /\ n \in Nat
      /\ \A m \in ids : Rank(m) \in 1..n
      /\ \A m, k \in ids : m < k => Rank(m) < Rank(k)
      /\ \A i \in 1..n : \E m \in ids : Rank(m) = i
  BY RanksAreAll
<1>2. InOrder(ids) = list
  BY DEF InOrder
<1>. HIDE DEF Rank, n
<1>3. \A i \in 1..n : list[i] \in ids /\ Rank(list[i]) = i
  BY <1>1
<1>4. \A m \in ids : list[Rank(m)] = m
  <2>. SUFFICES ASSUME NEW m \in ids PROVE list[Rank(m)] = m
    OBVIOUS
  <2>1. list[Rank(m)] \in ids /\ Rank(list[Rank(m)]) = Rank(m)
    BY <1>1, <1>3
  <2>2. \A k \in ids : k < m \/ m < k \/ k = m
    OBVIOUS
  <2>. QED BY <1>1, <2>1, <2>2
<1>5. DOMAIN list = 1..n
  OBVIOUS
<1>. HIDE DEF list
<1>6. Range(list) = ids
  BY <1>1, <1>3, <1>4, <1>5 DEF Range
<1>7. ASSUME NEW i \in 1..n, NEW j \in 1..n, i < j PROVE list[i] < list[j]
  <2>1. list[i] \in Nat /\ list[j] \in Nat
    BY <1>3
  <2>2. /\ list[i] \in ids /\ Rank(list[i]) = i
        /\ list[j] \in ids /\ Rank(list[j]) = j
    BY <1>3
  <2>3. list[j] < list[i] => j < i
    BY <1>1, <2>2
  <2>4. i \in Int /\ j \in Int
    BY <1>1
  <2>5. list[i] # list[j]
    BY <1>7, <2>2, <2>4
  <2>. QED BY <1>7, <2>1, <2>3, <2>4, <2>5
<1>. QED BY <1>2, <1>5, <1>6, <1>7

(* A window of ids, as GetMessagesWithLimit looks at it. *)
Window(t, from, limit) ==
  {m \in DOMAIN messages[t] :
     from <= m /\ m < from + limit /\ m < nextMessageId[t]}

LEMMA PageIsWindow ==
  ASSUME IInv, NEW t \in topics, NEW from, NEW limit
  PROVE  LET page == GetMessagesWithLimit(t, from, limit)
         IN  /\ Range(page) = Window(t, from, limit)
             /\ \A i, j \in DOMAIN page : i < j => page[i] < page[j]
<1>1. nextMessageId[t] \in Nat /\ DOMAIN messages[t] \subseteq 1..nextMessageId[t] - 1
  BY Bounds DEF IInv, StorageTypeOK, CountersInv
<1>2. /\ Window(t, from, limit) \subseteq 1..nextMessageId[t] - 1
      /\ Window(t, from, limit) \in SUBSET Nat
  BY <1>1 DEF Window
<1>3. IsFiniteSet(Window(t, from, limit))
  <2>1. nextMessageId[t] - 1 \in Int
    BY <1>1
  <2>2. IsFiniteSet(1..nextMessageId[t] - 1)
    BY <2>1, FS_Interval
  <2>. QED BY <1>2, <2>2, FS_Subset
<1>4. GetMessagesWithLimit(t, from, limit) = InOrder(Window(t, from, limit))
  BY DEF GetMessagesWithLimit, Window
<1>. QED BY <1>2, <1>3, <1>4, InOrderIncreases

(* m is in the k-th window of limit ids. *)
InWindow(m, k, limit) == 1 + (k - 1) * limit <= m /\ m < 1 + k * limit

(* Windows of one size cover the numbers and follow one another. *)
LEMMA WindowsFollow ==
  ASSUME NEW limit \in Nat \ {0}
  PROVE  /\ \A k, l \in Nat : k < l => k * limit <= (l - 1) * limit
         /\ \A k \in Nat : 1 + (k - 1) * limit + limit = 1 + k * limit
         /\ \A m \in Nat \ {0} : \E k \in 1..m : InWindow(m, k, limit)
<1>1. \A k \in Nat : 1 + (k - 1) * limit + limit = 1 + k * limit
  OBVIOUS
<1>2. ASSUME NEW k \in Nat, NEW l \in Nat, k < l
      PROVE  k * limit <= (l - 1) * limit
  <2>1. PICK d \in Nat : l - 1 = k + d
    <3>1. l - 1 - k \in Nat /\ l - 1 = k + (l - 1 - k)
      BY <1>2
    <3>. QED BY <3>1
  <2>2. (k + d) * limit = k * limit + d * limit
    OBVIOUS
  <2>3. k * limit \in Nat /\ d * limit \in Nat
    OBVIOUS
  <2>. QED BY <2>1, <2>2, <2>3
<1>3. ASSUME NEW m \in Nat \ {0}
      PROVE  \E k \in 1..m : InWindow(m, k, limit)
  <2>. DEFINE q == (m - 1) \div limit
              r == (m - 1) % limit
  <2>1. q \in Nat /\ r \in 0..limit - 1 /\ m - 1 = q * limit + r
    OBVIOUS
  <2>. HIDE DEF q, r
  <2>2. q <= q * limit /\ q * limit \in Nat
    <3>1. PICK d \in Nat : limit = 1 + d
      <4>1. limit - 1 \in Nat /\ limit = 1 + (limit - 1)
        OBVIOUS
      <4>. QED BY <4>1
    <3>2. q * (1 + d) = q + q * d /\ q * d \in Nat
      BY <2>1
    <3>. QED BY <2>1, <3>1, <3>2
  <2>. DEFINE k == q + 1
  <2>3. k \in 1..m /\ k - 1 = q /\ k = q + 1
    BY <2>1, <2>2
  <2>. HIDE DEF k
  <2>4. k * limit = q * limit + limit
    <3>1. (q + 1) * limit = q * limit + limit
      BY <2>1
    <3>. QED BY <2>3, <3>1
  <2>5. 1 + q * limit <= m /\ m < 1 + (q * limit + limit)
    BY <2>1, <2>2
  <2>6. InWindow(m, k, limit)
    BY <2>3, <2>4, <2>5, Zenon DEF InWindow
  <2>. QED BY <2>3, <2>6
<1>. QED BY <1>1, <1>2, <1>3

(* Whoever reads a topic page by page gets every message once and in the   *)
(* order of posting, for any number of messages and pages of any size      *)
(* (GetMessagesWithLimit).                                                 *)
THEOREM PagesAlwaysCoverTopic == Spec => []PagesCoverTopic
<1>1. ASSUME IInv, NEW t \in topics, NEW limit \in 1..MaxPosts
      PROVE  LET Page(k) == GetMessagesWithLimit(t, 1 + (k - 1) * limit, limit)
             IN  /\ UNION {Range(Page(k)) : k \in 1..MaxPosts} = DOMAIN messages[t]
                 /\ \A k, l \in 1..MaxPosts :
                      \A i \in DOMAIN Page(k), j \in DOMAIN Page(l) :
                        k < l \/ (k = l /\ i < j) => Page(k)[i] < Page(l)[j]
  <2>. DEFINE Page(k) == GetMessagesWithLimit(t, 1 + (k - 1) * limit, limit)
              Part(k) == Window(t, 1 + (k - 1) * limit, limit)
  <2>1. /\ nextMessageId[t] \in 1..MaxPosts + 1
        /\ DOMAIN messages[t] \subseteq 1..nextMessageId[t] - 1
    BY <1>1 DEF IInv, StorageTypeOK, CountersInv
  <2>2. limit \in Nat \ {0}
    BY Bounds
  <2>3. \A k \in 1..MaxPosts :
          /\ Range(Page(k)) = Part(k)
          /\ \A i, j \in DOMAIN Page(k) : i < j => Page(k)[i] < Page(k)[j]
    BY <1>1, PageIsWindow
  <2>4. \A k \in 1..MaxPosts : \A m :
          m \in Part(k) <=> m \in DOMAIN messages[t] /\ InWindow(m, k, limit)
    <3>. SUFFICES ASSUME NEW k \in 1..MaxPosts, NEW m \in DOMAIN messages[t]
         PROVE  m \in Part(k) <=> InWindow(m, k, limit)
      BY DEF Window
    <3>1. m < nextMessageId[t]
      BY <2>1, Bounds
    <3>2. 1 + (k - 1) * limit + limit = 1 + k * limit
      BY <2>2, WindowsFollow, Bounds
    <3>. QED BY <3>1, <3>2 DEF Window, InWindow
  <2>. HIDE DEF Page, Part
  <2>5. ASSUME NEW m \in DOMAIN messages[t]
        PROVE  \E k \in 1..MaxPosts : m \in Part(k)
    <3>1. m \in 1..MaxPosts
      BY <2>1, Bounds
    <3>2. PICK k \in 1..m : InWindow(m, k, limit)
      BY <2>2, <3>1, WindowsFollow, Bounds
    <3>3. k \in 1..MaxPosts
      BY <3>1, Bounds
    <3>. QED BY <2>4, <3>2, <3>3
  <2>6. UNION {Range(Page(k)) : k \in 1..MaxPosts} = DOMAIN messages[t]
    <3>1. \A k \in 1..MaxPosts : Range(Page(k)) \subseteq DOMAIN messages[t]
      BY <2>3, <2>4
    <3>. QED BY <2>3, <2>5, <3>1
  <2>7. ASSUME NEW k \in 1..MaxPosts, NEW l \in 1..MaxPosts, k < l,
               NEW m \in Part(k), NEW p \in Part(l)
        PROVE  m < p
    <3>1. m < 1 + k * limit /\ 1 + (l - 1) * limit <= p
      BY <2>4 DEF InWindow
    <3>2. k * limit <= (l - 1) * limit
      BY <2>2, <2>7, WindowsFollow, Bounds
    <3>3. m \in Int /\ p \in Int
      BY <2>1, <2>4
    <3>4. k * limit \in Int /\ (l - 1) * limit \in Int
      BY <2>2
    <3>. QED BY <3>1, <3>2, <3>3, <3>4
  <2>8. ASSUME NEW k \in 1..MaxPosts, NEW l \in 1..MaxPosts,
               NEW i \in DOMAIN Page(k), NEW j \in DOMAIN Page(l),
               k < l \/ (k = l /\ i < j)
        PROVE  Page(k)[i] < Page(l)[j]
    <3>1. Page(k)[i] \in Part(k) /\ Page(l)[j] \in Part(l)
      BY <2>3 DEF Range
    <3>. QED BY <2>3, <2>7, <2>8, <3>1
  <2>. QED BY <2>6, <2>8 DEF Page
<1>2. IInv => PagesCoverTopic
  BY <1>1 DEF PagesCoverTopic
<1>. QED BY StorageInvariant, <1>2, PTL
=============================================================================
