------------------------- MODULE SubscriptionsProofs -------------------------
(***************************************************************************)
(* Proofs of the subscriptions of a data node, for every set of topics,    *)
(* users and streams, whatever the streams ask for, every capacity of the  *)
(* channels and every number of writes.                                    *)
(*                                                                         *)
(* Tokens, the storage, what streams hold and the lists of subscribers are *)
(* one inductive invariant, IInv.  On top of it, DeliveryInv says that for *)
(* every message a stream asked for, either an event about it is on its    *)
(* way, and the last one tells truly whether the message is there, or what *)
(* is shown of it is what the storage has.                                 *)
(***************************************************************************)
EXTENDS Subscriptions, FiniteSetTheorems, SequenceTheorems, TLAPS

-----------------------------------------------------------------------------
(* The inductive invariant. *)

(* The storage; no message has changed more often than there were writes. *)
StorageInv ==
  /\ writes \in 0..MaxWrites
  /\ versions \in [Topics -> Seq(0..MaxWrites)]
  /\ messages \in [Topics -> SUBSET MessageIds]
  /\ \A t \in Topics :
       /\ Len(versions[t]) <= writes
       /\ \A i \in DOMAIN versions[t] : versions[t][i] <= writes
       /\ messages[t] \subseteq DOMAIN versions[t]

(* The event in hand tells of the latest change of its message. *)
EventInv ==
  /\ processor \in [event : MessageEvent \cup {NoEvent}, next : Nat]
  /\ Idle => processor.next = 0
  /\ ~Idle =>
       /\ processor.event.id \in DOMAIN versions[processor.event.topic]
       /\ processor.event.op = "delete" <=>
            processor.event.id \notin messages[processor.event.topic]

(* A token is available, or is one handler's for good. *)
TokenInv ==
  /\ issued \in Nat
  /\ tokens \subseteq [token : 1..issued, user : Users]
  /\ \A a, b \in tokens : a.token = b.token => a = b
  /\ \A s \in Streams :
       /\ stream[s].token \in 0..issued
       /\ stream[s].pc \in {"idle", "refused"} <=> stream[s].token = 0
       /\ stream[s].token # 0 =>
            /\ \A a \in tokens : a.token # stream[s].token
            /\ \A r \in Streams \ {s} : stream[r].token # stream[s].token

Stages == {"idle", "refused", "validated", "streaming", "returning", "closed"}
Message == [topic : Topics, id : MessageIds]
ShownMessage == [topic : Topics, id : MessageIds, version : 0..MaxWrites]
AskedTopics == {<<>>} \cup {request.topics : request \in Requests}
StreamRecord ==
  [pc : Stages, token : Nat, topics : AskedTopics, from : Int, past : Seq(Message)]

(* What every stream's variables are, and that a call without an open      *)
(* channel has nothing to send and its client nothing to show.             *)
Opened(s) ==
  /\ stream[s].pc \in {"streaming", "returning"}
  /\ ToSet(stream[s].topics) \subseteq Topics

StreamOK(s) ==
  /\ stream[s] \in StreamRecord
  /\ channel[s] \in Seq(MessageEvent) /\ Len(channel[s]) <= Capacity
  /\ shown[s] \in SUBSET ShownMessage
  /\ stream[s].pc = "streaming" => Opened(s)
  /\ ~Opened(s) => stream[s].past = <<>> /\ channel[s] = <<>> /\ shown[s] = {}

StreamInv ==
  /\ DOMAIN stream = Streams /\ DOMAIN channel = Streams
  /\ DOMAIN shown = Streams
  /\ dropped \subseteq Streams /\ gone \subseteq Streams
  /\ \A s \in Streams : StreamOK(s)

(* What is on its way are events about messages that exist or existed, in  *)
(* topics that were asked for.                                             *)
Known(s, m) ==
  m.topic \in ToSet(stream[s].topics) /\ m.id \in DOMAIN versions[m.topic]

SentOK(s) ==
  /\ \A i \in DOMAIN stream[s].past : Known(s, stream[s].past[i])
  /\ \A i \in DOMAIN channel[s] : Known(s, channel[s][i])
  /\ \A m \in shown[s] : Known(s, m)

SentInv == \A s \in Streams : SentOK(s)

(* How often s is in a list. *)
Entries(subs, s) == {i \in DOMAIN subs : subs[i] = s}

(* The open subscriptions are in the lists of their topics and under their *)
(* tokens.                                                                 *)
ListInv ==
  /\ subscribers \in [Topics -> Seq(Streams)]
  /\ \A t \in Topics, s \in Streams :
       /\ Entries(subscribers[t], s) # {} <=>
            Opened(s) /\ t \in ToSet(stream[s].topics)
       /\ Opened(s) => Cardinality(Entries(subscribers[t], s)) <=
                         Times(t, stream[s].topics)
  /\ active = {[token |-> stream[s].token, subscription |-> s] :
                 s \in {r \in Streams : Opened(r)}}

(* What a client shows of a message, once the events on their way about it *)
(* have come, is what the storage has: there tells whether the message is  *)
(* in the storage.                                                         *)
IsAbout(m, t, id) == m.topic = t /\ m.id = id

IsLast(flight, i, t, id) ==
  /\ IsAbout(flight[i], t, id)
  /\ \A j \in i + 1..Len(flight) : ~IsAbout(flight[j], t, id)

Settled(flight, view, t, id, there, version) ==
  /\ \A i \in DOMAIN flight :
       IsLast(flight, i, t, id) => (flight[i].op = "delete" <=> ~there)
  /\ (\A i \in DOMAIN flight : ~IsAbout(flight[i], t, id)) =>
       {m \in view : IsAbout(m, t, id)} =
         IF there THEN {[topic |-> t, id |-> id, version |-> version]} ELSE {}

SettledFor(s, t, id) ==
  Settled(InFlight(s), shown[s], t, id, id \in messages[t], versions[t][id])

DeliveredTo(s) ==
  \A t \in ToSet(stream[s].topics), id \in MessageIds :
    id >= stream[s].from => SettledFor(s, t, id)

DeliveryInv ==
  \A s \in Streams \ dropped : stream[s].pc = "streaming" => DeliveredTo(s)

TypeInv == StorageInv /\ EventInv /\ StreamInv /\ SentInv
IInv == TokenInv /\ TypeInv /\ ListInv

-----------------------------------------------------------------------------
(* Lists and their parts. *)

IsLinearOrder(R, P) ==
  /\ \A p \in P : <<p, p>> \in R
  /\ \A p, q \in P : <<p, q>> \in R \/ <<q, p>> \in R
  /\ \A p, q \in P : <<p, q>> \in R /\ <<q, p>> \in R => p = q
  /\ \A p, q, r \in P : <<p, q>> \in R /\ <<q, r>> \in R => <<p, r>> \in R

RankIn(p, P, R) == Cardinality({q \in P : <<q, p>> \in R})

(* In a finite set in some linear order, given as a set of pairs, the      *)
(* elements have the ranks 1, 2, ..., one each.                            *)
LEMMA RanksAreAll ==
  ASSUME NEW P, IsFiniteSet(P), NEW R, IsLinearOrder(R, P)
  PROVE  /\ Cardinality(P) \in Nat
         /\ \A p \in P : RankIn(p, P, R) \in 1..Cardinality(P)
         /\ \A p, q \in P : RankIn(p, P, R) = RankIn(q, P, R) => p = q
         /\ \A k \in 1..Cardinality(P) : \E p \in P : RankIn(p, P, R) = k
<1>. DEFINE Upto(p) == {q \in P : <<q, p>> \in R}
            rank == [p \in P |-> Cardinality(Upto(p))]
            n == Cardinality(P)
<1>1. n \in Nat
  BY FS_CardinalityType
<1>2. \A p \in P : Upto(p) \in SUBSET P /\ p \in Upto(p)
  BY DEF IsLinearOrder
<1>3. ASSUME NEW p \in P, NEW q \in P, <<p, q>> \in R, p # q
      PROVE  Upto(p) \in SUBSET Upto(q) /\ Upto(p) # Upto(q)
  <2>1. q \notin Upto(p) /\ q \in Upto(q)
    BY <1>3 DEF IsLinearOrder
  <2>. QED BY <1>3, <2>1 DEF IsLinearOrder
<1>. HIDE DEF Upto
<1>4. ASSUME NEW p \in P
      PROVE  IsFiniteSet(Upto(p)) /\ Cardinality(Upto(p)) \in 1..n
  <2>1. IsFiniteSet(Upto(p)) /\ Cardinality(Upto(p)) <= n
    BY <1>2, FS_Subset
  <2>2. Cardinality(Upto(p)) \in Nat
    BY <2>1, FS_CardinalityType
  <2>3. Cardinality(Upto(p)) # 0
    BY <1>2, <2>1, FS_EmptySet
  <2>. QED BY <1>1, <2>1, <2>2, <2>3
<1>5. ASSUME NEW p \in P, NEW q \in P, <<p, q>> \in R, p # q
      PROVE  Cardinality(Upto(p)) # Cardinality(Upto(q))
  BY <1>3, <1>4, <1>5, FS_Subset
<1>6. \A p, q \in P : Cardinality(Upto(p)) = Cardinality(Upto(q)) => p = q
  BY <1>5 DEF IsLinearOrder
<1>7. rank \in Injection(P, 1..n)
  BY <1>4, <1>6 DEF Injection, IsInjective
<1>8. IsFiniteSet(1..n) /\ Cardinality(1..n) = n
  BY <1>1, FS_Interval
<1>9. rank \in Surjection(P, 1..n)
  <2>. HIDE DEF rank, n
  <2>1. n = Cardinality(P)
    BY DEF n
  <2>. QED BY <1>7, <1>8, <2>1, FS_Injection
<1>10. \A k \in 1..n : \E p \in P : Cardinality(Upto(p)) = k
  BY <1>9 DEF Surjection
<1>. QED BY <1>1, <1>4, <1>6, <1>10 DEF Upto, RankIn

(* The past messages are those asked for, all of them. *)
LEMMA PastIsComplete ==
  ASSUME NEW topics, topics \in Seq(Topics), NEW from \in Int,
         messages \in [Topics -> SUBSET MessageIds],
         NEW past, past = PastMessages(topics, from)
  PROVE  /\ past \in Seq(Message)
         /\ \A i \in DOMAIN past :
              /\ past[i].topic \in ToSet(topics)
              /\ past[i].id \in messages[past[i].topic]
         /\ \A t \in ToSet(topics) : \A id \in messages[t] : id >= from =>
              \E i \in DOMAIN past : past[i] = [topic |-> t, id |-> id]
<1>. DEFINE pairs == (DOMAIN topics) \X MessageIds
            asked == {p \in pairs :
                        p[2] \in messages[topics[p[1]]] /\ p[2] >= from}
            R == {x \in pairs \X pairs : \/ x[1][1] < x[2][1]
                                         \/ /\ x[1][1] = x[2][1]
                                            /\ x[1][2] <= x[2][2]}
            Rank(p) == RankIn(p, asked, R)
            RankOf(p) == Cardinality({q \in asked :
                           q[1] < p[1] \/ (q[1] = p[1] /\ q[2] <= p[2])})
            n == Cardinality(asked)
            at(k) == CHOOSE p \in asked : RankOf(p) = k
<1>1. Len(topics) \in Nat /\ DOMAIN topics = 1..Len(topics) /\ MaxWrites \in Nat
  BY SubscriptionsAssumption DEF SubscriptionsAssumption
<1>2. \A p \in pairs : p[1] \in Nat /\ p[2] \in Nat /\ p = <<p[1], p[2]>>
  BY <1>1 DEF MessageIds
<1>3. IsFiniteSet(asked)
  <2>1. IsFiniteSet(DOMAIN topics) /\ IsFiniteSet(MessageIds)
    BY <1>1, FS_Interval DEF MessageIds
  <2>2. IsFiniteSet(pairs)
    BY <2>1, FS_Product
  <2>3. asked \in SUBSET pairs
    OBVIOUS
  <2>. HIDE DEF asked, pairs
  <2>. QED BY <2>2, <2>3, FS_Subset
<1>4. \A p, q \in pairs : <<q, p>> \in R <=>
        q[1] < p[1] \/ (q[1] = p[1] /\ q[2] <= p[2])
  <2>. HIDE DEF pairs
  <2>. QED OBVIOUS
<1>5. \A p \in asked : RankOf(p) = Rank(p)
  <2>. SUFFICES ASSUME NEW p \in asked
       PROVE  {q \in asked : <<q, p>> \in R} =
              {q \in asked : q[1] < p[1] \/ (q[1] = p[1] /\ q[2] <= p[2])}
    BY DEF RankIn
  <2>1. asked \subseteq pairs
    OBVIOUS
  <2>. HIDE DEF asked, pairs, R
  <2>. QED BY <1>4, <2>1 DEF RankIn
<1>6. /\ n \in Nat
      /\ \A p \in asked : Rank(p) \in 1..n
      /\ \A p, q \in asked : Rank(p) = Rank(q) => p = q
      /\ \A k \in 1..n : \E p \in asked : Rank(p) = k
  <2>1. asked \subseteq pairs
    OBVIOUS
  <2>. HIDE DEF asked, pairs, R
  <2>2. \A p \in asked : p[1] \in Nat /\ p[2] \in Nat /\ p = <<p[1], p[2]>>
    BY <1>2, <2>1
  <2>3. \A p, q \in asked : <<q, p>> \in R <=>
          q[1] < p[1] \/ (q[1] = p[1] /\ q[2] <= p[2])
    BY <1>4, <2>1
  <2>4. \A p \in asked : <<p, p>> \in R
    BY <2>2, <2>3
  <2>5. \A p, q \in asked : <<p, q>> \in R \/ <<q, p>> \in R
    <3>. SUFFICES ASSUME NEW p \in asked, NEW q \in asked
         PROVE  <<p, q>> \in R \/ <<q, p>> \in R
      OBVIOUS
    <3>1. p[1] < q[1] \/ q[1] < p[1] \/ p[1] = q[1]
      BY <2>2
    <3>2. p[2] <= q[2] \/ q[2] <= p[2]
      BY <2>2
    <3>. QED BY <2>3, <3>1, <3>2
  <2>6. \A p, q \in asked : <<p, q>> \in R /\ <<q, p>> \in R => p = q
    <3>. SUFFICES ASSUME NEW p \in asked, NEW q \in asked,
                         <<p, q>> \in R, <<q, p>> \in R
         PROVE  p = q
      OBVIOUS
    <3>1. p[1] = q[1] /\ p[2] = q[2]
      BY <2>2, <2>3
    <3>. QED BY <2>2, <3>1
  <2>7. \A p, q, r \in asked : <<p, q>> \in R /\ <<q, r>> \in R => <<p, r>> \in R
    BY <2>2, <2>3
  <2>8. IsLinearOrder(R, asked)
    BY <2>4, <2>5, <2>6, <2>7 DEF IsLinearOrder
  <2>. QED BY <1>3, <2>8, RanksAreAll
<1>7. /\ DOMAIN past = 1..n
      /\ \A k \in 1..n : past[k] = [topic |-> topics[at(k)[1]], id |-> at(k)[2]]
  BY DEF PastMessages
<1>8. \A p \in asked :
        /\ p[1] \in DOMAIN topics /\ p[2] \in MessageIds
        /\ p[2] \in messages[topics[p[1]]]
  OBVIOUS
<1>9. \A i \in DOMAIN topics : \A id \in messages[topics[i]] :
        id >= from => <<i, id>> \in asked
  OBVIOUS
<1>. HIDE DEF Rank, RankOf, asked, n
<1>10. \A k \in 1..n : at(k) \in asked /\ Rank(at(k)) = k
  BY <1>5, <1>6
<1>11. \A p \in asked : at(Rank(p)) = p
  BY <1>6, <1>10
<1>. HIDE DEF at
<1>12. \A k \in 1..n : /\ topics[at(k)[1]] \in ToSet(topics) \cap Topics
                       /\ at(k)[2] \in MessageIds
                       /\ at(k)[2] \in messages[topics[at(k)[1]]]
  BY <1>8, <1>10 DEF ToSet
<1>13. past \in Seq(Message)
  <2>1. \A k \in 1..n : past[k] \in Message
    BY <1>7, <1>12 DEF Message
  <2>2. past = [k \in 1..n |-> past[k]]
    BY <1>7 DEF PastMessages
  <2>. QED BY <1>6, <1>7, <2>1, <2>2
<1>14. \A i \in DOMAIN past : /\ past[i].topic \in ToSet(topics)
                              /\ past[i].id \in messages[past[i].topic]
  BY <1>7, <1>12
<1>15. ASSUME NEW t \in ToSet(topics), NEW id \in messages[t], id >= from
       PROVE  \E i \in DOMAIN past : past[i] = [topic |-> t, id |-> id]
  <2>1. PICK i \in DOMAIN topics : topics[i] = t
    BY DEF ToSet
  <2>2. <<i, id>> \in asked
    BY <1>9, <1>15, <2>1
  <2>3. Rank(<<i, id>>) \in 1..n /\ at(Rank(<<i, id>>)) = <<i, id>>
    BY <1>6, <1>11, <2>2
  <2>. QED BY <1>7, <2>1, <2>3
<1>. QED BY <1>13, <1>14, <1>15

(* How often something is in a list is a number. *)
LEMMA EntriesCounted ==
  ASSUME NEW S, NEW subs \in Seq(S), NEW r
  PROVE  IsFiniteSet(Entries(subs, r)) /\ Cardinality(Entries(subs, r)) \in Nat
<1>1. /\ Entries(subs, r) \in SUBSET (1..Len(subs))
      /\ IsFiniteSet(1..Len(subs))
  BY FS_Interval DEF Entries
<1>2. IsFiniteSet(Entries(subs, r))
  BY <1>1, FS_Subset
<1>. QED BY <1>2, FS_CardinalityType

(* A list without the first n entries that are s. *)
LEMMA WithoutFirstProperties ==
  ASSUME NEW S, NEW subs \in Seq(S), NEW s, NEW n \in Nat
  PROVE  /\ WithoutFirst(subs, s, n) \in Seq(S)
         /\ \A r : /\ Cardinality(Entries(WithoutFirst(subs, s, n), r)) <=
                        Cardinality(Entries(subs, r))
                   /\ Entries(subs, r) = {} => Entries(WithoutFirst(subs, s, n), r) = {}
                   /\ r # s /\ Entries(subs, r) # {} =>
                        Entries(WithoutFirst(subs, s, n), r) # {}
         /\ Cardinality(Entries(subs, s)) <= n =>
              Entries(WithoutFirst(subs, s, n), s) = {}
<1>. DEFINE earlier(i) == {j \in 1..i : subs[j] = s}
            kept == {i \in DOMAIN subs : subs[i] = s => Cardinality(earlier(i)) > n}
            R == {x \in Nat \X Nat : x[1] <= x[2]}
            RankOf(i) == Cardinality({j \in kept : j <= i})
            Rank(i) == RankIn(i, kept, R)
            m == Cardinality(kept)
            at == [k \in 1..m |-> CHOOSE i \in kept : RankOf(i) = k]
            new == WithoutFirst(subs, s, n)
<1>1. /\ Len(subs) \in Nat /\ DOMAIN subs = 1..Len(subs)
      /\ kept \subseteq DOMAIN subs /\ kept \subseteq Nat
      /\ \A i \in DOMAIN subs : subs[i] # s => i \in kept
  OBVIOUS
<1>2. \A i \in kept : subs[i] = s => Cardinality(earlier(i)) > n
  OBVIOUS
<1>3. /\ DOMAIN new = 1..m
      /\ \A k \in 1..m : new[k] = subs[at[k]]
      /\ new = [k \in 1..m |-> subs[at[k]]]
  BY DEF WithoutFirst
<1>. HIDE DEF kept, new
<1>4. IsFiniteSet(kept)
  <2>1. kept \in SUBSET (1..Len(subs)) /\ IsFiniteSet(1..Len(subs))
    BY <1>1, FS_Interval
  <2>. QED BY <2>1, FS_Subset
<1>5. \A i, j \in kept : <<i, j>> \in R <=> i <= j
  BY <1>1
<1>6. \A i \in kept : RankOf(i) = Rank(i)
  <2>. SUFFICES ASSUME NEW i \in kept
       PROVE  {j \in kept : <<j, i>> \in R} = {j \in kept : j <= i}
    BY DEF RankIn
  <2>. HIDE DEF R
  <2>. QED BY <1>5
<1>. HIDE DEF R
<1>7. IsLinearOrder(R, kept)
  BY <1>1, <1>5 DEF IsLinearOrder
<1>8. /\ m \in Nat
      /\ \A i \in kept : Rank(i) \in 1..m
      /\ \A i, j \in kept : Rank(i) = Rank(j) => i = j
      /\ \A k \in 1..m : \E i \in kept : Rank(i) = k
  BY <1>4, <1>7, RanksAreAll
<1>9. \A k \in 1..m : at[k] \in kept /\ Rank(at[k]) = k
  <2>. HIDE DEF m, Rank, RankOf
  <2>. QED BY <1>6, <1>8
<1>10. \A i \in kept : Rank(i) \in 1..m /\ at[Rank(i)] = i
  <2>. HIDE DEF m, Rank, RankOf, at
  <2>. QED BY <1>8, <1>9
<1>. HIDE DEF m, at, Rank, RankOf
<1>11. new \in Seq(S)
  <2>1. \A k \in 1..m : subs[at[k]] \in S
    BY <1>1, <1>9
  <2>. QED BY <1>3, <1>8, <2>1
<1>12. ASSUME NEW r
       PROVE  /\ Cardinality(Entries(new, r)) <= Cardinality(Entries(subs, r))
              /\ Entries(subs, r) = {} => Entries(new, r) = {}
              /\ r # s /\ Entries(subs, r) # {} => Entries(new, r) # {}
  <2>. DEFINE f == [k \in Entries(new, r) |-> at[k]]
  <2>1. \A k \in Entries(new, r) : k \in 1..m /\ at[k] \in Entries(subs, r)
    BY <1>1, <1>3, <1>9 DEF Entries
  <2>2. f \in Injection(Entries(new, r), Entries(subs, r))
    <3>1. \A j, k \in Entries(new, r) : at[j] = at[k] => j = k
      BY <1>9, <2>1
    <3>. QED BY <2>1, <3>1 DEF Injection, IsInjective
  <2>3. IsFiniteSet(Entries(subs, r))
    BY EntriesCounted
  <2>4. Cardinality(Entries(new, r)) <= Cardinality(Entries(subs, r))
    <3>. HIDE DEF f
    <3>. QED BY <2>2, <2>3, FS_Injection
  <2>5. ASSUME r # s, NEW i \in Entries(subs, r) PROVE Rank(i) \in Entries(new, r)
    <3>1. i \in kept /\ subs[i] = r
      BY <1>1, <2>5 DEF Entries
    <3>. QED BY <1>3, <1>10, <3>1 DEF Entries
  <2>. QED BY <2>1, <2>4, <2>5
<1>13. ASSUME Cardinality(Entries(subs, s)) <= n PROVE Entries(new, s) = {}
  <2>. SUFFICES ASSUME NEW k \in Entries(new, s) PROVE FALSE
    OBVIOUS
  <2>1. at[k] \in kept /\ subs[at[k]] = s
    BY <1>3, <1>9 DEF Entries
  <2>. DEFINE i == at[k]
  <2>2. i \in 1..Len(subs)
    BY <1>1, <2>1
  <2>3. earlier(i) \in SUBSET Entries(subs, s)
    BY <1>1, <2>2 DEF Entries
  <2>4. IsFiniteSet(Entries(subs, s))
    BY EntriesCounted
  <2>5. Cardinality(earlier(i)) <= Cardinality(Entries(subs, s))
        /\ Cardinality(earlier(i)) \in Nat /\ Cardinality(Entries(subs, s)) \in Nat
    BY <2>3, <2>4, FS_Subset, FS_CardinalityType
  <2>6. Cardinality(earlier(i)) > n
    BY <1>2, <2>1
  <2>. QED BY <1>13, <2>5, <2>6
<1>. QED BY <1>11, <1>12, <1>13 DEF new

(* A list names what is in it. *)
LEMMA TimesNamed ==
  ASSUME NEW S, NEW topics \in Seq(S), NEW t
  PROVE  /\ Times(t, topics) \in Nat
         /\ Times(t, topics) = 0 <=> t \notin ToSet(topics)
<1>. DEFINE named == {i \in DOMAIN topics : topics[i] = t}
<1>1. named \in SUBSET (1..Len(topics)) /\ IsFiniteSet(1..Len(topics))
  BY FS_Interval
<1>2. IsFiniteSet(named)
  BY <1>1, FS_Subset
<1>3. named = {} <=> t \notin ToSet(topics)
  BY DEF ToSet
<1>. HIDE DEF named
<1>4. Cardinality(named) \in Nat /\ (Cardinality(named) = 0 <=> named = {})
  BY <1>2, FS_CardinalityType, FS_EmptySet
<1>. QED BY <1>3, <1>4 DEF Times, named

(* A list with s appended n times. *)
LEMMA AppendedProperties ==
  ASSUME NEW S, NEW subs \in Seq(S), NEW s \in S, NEW n \in Nat
  PROVE  LET new == subs \o [i \in 1..n |-> s]
         IN  /\ new \in Seq(S)
             /\ \A r : r # s => Entries(new, r) = Entries(subs, r)
             /\ Entries(new, s) # {} <=> n > 0 \/ Entries(subs, s) # {}
             /\ Entries(subs, s) = {} => Cardinality(Entries(new, s)) = n
<1>. DEFINE more == [i \in 1..n |-> s]
            new == subs \o more
            l == Len(subs)
<1>1. more \in Seq(S) /\ Len(more) = n /\ \A i \in 1..n : more[i] = s
  OBVIOUS
<1>. HIDE DEF more
<1>2. /\ new \in Seq(S) /\ l \in Nat /\ DOMAIN subs = 1..l
      /\ DOMAIN new = 1..l + n
      /\ \A i \in 1..l : new[i] = subs[i]
      /\ \A i \in l + 1..l + n : new[i] = s
  <2>1. /\ new \in Seq(S) /\ Len(new) = l + n /\ l \in Nat /\ DOMAIN subs = 1..l
        /\ \A i \in 1..l + n : new[i] = IF i <= l THEN subs[i] ELSE more[i - l]
    BY <1>1
  <2>2. \A i \in l + 1..l + n : i - l \in 1..n /\ ~(i <= l) /\ i \in 1..l + n
    BY <2>1
  <2>. HIDE DEF new, l
  <2>3. DOMAIN new = 1..l + n
    BY <2>1
  <2>4. \A i \in 1..l : new[i] = subs[i]
    BY <2>1
  <2>. QED BY <1>1, <2>1, <2>2, <2>3, <2>4
<1>. HIDE DEF new, l
<1>3. \A r : r # s => Entries(new, r) = Entries(subs, r)
  BY <1>2 DEF Entries
<1>4. \A i \in l + 1..l + n : i \in Entries(new, s)
  BY <1>2 DEF Entries
<1>5. Entries(subs, s) \subseteq Entries(new, s)
  BY <1>2 DEF Entries
<1>6. Entries(subs, s) = {} => Entries(new, s) = l + 1..l + n
  BY <1>2 DEF Entries
<1>7. Cardinality(l + 1..l + n) = n
  BY <1>2, FS_Interval
<1>8. Entries(new, s) # {} <=> n > 0 \/ Entries(subs, s) # {}
  <2>1. n > 0 => l + 1 \in l + 1..l + n
    BY <1>2
  <2>2. n = 0 => l + 1..l + n = {}
    BY <1>2
  <2>3. CASE n > 0
    <3>1. l + 1 \in Entries(new, s)
      BY <1>4, <2>1, <2>3
    <3>. QED BY <2>3, <3>1
  <2>4. CASE n = 0
    <3>1. ~(n > 0)
      BY <2>4
    <3>2. Entries(subs, s) = {} => Entries(new, s) = {}
      BY <1>6, <2>2, <2>4
    <3>. QED BY <1>5, <3>1, <3>2
  <2>. QED BY <2>3, <2>4
<1>. QED BY <1>2, <1>3, <1>6, <1>7, <1>8 DEF new, more

-----------------------------------------------------------------------------
(* What is on its way settles what is shown. *)

(* The first event is shown. *)
LEMMA HeadShown ==
  ASSUME NEW flight \in Seq(MessageEvent), flight # <<>>, NEW view,
         NEW t, NEW id, NEW there, NEW version, NEW shownVersion,
         IsAbout(Head(flight), t, id) => shownVersion = version,
         Settled(flight, view, t, id, there, version)
  PROVE  Settled(Tail(flight), Shown(view, Head(flight), shownVersion),
                 t, id, there, version)
<1>. DEFINE e == Head(flight)
            rest == Tail(flight)
            l == Len(flight)
            after == Shown(view, e, shownVersion)
<1>1. /\ l \in Nat \ {0} /\ DOMAIN flight = 1..l /\ e = flight[1]
      /\ DOMAIN rest = 1..l - 1 /\ Len(rest) = l - 1
      /\ \A i \in 1..l - 1 : rest[i] = flight[i + 1]
  OBVIOUS
<1>. HIDE DEF rest, e, l
<1>2. ASSUME NEW i \in DOMAIN rest, IsLast(rest, i, t, id)
      PROVE  rest[i].op = "delete" <=> ~there
  <2>1. i + 1 \in DOMAIN flight /\ rest[i] = flight[i + 1]
    BY <1>1
  <2>2. ASSUME NEW j \in i + 1 + 1..Len(flight) PROVE ~IsAbout(flight[j], t, id)
    <3>1. j - 1 \in i + 1..Len(rest) /\ j - 1 \in 1..l - 1 /\ j - 1 + 1 = j
      BY <1>1, <2>1 DEF l
    <3>2. rest[j - 1] = flight[j]
      BY <1>1, <3>1
    <3>. QED BY <1>2, <3>1, <3>2 DEF IsLast
  <2>3. IsLast(flight, i + 1, t, id)
    BY <1>2, <2>1, <2>2 DEF IsLast
  <2>. QED BY <2>1, <2>3 DEF Settled
<1>3. ASSUME \A i \in DOMAIN rest : ~IsAbout(rest[i], t, id)
      PROVE  {m \in after : IsAbout(m, t, id)} =
               IF there THEN {[topic |-> t, id |-> id, version |-> version]} ELSE {}
  <2>1. \A j \in 2..l : ~IsAbout(flight[j], t, id)
    <3>. SUFFICES ASSUME NEW j \in 2..l PROVE ~IsAbout(flight[j], t, id)
      OBVIOUS
    <3>1. j - 1 \in 1..l - 1 /\ j - 1 + 1 = j
      BY <1>1
    <3>. QED BY <1>1, <1>3, <3>1
  <2>2. CASE IsAbout(e, t, id)
    <3>1. IsLast(flight, 1, t, id)
      BY <1>1, <2>1, <2>2 DEF IsLast, l
    <3>2. e.op = "delete" <=> ~there
      BY <1>1, <3>1 DEF Settled
    <3>3. {m \in after : IsAbout(m, t, id)} =
            IF e.op = "delete" THEN {}
            ELSE {[topic |-> t, id |-> id, version |-> version]}
      BY <2>2 DEF Shown, IsAbout, e
    <3>. QED BY <3>2, <3>3
  <2>3. CASE ~IsAbout(e, t, id)
    <3>1. \A i \in DOMAIN flight : ~IsAbout(flight[i], t, id)
      BY <1>1, <2>1, <2>3
    <3>2. {m \in after : IsAbout(m, t, id)} = {m \in view : IsAbout(m, t, id)}
      BY <2>3 DEF Shown, IsAbout
    <3>. QED BY <3>1, <3>2 DEF Settled
  <2>. QED BY <2>2, <2>3
<1>. QED BY <1>2, <1>3 DEF Settled, rest, e

(* The last event tells of the message, or comes twice. *)
LEMMA EventSettles ==
  ASSUME NEW before \in Seq(MessageEvent), NEW e \in MessageEvent, NEW view,
         NEW t, NEW id, NEW there, NEW version,
         IsAbout(e, t, id), e.op = "delete" <=> ~there
  PROVE  Settled(Append(before, e), view, t, id, there, version)
<1>. DEFINE flight == Append(before, e)
<1>1. /\ Len(flight) = Len(before) + 1 /\ DOMAIN flight = 1..Len(flight)
      /\ Len(before) \in Nat /\ flight[Len(flight)] = e
  OBVIOUS
<1>. HIDE DEF flight
<1>2. ASSUME NEW i \in DOMAIN flight, IsLast(flight, i, t, id)
      PROVE  i = Len(flight)
  <2>1. i # Len(flight) => Len(flight) \in i + 1..Len(flight)
    BY <1>1
  <2>. QED BY <1>1, <1>2, <2>1 DEF IsLast
<1>3. Len(flight) \in DOMAIN flight
  BY <1>1
<1>. QED BY <1>1, <1>2, <1>3 DEF Settled, flight

(* Events about other messages make no difference. *)
LEMMA OtherEvent ==
  ASSUME NEW before \in Seq(MessageEvent), NEW e \in MessageEvent, NEW view,
         NEW t, NEW id, NEW there, NEW version, ~IsAbout(e, t, id),
         Settled(before, view, t, id, there, version)
  PROVE  Settled(Append(before, e), view, t, id, there, version)
<1>. DEFINE flight == Append(before, e)
            l == Len(before)
<1>1. /\ Len(flight) = l + 1 /\ DOMAIN flight = 1..l + 1 /\ DOMAIN before = 1..l
      /\ l \in Nat /\ flight[l + 1] = e
      /\ \A i \in 1..l : flight[i] = before[i]
  OBVIOUS
<1>. HIDE DEF flight
<1>2. ASSUME NEW i \in DOMAIN flight, IsLast(flight, i, t, id)
      PROVE  i \in DOMAIN before /\ IsLast(before, i, t, id)
  <2>1. i # l + 1
    BY <1>1, <1>2 DEF IsLast
  <2>2. i \in 1..l /\ before[i] = flight[i]
    BY <1>1, <2>1
  <2>3. \A j \in i + 1..l : j \in i + 1..Len(flight) /\ flight[j] = before[j]
    BY <1>1, <2>2
  <2>. QED BY <1>1, <1>2, <2>2, <2>3 DEF IsLast
<1>3. \A i \in DOMAIN before : i \in DOMAIN flight /\ flight[i] = before[i]
  BY <1>1
<1>4. (\A i \in DOMAIN flight : ~IsAbout(flight[i], t, id)) =>
        \A i \in DOMAIN before : ~IsAbout(before[i], t, id)
  BY <1>3
<1>5. \A i \in DOMAIN flight : IsLast(flight, i, t, id) =>
        (flight[i].op = "delete" <=> ~there)
  BY <1>2, <1>3 DEF Settled
<1>. QED BY <1>4, <1>5 DEF Settled, flight

(* The last event comes twice. *)
LEMMA RepeatedEvent ==
  ASSUME NEW before \in Seq(MessageEvent), NEW e \in MessageEvent, NEW view,
         NEW t, NEW id, NEW there, NEW version,
         Settled(Append(before, e), view, t, id, there, version)
  PROVE  Settled(Append(Append(before, e), e), view, t, id, there, version)
<1>. DEFINE flight == Append(before, e)
<1>1. /\ flight \in Seq(MessageEvent) /\ Len(flight) \in DOMAIN flight
      /\ flight[Len(flight)] = e /\ Len(flight) \in Nat
  OBVIOUS
<1>. HIDE DEF flight
<1>2. CASE IsAbout(e, t, id)
  <2>1. IsLast(flight, Len(flight), t, id)
    BY <1>1, <1>2 DEF IsLast
  <2>2. e.op = "delete" <=> ~there
    BY <1>1, <2>1 DEF Settled, flight
  <2>. QED BY <1>1, <1>2, <2>2, EventSettles DEF flight
<1>3. CASE ~IsAbout(e, t, id)
  BY <1>1, <1>3, OtherEvent DEF flight
<1>. QED BY <1>2, <1>3

-----------------------------------------------------------------------------
(* Tokens. *)

LEMMA TokensKept ==
  ASSUME TokenInv, UNCHANGED <<tokens, issued>>,
         \A s \in Streams :
           /\ stream'[s].token = stream[s].token
           /\ stream'[s].pc \in {"idle", "refused"} <=>
                stream[s].pc \in {"idle", "refused"}
  PROVE  TokenInv'
BY DEF TokenInv

(* A new token is nobody's yet. *)
LEMMA TokenIssued ==
  ASSUME TokenInv, NEW u \in Users, AddSubscriptionRequest(u)
  PROVE  TokenInv'
<1>. DEFINE new == [token |-> issued + 1, user |-> u]
<1>1. /\ issued' = issued + 1 /\ tokens' = tokens \cup {new}
      /\ stream' = stream /\ issued \in Nat
  BY DEF AddSubscriptionRequest, TokenInv
<1>2. /\ \A a \in tokens : a \in [token : 1..issued + 1, user : Users]
                           /\ a.token # issued + 1
      /\ new \in [token : 1..issued + 1, user : Users]
  BY <1>1 DEF TokenInv
<1>3. tokens' \subseteq [token : 1..issued', user : Users]
  BY <1>1, <1>2
<1>4. \A a, b \in tokens' : a.token = b.token => a = b
  BY <1>1, <1>2 DEF TokenInv
<1>5. \A s \in Streams : stream[s].token \in 0..issued /\ stream[s].token \in 0..issued'
                         /\ stream[s].token # new.token
  BY <1>1 DEF TokenInv
<1>. HIDE DEF new
<1>6. \A s \in Streams : stream[s].token # 0 =>
        \A a \in tokens' : a.token # stream[s].token
  BY <1>1, <1>5 DEF TokenInv
<1>. QED BY <1>1, <1>3, <1>4, <1>5, <1>6 DEF TokenInv

(* The token becomes the handler's. *)
LEMMA TokenConsumed ==
  ASSUME TokenInv, StreamInv, NEW s \in Streams, NEW u, NEW token,
         NEW request \in Requests, Subscribe(s, u, token, request)
  PROVE  TokenInv'
<1>. DEFINE used == [token |-> token, user |-> u]
<1>1. /\ used \in tokens /\ tokens' = tokens \ {used} /\ issued' = issued
      /\ stream[s].pc = "idle"
      /\ \A r \in Streams \ {s} : stream'[r] = stream[r]
      /\ stream'[s].pc = "validated" /\ stream'[s].token = token
  BY DEF Subscribe, Accept, StreamInv, StreamOK
<1>2. token \in 1..issued /\ issued \in Nat /\ used.token = token
  BY <1>1 DEF TokenInv
<1>3. \A r \in Streams \ {s} : stream[r].token # token
  BY <1>1, <1>2 DEF TokenInv
<1>4. \A a \in tokens' : a.token # token
  BY <1>1, <1>2 DEF TokenInv
<1>. HIDE DEF used
<1>. QED BY <1>1, <1>2, <1>3, <1>4 DEF TokenInv

LEMMA NextTokenInv == StreamInv /\ TokenInv /\ [Next]_vars => TokenInv'
<1>. SUFFICES ASSUME StreamInv, TokenInv, [Next]_vars PROVE TokenInv'
  OBVIOUS
<1>1. ASSUME UNCHANGED <<tokens, issued, stream>> PROVE TokenInv'
  BY <1>1, TokensKept
<1>2. CASE ApplyEvent
  BY <1>1, <1>2 DEF ApplyEvent, ApplyPost, ApplyChange, ApplyRepeatedLike,
                    ApplyDelete, managerVars
<1>3. CASE BeginAddMessageEvent \/ SendToSubscriber \/ EndAddMessageEvent
  BY <1>1, <1>3 DEF BeginAddMessageEvent, SendToSubscriber, EndAddMessageEvent,
                    managerVars
<1>4. ASSUME NEW s \in Streams, SubscribeTopic(s) \/ HangUp(s) PROVE TokenInv'
  <2>1. ASSUME NEW u \in Users, NEW token \in 1..MaxTokens,
               NEW request \in Requests, Subscribe(s, u, token, request)
        PROVE  TokenInv'
    BY <2>1, TokenConsumed
  <2>2. ASSUME NEW u \in Users, NEW token \in 1..MaxTokens,
               SubscribeRefused(s, u, token)
        PROVE  TokenInv'
    BY <2>2, TokensKept DEF SubscribeRefused, managerVars, StreamInv, StreamOK,
                            StreamRecord
  <2>3. ASSUME NEW pc \in Stages \ {"idle", "refused"}, NEW past,
               stream[s].pc \notin {"idle", "refused"},
               stream' = [stream EXCEPT ![s].pc = pc, ![s].past = past],
               UNCHANGED <<tokens, issued>>
        PROVE  TokenInv'
    BY <2>3, TokensKept DEF StreamInv, StreamOK, StreamRecord
  <2>4. CASE ReadPastAndOpen(s)
    BY <2>3, <2>4 DEF ReadPastAndOpen, Stages
  <2>5. CASE ReadPastFails(s) \/ SendFails(s)
    <3>1. /\ stream' = [stream EXCEPT ![s].pc = "returning"]
          /\ stream[s].pc \notin {"idle", "refused"}
          /\ UNCHANGED <<tokens, issued>>
      BY <2>5 DEF ReadPastFails, SendFails, managerVars
    <3>. QED BY <3>1, TokensKept DEF StreamInv, StreamOK, StreamRecord
  <2>6. CASE SendPastMessage(s)
    BY <2>6, TokensKept DEF SendPastMessage, managerVars, StreamInv, StreamOK,
                            StreamRecord
  <2>7. CASE ClearSubscription(s)
    BY <2>3, <2>7 DEF ClearSubscription, Forget, Stages
  <2>8. CASE SendEvent(s) \/ HangUp(s)
    BY <1>1, <2>8 DEF SendEvent, HangUp, managerVars
  <2>. QED BY <1>4, <2>1, <2>2, <2>4, <2>5, <2>6, <2>7, <2>8 DEF SubscribeTopic
<1>5. CASE UNCHANGED vars
  BY <1>1, <1>5 DEF vars
<1>. QED BY <1>2, <1>3, <1>4, <1>5, TokenIssued DEF Next

-----------------------------------------------------------------------------
(* The storage and the event in hand. *)

LEMMA StorageKept ==
  ASSUME StorageInv, EventInv, UNCHANGED <<storageVars, processor>>
  PROVE  StorageInv' /\ EventInv'
BY DEF StorageInv, EventInv, storageVars, Idle

(* What any write does to the counter and the event in hand. *)
LEMMA Applies ==
  ASSUME StorageInv, EventInv, NEW op \in {"post", "change", "delete"},
         NEW t \in Topics, NEW id \in MessageIds, Applied(op, t, id)
  PROVE  /\ writes < MaxWrites /\ writes' = writes + 1 /\ writes' \in 0..MaxWrites
         /\ processor'.next = 0 /\ ~Idle'
         /\ processor'.event = [op |-> op, topic |-> t, id |-> id]
         /\ processor' \in [event : MessageEvent \cup {NoEvent}, next : Nat]
<1>1. /\ writes < MaxWrites /\ writes' = writes + 1 /\ writes \in 0..MaxWrites
      /\ processor' = [event |-> [op |-> op, topic |-> t, id |-> id], next |-> 0]
      /\ MaxWrites \in Nat
  BY SubscriptionsAssumption DEF Applied, StorageInv, SubscriptionsAssumption
<1>2. [op |-> op, topic |-> t, id |-> id] # NoEvent
  BY DEF NoEvent
<1>3. [op |-> op, topic |-> t, id |-> id] \in MessageEvent
  BY DEF MessageEvent
<1>. QED BY <1>1, <1>2, <1>3 DEF Idle

(* A new message. *)
LEMMA Posts ==
  ASSUME StorageInv, EventInv, NEW t \in Topics, ApplyPost(t)
  PROVE  StorageInv' /\ EventInv'
<1>. DEFINE id == Len(versions[t]) + 1
<1>1. /\ versions' = [versions EXCEPT ![t] = Append(versions[t], 0)]
      /\ messages' = [messages EXCEPT ![t] = messages[t] \cup {id}]
      /\ Applied("post", t, id)
  BY DEF ApplyPost
<1>2. /\ versions[t] \in Seq(0..MaxWrites) /\ Len(versions[t]) <= writes
      /\ Len(versions[t]) \in Nat /\ writes < MaxWrites /\ writes \in 0..MaxWrites
      /\ MaxWrites \in Nat
  BY <1>1, SubscriptionsAssumption DEF StorageInv, SubscriptionsAssumption, Applied
<1>3. id \in MessageIds
  BY <1>2 DEF MessageIds
<1>4. /\ writes' = writes + 1 /\ writes' \in 0..MaxWrites
      /\ processor'.next = 0 /\ ~Idle'
      /\ processor'.event = [op |-> "post", topic |-> t, id |-> id]
      /\ processor' \in [event : MessageEvent \cup {NoEvent}, next : Nat]
  BY <1>1, <1>3, Applies
<1>5. /\ Append(versions[t], 0) \in Seq(0..MaxWrites)
      /\ DOMAIN Append(versions[t], 0) = 1..id
      /\ Len(Append(versions[t], 0)) = id /\ id <= writes'
      /\ DOMAIN versions[t] = 1..id - 1
      /\ \A i \in 1..id : Append(versions[t], 0)[i] =
                            IF i = id THEN 0 ELSE versions[t][i]
  BY <1>2, <1>4
<1>6. /\ versions'[t] = Append(versions[t], 0)
      /\ messages'[t] = messages[t] \cup {id}
      /\ \A u \in Topics \ {t} : versions'[u] = versions[u] /\ messages'[u] = messages[u]
      /\ versions' \in [Topics -> Seq(0..MaxWrites)]
      /\ messages' \in [Topics -> SUBSET MessageIds]
  BY <1>1, <1>3, <1>5 DEF StorageInv
<1>. HIDE DEF id
<1>7. \A i \in DOMAIN versions'[t] : versions'[t][i] <= writes'
  <2>1. \A i \in 1..id - 1 : versions[t][i] <= writes /\ versions[t][i] \in Nat
    BY <1>2, <1>5 DEF StorageInv
  <2>2. \A i \in 1..id : i = id \/ i \in 1..id - 1
    BY <1>2 DEF id
  <2>3. \A i \in 1..id - 1 : versions[t][i] <= writes'
    BY <1>2, <1>4, <2>1
  <2>4. 0 <= writes' /\ id \in Nat
    BY <1>2, <1>4 DEF id
  <2>5. ASSUME NEW i \in 1..id PROVE versions'[t][i] <= writes'
    <3>1. CASE i = id
      BY <1>5, <1>6, <2>4, <3>1
    <3>2. CASE i # id
      BY <1>5, <1>6, <2>2, <2>3, <3>2
    <3>. QED BY <3>1, <3>2
  <2>. QED BY <1>5, <1>6, <2>5
<1>8. \A u \in Topics \ {t} :
        /\ Len(versions[u]) <= writes'
        /\ \A i \in DOMAIN versions[u] : versions[u][i] <= writes'
  <2>. SUFFICES ASSUME NEW u \in Topics \ {t}
       PROVE  /\ Len(versions[u]) <= writes'
              /\ \A i \in DOMAIN versions[u] : versions[u][i] <= writes'
    OBVIOUS
  <2>1. /\ versions[u] \in Seq(0..MaxWrites) /\ Len(versions[u]) <= writes
        /\ \A i \in DOMAIN versions[u] : versions[u][i] <= writes
    BY DEF StorageInv
  <2>. QED BY <1>2, <1>4, <2>1
<1>9. messages[t] \cup {id} \subseteq 1..id
  BY <1>2, <1>5 DEF StorageInv, id
<1>10. StorageInv'
  BY <1>4, <1>5, <1>6, <1>7, <1>8, <1>9 DEF StorageInv
<1>11. id \in 1..id /\ id \in messages'[t]
  BY <1>2, <1>6 DEF id
<1>12. EventInv'
  BY <1>4, <1>5, <1>6, <1>11 DEF EventInv
<1>. QED BY <1>10, <1>12

(* A message changes. *)
LEMMA Changes ==
  ASSUME StorageInv, EventInv, NEW t \in Topics, NEW id \in MessageIds,
         ApplyChange(t, id)
  PROVE  StorageInv' /\ EventInv'
<1>. DEFINE new == [versions[t] EXCEPT ![id] = versions[t][id] + 1]
<1>1. /\ id \in messages[t]
      /\ versions' = [versions EXCEPT ![t] = new]
      /\ messages' = messages /\ Applied("change", t, id)
  BY DEF ApplyChange, StorageInv
<1>2. /\ versions[t] \in Seq(0..MaxWrites) /\ id \in DOMAIN versions[t]
      /\ versions[t][id] <= writes /\ writes \in 0..MaxWrites /\ MaxWrites \in Nat
      /\ \A i \in DOMAIN versions[t] : versions[t][i] <= writes
      /\ Len(versions[t]) <= writes
  BY <1>1, SubscriptionsAssumption DEF StorageInv, SubscriptionsAssumption
<1>3. /\ writes' = writes + 1 /\ writes' \in 0..MaxWrites
      /\ processor'.next = 0 /\ ~Idle'
      /\ processor'.event = [op |-> "change", topic |-> t, id |-> id]
      /\ processor' \in [event : MessageEvent \cup {NoEvent}, next : Nat]
  BY <1>1, Applies
<1>4. versions[t][id] \in Nat /\ versions[t][id] + 1 \in 0..MaxWrites
  BY <1>2, <1>3
<1>5. /\ new \in Seq(0..MaxWrites) /\ DOMAIN new = DOMAIN versions[t]
      /\ Len(new) = Len(versions[t]) /\ Len(new) <= writes'
      /\ \A i \in DOMAIN new : new[i] <= writes'
  <2>1. new \in [DOMAIN versions[t] -> 0..MaxWrites]
    BY <1>2, <1>4
  <2>2. new \in Seq(0..MaxWrites) /\ DOMAIN new = DOMAIN versions[t]
        /\ Len(new) = Len(versions[t])
    BY <1>2, <2>1
  <2>3. \A i \in DOMAIN new : new[i] <= writes'
    BY <1>2, <1>3, <1>4
  <2>. QED BY <1>2, <1>3, <2>2, <2>3
<1>. HIDE DEF new
<1>6. /\ versions' \in [Topics -> Seq(0..MaxWrites)] /\ versions'[t] = new
      /\ \A u \in Topics \ {t} : versions'[u] = versions[u]
  BY <1>1, <1>5 DEF StorageInv
<1>7. \A u \in Topics \ {t} :
        /\ Len(versions[u]) <= writes'
        /\ \A i \in DOMAIN versions[u] : versions[u][i] <= writes'
  <2>. SUFFICES ASSUME NEW u \in Topics \ {t}
       PROVE  /\ Len(versions[u]) <= writes'
              /\ \A i \in DOMAIN versions[u] : versions[u][i] <= writes'
    OBVIOUS
  <2>1. /\ versions[u] \in Seq(0..MaxWrites) /\ Len(versions[u]) <= writes
        /\ \A i \in DOMAIN versions[u] : versions[u][i] <= writes
    BY DEF StorageInv
  <2>. QED BY <1>2, <1>3, <2>1
<1>8. StorageInv'
  BY <1>1, <1>3, <1>5, <1>6, <1>7 DEF StorageInv
<1>9. EventInv'
  BY <1>1, <1>2, <1>3, <1>5, <1>6 DEF EventInv
<1>. QED BY <1>8, <1>9

(* A like that is refused, or a deletion. *)
LEMMA LikesOrDeletes ==
  ASSUME StorageInv, EventInv, NEW t \in Topics, NEW id \in MessageIds,
         ApplyRepeatedLike(t, id) \/ ApplyDelete(t, id)
  PROVE  StorageInv' /\ EventInv'
<1>1. PICK op \in {"change", "delete"} :
        /\ id \in messages[t] /\ versions' = versions /\ Applied(op, t, id)
        /\ messages' = IF op = "change" THEN messages
                       ELSE [messages EXCEPT ![t] = messages[t] \ {id}]
  BY DEF ApplyRepeatedLike, ApplyDelete
<1>2. /\ writes' = writes + 1 /\ writes' \in 0..MaxWrites
      /\ processor'.next = 0 /\ ~Idle'
      /\ processor'.event = [op |-> op, topic |-> t, id |-> id]
      /\ processor' \in [event : MessageEvent \cup {NoEvent}, next : Nat]
  BY <1>1, Applies
<1>3. id \in DOMAIN versions[t] /\ writes \in 0..MaxWrites /\ MaxWrites \in Nat
  BY <1>1, SubscriptionsAssumption DEF StorageInv, SubscriptionsAssumption
<1>4. \A u \in Topics :
        /\ Len(versions[u]) <= writes'
        /\ \A i \in DOMAIN versions[u] : versions[u][i] <= writes'
  <2>. SUFFICES ASSUME NEW u \in Topics
       PROVE  /\ Len(versions[u]) <= writes'
              /\ \A i \in DOMAIN versions[u] : versions[u][i] <= writes'
    OBVIOUS
  <2>1. /\ versions[u] \in Seq(0..MaxWrites) /\ Len(versions[u]) <= writes
        /\ \A i \in DOMAIN versions[u] : versions[u][i] <= writes
    BY DEF StorageInv
  <2>. QED BY <1>2, <1>3, <2>1
<1>5. /\ messages' \in [Topics -> SUBSET MessageIds]
      /\ \A u \in Topics : messages'[u] \subseteq messages[u]
  BY <1>1 DEF StorageInv
<1>6. StorageInv'
  BY <1>1, <1>2, <1>4, <1>5 DEF StorageInv
<1>7. processor'.event.op = "delete" <=> id \notin messages'[t]
  BY <1>1, <1>2 DEF StorageInv
<1>8. EventInv'
  BY <1>1, <1>2, <1>3, <1>7 DEF EventInv
<1>. QED BY <1>6, <1>8

LEMMA EventIsInHand ==
  ASSUME EventInv, BeginAddMessageEvent \/ SendToSubscriber \/ EndAddMessageEvent
  PROVE  ~Idle
<1>1. Idle => ~TopicsLocked
  BY DEF EventInv, TopicsLocked
<1>. QED BY <1>1 DEF BeginAddMessageEvent, SendToSubscriber, EndAddMessageEvent

(* The event in hand is passed on or put away. *)
LEMMA EventInHand ==
  ASSUME StorageInv, EventInv,
         BeginAddMessageEvent \/ SendToSubscriber \/ EndAddMessageEvent
  PROVE  StorageInv' /\ EventInv'
<1>. DEFINE Processor == [event : MessageEvent \cup {NoEvent}, next : Nat]
<1>1. UNCHANGED <<versions, messages, writes>>
  BY DEF BeginAddMessageEvent, SendToSubscriber, EndAddMessageEvent, storageVars
<1>2. StorageInv'
  BY <1>1 DEF StorageInv
<1>3. ~Idle /\ processor \in Processor
  BY EventIsInHand DEF EventInv
<1>4. \/ processor' = [processor EXCEPT !.next = 1]
      \/ processor' = [processor EXCEPT !.next = processor.next + 1]
      \/ processor' = [event |-> NoEvent, next |-> 0]
  BY DEF BeginAddMessageEvent, SendToSubscriber, EndAddMessageEvent
<1>5. processor' \in Processor
      /\ (processor'.event = processor.event
          \/ (processor'.event = NoEvent /\ processor'.next = 0))
  BY <1>3, <1>4
<1>. QED BY <1>1, <1>2, <1>3, <1>5 DEF EventInv, Idle

LEMMA NextStorage ==
  StorageInv /\ EventInv /\ [Next]_vars => StorageInv' /\ EventInv'
<1>. SUFFICES ASSUME StorageInv, EventInv, [Next]_vars
     PROVE  StorageInv' /\ EventInv'
  OBVIOUS
<1>1. CASE ApplyEvent
  BY <1>1, Posts, Changes, LikesOrDeletes DEF ApplyEvent
<1>2. CASE BeginAddMessageEvent \/ SendToSubscriber \/ EndAddMessageEvent
  BY <1>2, EventInHand
<1>3. ASSUME NEW u \in Users, AddSubscriptionRequest(u)
      PROVE  StorageInv' /\ EventInv'
  BY <1>3, StorageKept DEF AddSubscriptionRequest
<1>4. ASSUME NEW s \in Streams, SubscribeTopic(s) \/ HangUp(s)
      PROVE  StorageInv' /\ EventInv'
  BY <1>4, StorageKept DEF SubscribeTopic, Subscribe, SubscribeRefused,
       ReadPastAndOpen, ReadPastFails, SendPastMessage, SendEvent, SendFails,
       ClearSubscription, HangUp
<1>5. CASE UNCHANGED vars
  BY <1>5, StorageKept DEF vars, storageVars
<1>. QED BY <1>1, <1>2, <1>3, <1>4, <1>5 DEF Next

-----------------------------------------------------------------------------
(* What streams have and send. *)

(* A step that leaves all other streams as they are. *)
LEMMA OneStream ==
  ASSUME StreamInv, SentInv, NEW s \in Streams, versions' = versions,
         DOMAIN stream' = Streams, DOMAIN channel' = Streams,
         DOMAIN shown' = Streams,
         dropped' \subseteq Streams, gone' \subseteq Streams,
         \A r \in Streams \ {s} : /\ stream'[r] = stream[r]
                                  /\ channel'[r] = channel[r]
                                  /\ shown'[r] = shown[r],
         StreamOK(s)' /\ SentOK(s)'
  PROVE  StreamInv' /\ SentInv'
<1>1. ASSUME NEW r \in Streams \ {s} PROVE StreamOK(r)' /\ SentOK(r)'
  BY DEF StreamInv, SentInv, StreamOK, SentOK, Opened, Known
<1>. QED BY <1>1 DEF StreamInv, SentInv

(* Only the storage changes, and forgets no message. *)
LEMMA StreamsKept ==
  ASSUME StreamInv, SentInv, UNCHANGED <<stream, channel, shown>>,
         dropped' \subseteq Streams, gone' \subseteq Streams,
         \A t \in Topics : DOMAIN versions[t] \subseteq DOMAIN versions'[t]
  PROVE  StreamInv' /\ SentInv'
<1>1. ASSUME NEW s \in Streams PROVE StreamOK(s)' /\ SentOK(s)'
  <2>1. StreamOK(s)'
    BY DEF StreamInv, StreamOK, Opened
  <2>2. \A m : m.topic \in Topics /\ Known(s, m) => Known(s, m)'
    BY DEF Known
  <2>3. \A i \in DOMAIN stream[s].past : stream[s].past[i].topic \in Topics
    <3>1. stream[s].past \in Seq(Message)
      BY DEF StreamInv, StreamOK, StreamRecord
    <3>2. \A i \in DOMAIN stream[s].past : stream[s].past[i] \in Message
      BY <3>1
    <3>. QED BY <3>2 DEF Message
  <2>4. \A i \in DOMAIN channel[s] : channel[s][i].topic \in Topics
    <3>1. channel[s] \in Seq(MessageEvent)
      BY DEF StreamInv, StreamOK
    <3>2. \A i \in DOMAIN channel[s] : channel[s][i] \in MessageEvent
      BY <3>1
    <3>. QED BY <3>2 DEF MessageEvent
  <2>5. \A m \in shown[s] : m.topic \in Topics
    BY DEF StreamInv, StreamOK, ShownMessage
  <2>. QED BY <2>1, <2>2, <2>3, <2>4, <2>5 DEF SentInv, SentOK
<1>. QED BY <1>1 DEF StreamInv, SentInv

(* What is shown of an event. *)
LEMMA ShownTyped ==
  ASSUME NEW s, NEW view \in SUBSET ShownMessage, NEW e, e.topic \in Topics,
         e.id \in MessageIds, NEW version \in 0..MaxWrites,
         Known(s, e), \A m \in view : Known(s, m)
  PROVE  /\ Shown(view, e, version) \in SUBSET ShownMessage
         /\ \A m \in Shown(view, e, version) : Known(s, m)
<1>. DEFINE new == [topic |-> e.topic, id |-> e.id, version |-> version]
<1>1. new \in ShownMessage /\ Known(s, new)
  BY DEF ShownMessage, Known
<1>2. Shown(view, e, version) \subseteq view \cup {new}
  BY DEF Shown
<1>. QED BY <1>1, <1>2

(* A message on its way has a version to be shown in. *)
LEMMA KnownVersion ==
  ASSUME StorageInv, NEW s, NEW m, m.topic \in Topics, Known(s, m)
  PROVE  versions[m.topic][m.id] \in 0..MaxWrites
<1>. PICK changes, id : changes = versions[m.topic] /\ id = m.id
  OBVIOUS
<1>1. changes \in Seq(0..MaxWrites) /\ id \in DOMAIN changes
  BY DEF StorageInv, Known
<1>2. id \in 1..Len(changes)
  BY <1>1
<1>3. changes[id] \in 0..MaxWrites
  BY <1>1, <1>2, ElementOfSeq
<1>. QED BY <1>3

(* The head of a list and the rest. *)
LEMMA HeadsAndTails ==
  ASSUME NEW S, NEW seq \in Seq(S), seq # <<>>
  PROVE  /\ Head(seq) \in S /\ Head(seq) = seq[1] /\ 1 \in DOMAIN seq
         /\ Tail(seq) \in Seq(S) /\ Len(Tail(seq)) = Len(seq) - 1
         /\ \A i \in DOMAIN Tail(seq) :
              i + 1 \in DOMAIN seq /\ Tail(seq)[i] = seq[i + 1]
OBVIOUS

(* A message's versions are never forgotten. *)
LEMMA StorageGrows ==
  ASSUME StorageInv, ApplyEvent
  PROVE  \A t \in Topics : DOMAIN versions[t] \subseteq DOMAIN versions'[t]
<1>1. ASSUME NEW t \in Topics, ApplyPost(t)
      PROVE  \A u \in Topics : DOMAIN versions[u] \subseteq DOMAIN versions'[u]
  <2>1. /\ \A u \in Topics \ {t} : versions'[u] = versions[u]
        /\ versions'[t] = Append(versions[t], 0)
    BY <1>1 DEF ApplyPost, StorageInv
  <2>2. DOMAIN versions[t] \subseteq DOMAIN Append(versions[t], 0)
    BY DEF StorageInv
  <2>. QED BY <2>1, <2>2
<1>2. ASSUME NEW t \in Topics, NEW id, ApplyChange(t, id)
      PROVE  \A u \in Topics : DOMAIN versions[u] \subseteq DOMAIN versions'[u]
  BY <1>2 DEF ApplyChange, StorageInv
<1>. QED BY <1>1, <1>2 DEF ApplyEvent, ApplyRepeatedLike, ApplyDelete

(* The event in hand is put into a channel. *)
LEMMA EventSent ==
  ASSUME IInv, SendToSubscriber
  PROVE  StreamInv' /\ SentInv'
<1>. PICK e, subs, s : /\ e = processor.event /\ subs = subscribers[e.topic]
                       /\ s = subs[processor.next]
  OBVIOUS
<1>1. /\ ~Idle /\ processor.next > 0 /\ processor.next \in Nat
      /\ e \in MessageEvent /\ e.topic \in Topics /\ e.id \in DOMAIN versions[e.topic]
  BY DEF SendToSubscriber, TopicsLocked, IInv, TypeInv, EventInv, Idle, MessageEvent
<1>2. /\ subs \in Seq(Streams) /\ processor.next \in DOMAIN subs /\ s \in Streams
      /\ processor.next \in Entries(subs, s)
  BY <1>1 DEF SendToSubscriber, IInv, ListInv, Entries
<1>3. Opened(s) /\ Known(s, e)
  BY <1>1, <1>2 DEF IInv, ListInv, Known
<1>4. UNCHANGED <<versions, stream, shown, gone>>
  BY DEF SendToSubscriber, storageVars
<1>5. StreamInv /\ SentInv /\ StreamOK(s) /\ SentOK(s)
  BY <1>2 DEF IInv, TypeInv, StreamInv, SentInv
<1>6. CASE Len(channel[s]) < Capacity
  <2>1. channel' = [channel EXCEPT ![s] = Append(channel[s], e)]
        /\ dropped' = dropped
    BY <1>6 DEF SendToSubscriber
  <2>2. /\ channel'[s] = Append(channel[s], e) /\ DOMAIN channel' = Streams
        /\ \A r \in Streams \ {s} : channel'[r] = channel[r]
    BY <1>2, <1>5, <2>1 DEF StreamInv
  <2>3. /\ Append(channel[s], e) \in Seq(MessageEvent)
        /\ Len(Append(channel[s], e)) <= Capacity
        /\ \A i \in DOMAIN Append(channel[s], e) :
             \/ i \in DOMAIN channel[s] /\ Append(channel[s], e)[i] = channel[s][i]
             \/ Append(channel[s], e)[i] = e
    <3>. DEFINE old == channel[s]
    <3>1. old \in Seq(MessageEvent) /\ Len(old) < Capacity /\ Capacity \in Nat
      BY <1>5, <1>6, SubscriptionsAssumption DEF StreamOK, SubscriptionsAssumption
    <3>. HIDE DEF old
    <3>2. /\ Append(old, e) \in Seq(MessageEvent)
          /\ Len(Append(old, e)) <= Capacity
          /\ \A i \in DOMAIN Append(old, e) :
               \/ i \in DOMAIN old /\ Append(old, e)[i] = old[i]
               \/ Append(old, e)[i] = e
      BY <1>1, <3>1
    <3>. QED BY <3>2 DEF old
  <2>4. StreamOK(s)'
    BY <1>3, <1>4, <1>5, <2>2, <2>3 DEF StreamOK, Opened
  <2>5. SentOK(s)'
    <3>1. \A i \in DOMAIN channel'[s] : Known(s, channel'[s][i])
      <4>. SUFFICES ASSUME NEW i \in DOMAIN channel'[s]
           PROVE  Known(s, channel'[s][i])
        OBVIOUS
      <4>1. i \in DOMAIN Append(channel[s], e)
            /\ channel'[s][i] = Append(channel[s], e)[i]
        BY <2>2
      <4>2. CASE i \in DOMAIN channel[s] /\ channel'[s][i] = channel[s][i]
        BY <1>5, <4>2 DEF SentOK
      <4>3. CASE channel'[s][i] = e
        BY <1>3, <4>3
      <4>. QED BY <2>3, <4>1, <4>2, <4>3
    <3>2. \A m : Known(s, m)' <=> Known(s, m)
      BY <1>4 DEF Known
    <3>. QED BY <1>4, <1>5, <3>1, <3>2 DEF SentOK
  <2>. QED BY <1>2, <1>4, <1>5, <2>1, <2>2, <2>4, <2>5, OneStream DEF StreamInv
<1>7. CASE ~(Len(channel[s]) < Capacity)
  <2>1. channel' = channel /\ dropped' = dropped \cup {s}
    BY <1>7 DEF SendToSubscriber
  <2>. QED BY <1>2, <1>4, <1>5, <2>1, StreamsKept DEF StreamInv
<1>. QED BY <1>6, <1>7

(* A stream that has no channel open yet, or no more. *)
LEMMA ClosedStream ==
  ASSUME StreamInv, SentInv, NEW s \in Streams, NEW record \in StreamRecord,
         record.pc \in {"refused", "validated", "closed"}
         \/ (record.pc = "returning" /\ ~(ToSet(record.topics) \subseteq Topics)),
         record.past = <<>>,
         stream' = [stream EXCEPT ![s] = record],
         DOMAIN channel' = Streams, DOMAIN shown' = Streams,
         channel'[s] = <<>>, shown'[s] = {},
         \A r \in Streams \ {s} : channel'[r] = channel[r] /\ shown'[r] = shown[r],
         UNCHANGED <<versions, dropped, gone>>
  PROVE  StreamInv' /\ SentInv'
<1>1. /\ DOMAIN stream' = Streams /\ stream'[s] = record
      /\ \A r \in Streams \ {s} : stream'[r] = stream[r]
  BY DEF StreamInv
<1>2. <<>> \in Seq(MessageEvent) /\ Len(<<>>) = 0 /\ 0 <= Capacity
      /\ DOMAIN <<>> = {}
  BY SubscriptionsAssumption DEF SubscriptionsAssumption
<1>3. StreamOK(s)' /\ SentOK(s)'
  BY <1>1, <1>2 DEF StreamOK, SentOK, Opened
<1>. QED BY <1>1, <1>3, OneStream DEF StreamInv

(* A call is accepted, refused, or ends. *)
LEMMA NotOpenedStep ==
  ASSUME StreamInv, SentInv, NEW s \in Streams,
         \/ \E u, token : \E request \in Requests :
              token \in Nat /\ Subscribe(s, u, token, request)
         \/ \E u, token : SubscribeRefused(s, u, token)
         \/ ReadPastFails(s)
         \/ ClearSubscription(s)
  PROVE  StreamInv' /\ SentInv'
<1>1. /\ StreamOK(s) /\ stream[s] \in StreamRecord
      /\ DOMAIN channel = Streams /\ DOMAIN shown = Streams
  BY DEF StreamInv, StreamOK
<1>2. UNCHANGED <<versions, dropped, gone>>
  BY DEF Subscribe, SubscribeRefused, ReadPastFails, ClearSubscription, storageVars
<1>3. ASSUME stream[s].pc \in {"idle", "validated"}, UNCHANGED <<channel, shown>>
      PROVE  channel'[s] = <<>> /\ shown'[s] = {} /\ stream[s].past = <<>>
  BY <1>1, <1>3 DEF StreamOK, Opened
<1>4. ASSUME NEW u, NEW token \in Nat, NEW request \in Requests,
             Subscribe(s, u, token, request)
      PROVE  StreamInv' /\ SentInv'
  <2>. DEFINE record == [pc |-> "validated", token |-> token,
                 topics |-> request.topics, from |-> request.from, past |-> <<>>]
  <2>1. record \in StreamRecord
    <3>1. request.topics \in AskedTopics /\ request.from \in Int
      BY SubscriptionsAssumption DEF SubscriptionsAssumption, AskedTopics
    <3>2. <<>> \in Seq(Message)
      OBVIOUS
    <3>. QED BY <3>1, <3>2 DEF StreamRecord, Stages
  <2>2. stream' = [stream EXCEPT ![s] = record]
        /\ stream[s].pc = "idle" /\ UNCHANGED <<channel, shown>>
    BY <1>4 DEF Subscribe, Accept
  <2>3. record.pc = "validated" /\ record.past = <<>>
    OBVIOUS
  <2>. HIDE DEF record
  <2>. QED BY <1>1, <1>2, <1>3, <2>1, <2>2, <2>3, ClosedStream
<1>5. CASE \E u, token : SubscribeRefused(s, u, token)
  <2>. DEFINE record == [stream[s] EXCEPT !.pc = "refused"]
  <2>1. stream' = [stream EXCEPT ![s] = record]
        /\ stream[s].pc = "idle" /\ UNCHANGED <<channel, shown>>
    BY <1>5 DEF SubscribeRefused
  <2>2. record \in StreamRecord /\ record.pc = "refused" /\ record.past = <<>>
    BY <1>1, <1>3, <2>1 DEF StreamRecord, Stages
  <2>. HIDE DEF record
  <2>. QED BY <1>1, <1>2, <1>3, <2>1, <2>2, ClosedStream
<1>6. CASE ReadPastFails(s)
  <2>. DEFINE record == [stream[s] EXCEPT !.pc = "returning"]
  <2>1. stream' = [stream EXCEPT ![s] = record]
        /\ stream[s].pc = "validated" /\ UNCHANGED <<channel, shown>>
        /\ ~(ToSet(stream[s].topics) \subseteq Topics)
    BY <1>6 DEF ReadPastFails
  <2>2. record \in StreamRecord /\ record.pc = "returning" /\ record.past = <<>>
        /\ record.topics = stream[s].topics
    BY <1>1, <1>3, <2>1 DEF StreamRecord, Stages
  <2>. HIDE DEF record
  <2>. QED BY <1>1, <1>2, <1>3, <2>1, <2>2, ClosedStream
<1>7. CASE ClearSubscription(s)
  <2>. DEFINE record == [stream[s] EXCEPT !.pc = "closed", !.past = <<>>]
  <2>1. /\ stream' = [stream EXCEPT ![s] = record]
        /\ channel' = [channel EXCEPT ![s] = <<>>]
        /\ shown' = [shown EXCEPT ![s] = {}]
    BY <1>7 DEF ClearSubscription, Forget
  <2>2. record \in StreamRecord /\ record.pc = "closed" /\ record.past = <<>>
    <3>1. <<>> \in Seq(Message)
      OBVIOUS
    <3>. QED BY <1>1, <3>1 DEF StreamRecord, Stages
  <2>. HIDE DEF record
  <2>3. /\ DOMAIN channel' = Streams /\ DOMAIN shown' = Streams
        /\ channel'[s] = <<>> /\ shown'[s] = {}
        /\ \A r \in Streams \ {s} : channel'[r] = channel[r] /\ shown'[r] = shown[r]
    BY <1>1, <2>1
  <2>. QED BY <1>2, <2>1, <2>2, <2>3, ClosedStream
<1>. QED BY <1>4, <1>5, <1>6, <1>7

(* The past is read and the channel opened. *)
LEMMA OpenedStep ==
  ASSUME IInv, NEW s \in Streams, ReadPastAndOpen(s)
  PROVE  StreamInv' /\ SentInv'
<1>. DEFINE topics == stream[s].topics
            past == PastMessages(topics, stream[s].from)
            record == [stream[s] EXCEPT !.pc = "streaming", !.past = past]
<1>1. /\ StreamInv /\ SentInv /\ StorageInv /\ StreamOK(s) /\ SentOK(s)
      /\ stream[s] \in StreamRecord /\ stream[s].pc = "validated"
      /\ ToSet(topics) \subseteq Topics
      /\ UNCHANGED <<versions, channel, shown, dropped, gone>>
      /\ stream' = [stream EXCEPT ![s] = record]
  BY DEF IInv, TypeInv, StreamInv, SentInv, StreamOK, ReadPastAndOpen, storageVars
<1>2. topics \in Seq(Topics) /\ stream[s].from \in Int
  <2>1. topics \in Seq(ToSet(topics))
    <3>1. topics \in AskedTopics
      BY <1>1 DEF StreamRecord
    <3>2. <<>> \in Seq(ToSet(<<>>))
      OBVIOUS
    <3>. QED BY <3>1, <3>2, SubscriptionsAssumption
             DEF AskedTopics, SubscriptionsAssumption
  <2>. QED BY <1>1, <2>1 DEF StreamRecord
<1>3. /\ past \in Seq(Message)
      /\ \A i \in DOMAIN past : /\ past[i].topic \in ToSet(topics)
                                /\ past[i].id \in messages[past[i].topic]
  BY <1>1, <1>2, PastIsComplete DEF StorageInv
<1>4. record \in StreamRecord /\ record.pc = "streaming" /\ record.past = past
      /\ record.topics = topics
  BY <1>1, <1>3 DEF StreamRecord, Stages
<1>5. channel[s] = <<>> /\ shown[s] = {}
  BY <1>1 DEF StreamOK, Opened
<1>. HIDE DEF past, record, topics
<1>6. /\ DOMAIN stream' = Streams /\ stream'[s] = record
      /\ \A r \in Streams \ {s} : stream'[r] = stream[r]
  BY <1>1 DEF StreamInv
<1>7. StreamOK(s)'
  BY <1>1, <1>4, <1>6 DEF StreamOK, Opened
<1>8. \A i \in DOMAIN past : past[i].id \in DOMAIN versions[past[i].topic]
  BY <1>1, <1>3 DEF StorageInv
<1>9. SentOK(s)'
  BY <1>1, <1>3, <1>4, <1>5, <1>6, <1>8 DEF SentOK, Known
<1>. QED BY <1>1, <1>6, <1>7, <1>9, OneStream DEF StreamInv

(* A message is sent, or cannot be. *)
LEMMA SendStep ==
  ASSUME IInv, NEW s \in Streams,
         SendPastMessage(s) \/ SendEvent(s) \/ SendFails(s)
  PROVE  StreamInv' /\ SentInv'
<1>1. /\ StreamInv /\ SentInv /\ StorageInv /\ StreamOK(s) /\ SentOK(s)
      /\ stream[s] \in StreamRecord /\ stream[s].pc = "streaming" /\ Opened(s)
      /\ UNCHANGED <<versions, dropped, gone>>
  BY DEF IInv, TypeInv, StreamInv, SentInv, StreamOK, SendPastMessage,
         SendEvent, SendFails, storageVars
<1>2. CASE SendPastMessage(s)
  <2>. DEFINE m == Head(stream[s].past)
              e == PostEvent(m)
              record == [stream[s] EXCEPT !.past = Tail(stream[s].past)]
  <2>1. /\ stream[s].past # <<>> /\ stream[s].past \in Seq(Message)
        /\ stream' = [stream EXCEPT ![s] = record] /\ channel' = channel
        /\ shown' = [shown EXCEPT
             ![s] = Shown(shown[s], e, versions[e.topic][e.id])]
    BY <1>1, <1>2 DEF SendPastMessage, Show, StreamRecord
  <2>2. /\ m \in Message /\ m = stream[s].past[1] /\ 1 \in DOMAIN stream[s].past
        /\ Tail(stream[s].past) \in Seq(Message)
        /\ \A i \in DOMAIN Tail(stream[s].past) :
             /\ i + 1 \in DOMAIN stream[s].past
             /\ Tail(stream[s].past)[i] = stream[s].past[i + 1]
    BY <2>1, HeadsAndTails
  <2>3. e.topic = m.topic /\ e.id = m.id /\ e.topic \in Topics /\ e.id \in MessageIds
    BY <2>2 DEF PostEvent, Message
  <2>4. Known(s, e) /\ \A x \in shown[s] : Known(s, x)
    BY <1>1, <2>2, <2>3 DEF SentOK, Known
  <2>5. versions[e.topic][e.id] \in 0..MaxWrites
    BY <1>1, <2>3, <2>4, KnownVersion
  <2>. DEFINE after == Shown(shown[s], e, versions[e.topic][e.id])
  <2>6. after \in SUBSET ShownMessage /\ \A x \in after : Known(s, x)
    <3>. HIDE DEF e
    <3>. QED BY <1>1, <2>3, <2>4, <2>5, ShownTyped DEF StreamOK
  <2>7. record \in StreamRecord /\ record.pc = "streaming"
        /\ record.topics = stream[s].topics /\ record.past = Tail(stream[s].past)
    BY <1>1, <2>2 DEF StreamRecord
  <2>. HIDE DEF m, e, record, after
  <2>8. /\ DOMAIN stream' = Streams /\ DOMAIN shown' = Streams
        /\ stream'[s] = record /\ shown'[s] = after
        /\ \A r \in Streams \ {s} : stream'[r] = stream[r] /\ shown'[r] = shown[r]
    BY <1>1, <2>1 DEF StreamInv, after
  <2>9. StreamOK(s)'
    BY <1>1, <2>1, <2>6, <2>7, <2>8 DEF StreamOK, Opened
  <2>10. \A i \in DOMAIN Tail(stream[s].past) : Known(s, Tail(stream[s].past)[i])
    BY <1>1, <2>2 DEF SentOK
  <2>11. SentOK(s)'
    BY <1>1, <2>1, <2>6, <2>7, <2>8, <2>10 DEF SentOK, Known
  <2>. QED BY <1>1, <2>1, <2>8, <2>9, <2>11, OneStream DEF StreamInv
<1>3. CASE SendEvent(s)
  <2>. DEFINE e == Head(channel[s])
              after == Shown(shown[s], e, versions[e.topic][e.id])
  <2>1. /\ channel[s] # <<>> /\ channel[s] \in Seq(MessageEvent) /\ stream' = stream
        /\ channel' = [channel EXCEPT ![s] = Tail(channel[s])]
        /\ shown' = [shown EXCEPT ![s] = after]
    BY <1>1, <1>3 DEF SendEvent, Show, StreamOK
  <2>2. /\ e \in MessageEvent /\ e = channel[s][1] /\ 1 \in DOMAIN channel[s]
        /\ Tail(channel[s]) \in Seq(MessageEvent)
        /\ Len(Tail(channel[s])) = Len(channel[s]) - 1
        /\ \A i \in DOMAIN Tail(channel[s]) :
             i + 1 \in DOMAIN channel[s] /\ Tail(channel[s])[i] = channel[s][i + 1]
    BY <2>1, HeadsAndTails
  <2>3. e.topic \in Topics /\ e.id \in MessageIds
    BY <2>2 DEF MessageEvent
  <2>4. Known(s, e) /\ \A x \in shown[s] : Known(s, x)
    BY <1>1, <2>2 DEF SentOK
  <2>. HIDE DEF e
  <2>5. versions[e.topic][e.id] \in 0..MaxWrites
    BY <1>1, <2>3, <2>4, KnownVersion
  <2>6. after \in SUBSET ShownMessage /\ \A x \in after : Known(s, x)
    BY <1>1, <2>3, <2>4, <2>5, ShownTyped DEF StreamOK
  <2>7. Len(Tail(channel[s])) <= Capacity
    BY <1>1, <2>1, <2>2, SubscriptionsAssumption
       DEF StreamOK, SubscriptionsAssumption
  <2>. HIDE DEF after
  <2>8. /\ DOMAIN channel' = Streams /\ DOMAIN shown' = Streams
        /\ channel'[s] = Tail(channel[s]) /\ shown'[s] = after
        /\ \A r \in Streams \ {s} : channel'[r] = channel[r] /\ shown'[r] = shown[r]
    BY <1>1, <2>1 DEF StreamInv
  <2>9. StreamOK(s)'
    BY <1>1, <2>1, <2>2, <2>6, <2>7, <2>8 DEF StreamOK, Opened
  <2>10. \A i \in DOMAIN Tail(channel[s]) : Known(s, Tail(channel[s])[i])
    BY <1>1, <2>2 DEF SentOK
  <2>11. SentOK(s)'
    BY <1>1, <2>1, <2>6, <2>8, <2>10 DEF SentOK, Known
  <2>. QED BY <1>1, <2>1, <2>8, <2>9, <2>11, OneStream DEF StreamInv
<1>4. CASE SendFails(s)
  <2>. DEFINE record == [stream[s] EXCEPT !.pc = "returning"]
  <2>1. stream' = [stream EXCEPT ![s] = record] /\ UNCHANGED <<channel, shown>>
    BY <1>4 DEF SendFails
  <2>2. record \in StreamRecord /\ record.pc = "returning"
        /\ record.topics = stream[s].topics /\ record.past = stream[s].past
    BY <1>1 DEF StreamRecord, Stages
  <2>. HIDE DEF record
  <2>3. /\ DOMAIN stream' = Streams /\ stream'[s] = record
        /\ \A r \in Streams \ {s} : stream'[r] = stream[r]
    BY <1>1, <2>1 DEF StreamInv
  <2>4. StreamOK(s)' /\ SentOK(s)'
    BY <1>1, <2>1, <2>2, <2>3 DEF StreamOK, SentOK, Opened, Known
  <2>. QED BY <1>1, <2>1, <2>3, <2>4, OneStream DEF StreamInv
<1>. QED BY <1>2, <1>3, <1>4

LEMMA NextStreams == IInv /\ [Next]_vars => StreamInv' /\ SentInv'
<1>. SUFFICES ASSUME IInv, [Next]_vars PROVE StreamInv' /\ SentInv'
  OBVIOUS
<1>1. StreamInv /\ SentInv /\ StorageInv
  BY DEF IInv, TypeInv
<1>2. CASE ApplyEvent
  <2>1. UNCHANGED <<stream, channel, shown, dropped, gone>>
    BY <1>2 DEF ApplyEvent, ApplyPost, ApplyChange, ApplyRepeatedLike, ApplyDelete
  <2>. QED BY <1>1, <1>2, <2>1, StorageGrows, StreamsKept DEF StreamInv
<1>3. ASSUME UNCHANGED <<versions, stream, channel, shown, dropped>>,
             gone' \subseteq Streams
      PROVE  StreamInv' /\ SentInv'
  BY <1>1, <1>3, StreamsKept DEF StreamInv
<1>4. ASSUME UNCHANGED gone PROVE gone' \subseteq Streams
  BY <1>1, <1>4 DEF StreamInv
<1>5. CASE BeginAddMessageEvent \/ EndAddMessageEvent
           \/ \E u \in Users : AddSubscriptionRequest(u)
  BY <1>3, <1>4, <1>5 DEF BeginAddMessageEvent, EndAddMessageEvent,
                          AddSubscriptionRequest, storageVars
<1>6. ASSUME NEW s \in Streams, HangUp(s) PROVE StreamInv' /\ SentInv'
  <2>1. UNCHANGED <<versions, stream, channel, shown, dropped>>
        /\ gone' = gone \cup {s}
    BY <1>6 DEF HangUp, storageVars
  <2>. QED BY <1>1, <1>3, <2>1 DEF StreamInv
<1>7. ASSUME NEW s \in Streams, SubscribeTopic(s) PROVE StreamInv' /\ SentInv'
  <2>1. 1..MaxTokens \subseteq Nat
    BY SubscriptionsAssumption DEF SubscriptionsAssumption
  <2>2. ASSUME NEW u \in Users, NEW token \in 1..MaxTokens,
               \/ \E request \in Requests : Subscribe(s, u, token, request)
               \/ SubscribeRefused(s, u, token)
        PROVE  StreamInv' /\ SentInv'
    BY <1>1, <2>1, <2>2, NotOpenedStep
  <2>3. CASE ReadPastFails(s) \/ ClearSubscription(s)
    BY <1>1, <2>3, NotOpenedStep
  <2>4. CASE ReadPastAndOpen(s)
    BY <2>4, OpenedStep
  <2>5. CASE SendPastMessage(s) \/ SendEvent(s) \/ SendFails(s)
    BY <2>5, SendStep
  <2>. QED BY <1>7, <2>2, <2>3, <2>4, <2>5 DEF SubscribeTopic
<1>8. CASE UNCHANGED vars
  BY <1>3, <1>4, <1>8 DEF vars
<1>. QED BY <1>2, <1>5, <1>6, <1>7, <1>8, EventSent DEF Next

-----------------------------------------------------------------------------
(* The lists of subscribers. *)

LEMMA AskedIsSeq ==
  ASSUME NEW topics \in AskedTopics
  PROVE  /\ topics \in Seq(ToSet(topics))
         /\ \A t : Times(t, topics) \in Nat
<1>1. <<>> \in Seq(ToSet(<<>>))
  OBVIOUS
<1>2. topics \in Seq(ToSet(topics))
  BY <1>1, SubscriptionsAssumption DEF AskedTopics, SubscriptionsAssumption
<1>. QED BY <1>2, TimesNamed

(* A step that opens and closes nothing. *)
LEMMA ListsKept ==
  ASSUME ListInv, UNCHANGED <<subscribers, active>>,
         \A s \in Streams :
           /\ Opened(s)' <=> Opened(s)
           /\ Opened(s) => /\ stream'[s].topics = stream[s].topics
                           /\ stream'[s].token = stream[s].token
  PROVE  ListInv'
<1>1. {[token |-> stream'[s].token, subscription |-> s] :
         s \in {r \in Streams : Opened(r)'}} =
      {[token |-> stream[s].token, subscription |-> s] :
         s \in {r \in Streams : Opened(r)}}
  OBVIOUS
<1>. QED BY <1>1 DEF ListInv

(* The subscription enters the lists of its topics. *)
LEMMA OpensInLists ==
  ASSUME IInv, NEW s \in Streams, ReadPastAndOpen(s)
  PROVE  ListInv'
<1>. DEFINE topics == stream[s].topics
            token == stream[s].token
            Record(r) == [token |-> stream[r].token, subscription |-> r]
<1>1. /\ ListInv /\ TokenInv /\ stream[s].pc = "validated" /\ ~Opened(s)
      /\ ToSet(topics) \subseteq Topics /\ DOMAIN stream = Streams
      /\ stream[s] \in StreamRecord
      /\ active' = {a \in active : a.token # token}
                     \cup {[token |-> token, subscription |-> s]}
      /\ subscribers' =
           [t \in Topics |-> subscribers[t] \o [i \in 1..Times(t, topics) |-> s]]
  BY DEF IInv, TypeInv, StreamInv, StreamOK, ReadPastAndOpen, Opened, Activated,
         Subscribed
<1>2. /\ stream'[s].pc = "streaming" /\ stream'[s].topics = topics
      /\ stream'[s].token = token
      /\ \A r \in Streams \ {s} : stream'[r] = stream[r]
  BY <1>1 DEF ReadPastAndOpen, StreamRecord
<1>3. topics \in Seq(ToSet(topics))
  BY <1>1, AskedIsSeq DEF StreamRecord
<1>4. Opened(s)' /\ \A r \in Streams \ {s} : Opened(r)' <=> Opened(r)
  BY <1>1, <1>2 DEF Opened
<1>5. \A r \in Streams \ {s} : stream[r].token # token
  BY <1>1 DEF TokenInv
<1>. HIDE DEF topics, token
<1>6. ASSUME NEW t \in Topics
      PROVE  /\ subscribers'[t] \in Seq(Streams)
             /\ \A r \in Streams \ {s} :
                  Entries(subscribers'[t], r) = Entries(subscribers[t], r)
             /\ Entries(subscribers'[t], s) # {} <=> t \in ToSet(topics)
             /\ Cardinality(Entries(subscribers'[t], s)) = Times(t, topics)
  <2>1. subscribers[t] \in Seq(Streams) /\ Entries(subscribers[t], s) = {}
    BY <1>1 DEF ListInv
  <2>2. /\ Times(t, topics) \in Nat
        /\ Times(t, topics) > 0 <=> t \in ToSet(topics)
    BY <1>3, TimesNamed
  <2>3. PICK subs, n : subs = subscribers[t] /\ n = Times(t, topics)
    OBVIOUS
  <2>4. subscribers'[t] = subs \o [i \in 1..n |-> s]
    BY <1>1, <2>3
  <2>5. subs \in Seq(Streams) /\ n \in Nat
    BY <2>1, <2>2, <2>3
  <2>6. PICK new : new = subs \o [i \in 1..n |-> s]
    OBVIOUS
  <2>7. /\ new \in Seq(Streams)
        /\ \A r : r # s => Entries(new, r) = Entries(subs, r)
        /\ Entries(new, s) # {} <=> n > 0 \/ Entries(subs, s) # {}
        /\ Entries(subs, s) = {} => Cardinality(Entries(new, s)) = n
    BY <2>5, <2>6, AppendedProperties
  <2>. QED BY <2>1, <2>2, <2>3, <2>4, <2>6, <2>7
<1>7. subscribers' \in [Topics -> Seq(Streams)]
  BY <1>1, <1>6
<1>8. \A t \in Topics, r \in Streams :
        /\ Entries(subscribers'[t], r) # {} <=>
             Opened(r)' /\ t \in ToSet(stream'[r].topics)
        /\ Opened(r)' => Cardinality(Entries(subscribers'[t], r)) <=
                           Times(t, stream'[r].topics)
  <2>. SUFFICES ASSUME NEW t \in Topics, NEW r \in Streams
       PROVE  /\ Entries(subscribers'[t], r) # {} <=>
                   Opened(r)' /\ t \in ToSet(stream'[r].topics)
              /\ Opened(r)' => Cardinality(Entries(subscribers'[t], r)) <=
                                 Times(t, stream'[r].topics)
    OBVIOUS
  <2>1. CASE r # s
    <3>1. /\ Entries(subscribers[t], r) # {} <=>
               Opened(r) /\ t \in ToSet(stream[r].topics)
          /\ Opened(r) => Cardinality(Entries(subscribers[t], r)) <=
                            Times(t, stream[r].topics)
      BY <1>1 DEF ListInv
    <3>2. Entries(subscribers'[t], r) = Entries(subscribers[t], r)
          /\ stream'[r] = stream[r] /\ (Opened(r)' <=> Opened(r))
      BY <1>2, <1>4, <1>6, <2>1
    <3>. QED BY <3>1, <3>2
  <2>2. CASE r = s
    <3>1. Times(t, topics) \in Nat
      BY <1>3, TimesNamed
    <3>2. Entries(subscribers'[t], s) # {} <=> t \in ToSet(stream'[s].topics)
      BY <1>2, <1>6
    <3>3. Cardinality(Entries(subscribers'[t], s)) = Times(t, stream'[s].topics)
          /\ Times(t, stream'[s].topics) \in Nat
      BY <1>2, <1>6, <3>1
    <3>4. Cardinality(Entries(subscribers'[t], s)) <= Times(t, stream'[s].topics)
      BY <3>3
    <3>. QED BY <1>4, <2>2, <3>2, <3>4
  <2>. QED BY <2>1, <2>2
<1>9. active' = {[token |-> stream'[r].token, subscription |-> r] :
                   r \in {r \in Streams : Opened(r)'}}
  <2>1. active = {Record(r) : r \in {r \in Streams : Opened(r)}}
    BY <1>1 DEF ListInv
  <2>2. \A a \in active : a.token # token
    BY <1>1, <1>5, <2>1
  <2>3. {[token |-> stream'[r].token, subscription |-> r] :
           r \in {r \in Streams : Opened(r)'}} =
        {Record(r) : r \in {r \in Streams : Opened(r)}}
          \cup {[token |-> token, subscription |-> s]}
    BY <1>1, <1>2, <1>4
  <2>. QED BY <1>1, <2>1, <2>2, <2>3
<1>. QED BY <1>7, <1>8, <1>9 DEF ListInv

(* The subscription leaves all the lists. *)
LEMMA ClearsLists ==
  ASSUME IInv, NEW s \in Streams, ClearSubscription(s)
  PROVE  ListInv'
<1>. DEFINE topics == stream[s].topics
            token == stream[s].token
            Record(r) == [token |-> stream[r].token, subscription |-> r]
<1>1. /\ ListInv /\ TokenInv /\ stream[s].pc = "returning"
      /\ DOMAIN stream = Streams /\ stream[s] \in StreamRecord
      /\ active' = {a \in active : a.token # token}
      /\ subscribers' =
           IF \A a \in active : a.token # token THEN subscribers
           ELSE [t \in Topics |-> WithoutFirst(subscribers[t], s, Times(t, topics))]
  BY DEF IInv, TypeInv, StreamInv, StreamOK, ClearSubscription
<1>2. /\ stream'[s].pc = "closed"
      /\ \A r \in Streams \ {s} : stream'[r] = stream[r]
  BY <1>1 DEF ClearSubscription, Forget, StreamRecord
<1>3. ~Opened(s)' /\ \A r \in Streams \ {s} : Opened(r)' <=> Opened(r)
  BY <1>2 DEF Opened
<1>4. \A r \in Streams \ {s} : stream[r].token # token
  BY <1>1 DEF TokenInv
<1>5. active = {Record(r) : r \in {r \in Streams : Opened(r)}}
  BY <1>1 DEF ListInv
<1>6. active' = {[token |-> stream'[r].token, subscription |-> r] :
                   r \in {r \in Streams : Opened(r)'}}
  <2>1. {[token |-> stream'[r].token, subscription |-> r] :
           r \in {r \in Streams : Opened(r)'}} =
        {Record(r) : r \in {r \in Streams \ {s} : Opened(r)}}
    BY <1>2, <1>3
  <2>2. \A r \in Streams : Record(r).token = token <=> r = s
    BY <1>4
  <2>. QED BY <1>1, <1>5, <2>1, <2>2
<1>7. ASSUME NEW t \in Topics
      PROVE  /\ subscribers'[t] \in Seq(Streams)
             /\ Entries(subscribers'[t], s) = {}
             /\ \A r \in Streams \ {s} :
                  /\ Entries(subscribers'[t], r) # {} <=> Entries(subscribers[t], r) # {}
                  /\ Cardinality(Entries(subscribers'[t], r)) <=
                       Cardinality(Entries(subscribers[t], r))
  <2>1. subscribers[t] \in Seq(Streams)
    BY <1>1 DEF ListInv
  <2>2. \A r : Cardinality(Entries(subscribers[t], r)) \in Nat
    BY <2>1, EntriesCounted
  <2>3. CASE Opened(s)
    <3>1. ~\A a \in active : a.token # token
      <4>1. Record(s) \in active /\ Record(s).token = token
        BY <1>5, <2>3
      <4>. QED BY <4>1
    <3>2. topics \in AskedTopics
      BY <1>1 DEF StreamRecord
    <3>. DEFINE n == Times(t, topics)
                new == WithoutFirst(subscribers[t], s, n)
    <3>3. n \in Nat
      BY <3>2, AskedIsSeq
    <3>4. subscribers'[t] = new
      BY <1>1, <3>1
    <3>5. Cardinality(Entries(subscribers[t], s)) <= n
      BY <1>1, <2>3 DEF ListInv
    <3>. HIDE DEF n
    <3>6. /\ new \in Seq(Streams)
          /\ \A r : /\ Cardinality(Entries(new, r)) <=
                         Cardinality(Entries(subscribers[t], r))
                    /\ Entries(subscribers[t], r) = {} => Entries(new, r) = {}
                    /\ r # s /\ Entries(subscribers[t], r) # {} =>
                         Entries(new, r) # {}
          /\ Entries(new, s) = {}
      BY <2>1, <3>3, <3>5, WithoutFirstProperties
    <3>. HIDE DEF new
    <3>. QED BY <3>4, <3>6
  <2>4. CASE ~Opened(s)
    <3>1. \A a \in active : a.token # token
      BY <1>4, <1>5, <2>4
    <3>2. Entries(subscribers[t], s) = {}
      BY <1>1, <2>4 DEF ListInv
    <3>. QED BY <1>1, <2>1, <2>2, <3>1, <3>2
  <2>. QED BY <2>3, <2>4
<1>8. subscribers' \in [Topics -> Seq(Streams)]
  BY <1>1, <1>7 DEF ListInv
<1>9. \A t \in Topics, r \in Streams :
        /\ Entries(subscribers'[t], r) # {} <=>
             Opened(r)' /\ t \in ToSet(stream'[r].topics)
        /\ Opened(r)' => Cardinality(Entries(subscribers'[t], r)) <=
                           Times(t, stream'[r].topics)
  <2>. SUFFICES ASSUME NEW t \in Topics, NEW r \in Streams
       PROVE  /\ Entries(subscribers'[t], r) # {} <=>
                   Opened(r)' /\ t \in ToSet(stream'[r].topics)
              /\ Opened(r)' => Cardinality(Entries(subscribers'[t], r)) <=
                                 Times(t, stream'[r].topics)
    OBVIOUS
  <2>1. CASE r # s
    <3>1. /\ Entries(subscribers'[t], r) # {} <=>
               Opened(r) /\ t \in ToSet(stream[r].topics)
          /\ stream'[r] = stream[r] /\ (Opened(r)' <=> Opened(r))
      BY <1>1, <1>2, <1>3, <1>7, <2>1 DEF ListInv
    <3>2. ASSUME Opened(r)
          PROVE  Cardinality(Entries(subscribers'[t], r)) <= Times(t, stream[r].topics)
      <4>1. PICK a, b, c : /\ a = Cardinality(Entries(subscribers'[t], r))
                           /\ b = Cardinality(Entries(subscribers[t], r))
                           /\ c = Times(t, stream[r].topics)
        OBVIOUS
      <4>2. a <= b /\ b <= c
        BY <1>1, <1>7, <2>1, <3>2, <4>1 DEF ListInv
      <4>3. subscribers'[t] \in Seq(Streams) /\ subscribers[t] \in Seq(Streams)
        BY <1>1, <1>7 DEF ListInv
      <4>4. stream[r].topics \in AskedTopics
        BY DEF IInv, TypeInv, StreamInv, StreamOK, StreamRecord
      <4>5. a \in Nat /\ b \in Nat /\ c \in Nat
        BY <4>1, <4>3, <4>4, AskedIsSeq, EntriesCounted
      <4>6. a <= c
        BY <4>2, <4>5
      <4>. QED BY <4>1, <4>6
    <3>. QED BY <3>1, <3>2
  <2>2. CASE r = s
    BY <1>3, <1>7, <2>2
  <2>. QED BY <2>1, <2>2
<1>. QED BY <1>6, <1>8, <1>9 DEF ListInv

LEMMA NextListInv == IInv /\ [Next]_vars => ListInv'
<1>. SUFFICES ASSUME IInv, [Next]_vars PROVE ListInv'
  OBVIOUS
<1>1. ListInv /\ StreamInv
  BY DEF IInv, TypeInv
<1>2. ASSUME UNCHANGED <<subscribers, active, stream>> PROVE ListInv'
  <2>1. \A s \in Streams : Opened(s)' <=> Opened(s)
    BY <1>2 DEF Opened
  <2>. QED BY <1>1, <1>2, <2>1, ListsKept
<1>3. CASE ApplyEvent
  BY <1>2, <1>3 DEF ApplyEvent, ApplyPost, ApplyChange, ApplyRepeatedLike,
                    ApplyDelete, managerVars
<1>4. CASE BeginAddMessageEvent \/ SendToSubscriber \/ EndAddMessageEvent
  BY <1>2, <1>4 DEF BeginAddMessageEvent, SendToSubscriber, EndAddMessageEvent,
                    managerVars
<1>5. CASE \E u \in Users : AddSubscriptionRequest(u)
  BY <1>2, <1>5 DEF AddSubscriptionRequest
<1>6. ASSUME NEW s \in Streams, SubscribeTopic(s) PROVE ListInv'
  <2>1. DOMAIN stream = Streams /\ stream[s] \in StreamRecord
    BY <1>1 DEF StreamInv, StreamOK
  <2>2. ASSUME NEW record, stream' = [stream EXCEPT ![s] = record],
               UNCHANGED <<subscribers, active>>,
               \/ /\ stream[s].pc \notin {"streaming", "returning"}
                  /\ \/ record.pc \notin {"streaming", "returning"}
                     \/ ~(ToSet(record.topics) \subseteq Topics)
               \/ /\ stream[s].pc = "streaming"
                  /\ record.pc \in {"streaming", "returning"}
                  /\ record.topics = stream[s].topics
                  /\ record.token = stream[s].token
        PROVE  ListInv'
    <3>1. \A r \in Streams : stream'[r] = IF r = s THEN record ELSE stream[r]
      BY <2>1, <2>2
    <3>2. \A r \in Streams :
            /\ Opened(r)' <=> Opened(r)
            /\ Opened(r) => /\ stream'[r].topics = stream[r].topics
                            /\ stream'[r].token = stream[r].token
      BY <2>2, <3>1 DEF Opened
    <3>. QED BY <1>1, <2>2, <3>2, ListsKept
  <2>3. ASSUME NEW u, NEW token, NEW request, Subscribe(s, u, token, request)
        PROVE  ListInv'
    BY <2>2, <2>3 DEF Subscribe, Accept
  <2>4. ASSUME NEW u, NEW token, SubscribeRefused(s, u, token) PROVE ListInv'
    BY <2>1, <2>2, <2>4 DEF SubscribeRefused, StreamRecord, managerVars
  <2>5. CASE ReadPastFails(s)
    BY <2>1, <2>2, <2>5 DEF ReadPastFails, StreamRecord, managerVars
  <2>6. CASE SendPastMessage(s)
    BY <2>1, <2>2, <2>6 DEF SendPastMessage, StreamRecord, managerVars
  <2>7. CASE SendEvent(s)
    BY <1>2, <2>7 DEF SendEvent, managerVars
  <2>8. CASE SendFails(s)
    BY <2>1, <2>2, <2>8 DEF SendFails, StreamRecord, managerVars
  <2>. QED BY <1>6, <2>3, <2>4, <2>5, <2>6, <2>7, <2>8, OpensInLists, ClearsLists
           DEF SubscribeTopic
<1>7. ASSUME NEW s \in Streams, HangUp(s) PROVE ListInv'
  BY <1>2, <1>7 DEF HangUp, managerVars
<1>8. CASE UNCHANGED vars
  BY <1>2, <1>8 DEF vars
<1>. QED BY <1>3, <1>4, <1>5, <1>6, <1>7, <1>8 DEF Next

-----------------------------------------------------------------------------
(* The invariant. *)

LEMMA InitIInv == Init => IInv
<1>. SUFFICES ASSUME Init PROVE IInv
  OBVIOUS
<1>1. MaxWrites \in Nat /\ Capacity \in Nat
  BY SubscriptionsAssumption DEF SubscriptionsAssumption
<1>2. /\ versions = [t \in Topics |-> <<>>] /\ messages = [t \in Topics |-> {}]
      /\ writes = 0 /\ processor = [event |-> NoEvent, next |-> 0]
      /\ tokens = {} /\ issued = 0 /\ active = {}
      /\ subscribers = [t \in Topics |-> <<>>]
      /\ channel = [s \in Streams |-> <<>>]
      /\ dropped = {} /\ gone = {} /\ shown = [s \in Streams |-> {}]
  BY DEF Init
<1>3. \A s \in Streams : /\ stream[s].pc = "idle" /\ stream[s].token = 0
                         /\ stream[s].past = <<>> /\ stream[s] \in StreamRecord
                         /\ ~Opened(s)
  <2>1. \A s \in Streams : stream[s] = [pc |-> "idle", token |-> 0,
                                       topics |-> <<>>, from |-> 1, past |-> <<>>]
    BY DEF Init
  <2>2. /\ <<>> \in AskedTopics /\ <<>> \in Seq(Message) /\ 1 \in Int /\ 0 \in Nat
        /\ "idle" \in Stages
    BY DEF AskedTopics, Stages
  <2>3. [pc |-> "idle", token |-> 0, topics |-> <<>>, from |-> 1, past |-> <<>>]
          \in StreamRecord
    BY <2>2 DEF StreamRecord
  <2>. QED BY <2>1, <2>3 DEF Opened
<1>4. TokenInv
  BY <1>2, <1>3 DEF TokenInv
<1>5. StorageInv
  <2>1. <<>> \in Seq(0..MaxWrites) /\ Len(<<>>) = 0 /\ DOMAIN <<>> = {}
    OBVIOUS
  <2>. QED BY <1>1, <1>2, <2>1 DEF StorageInv
<1>6. EventInv
  BY <1>2 DEF EventInv, Idle
<1>7. StreamInv
  <2>1. \A s \in Streams : StreamOK(s)
    BY <1>1, <1>2, <1>3 DEF StreamOK
  <2>. QED BY <1>2, <2>1 DEF StreamInv, Init
<1>8. SentInv
  BY <1>2, <1>3 DEF SentInv, SentOK
<1>9. ListInv
  <2>1. <<>> \in Seq(Streams)
    OBVIOUS
  <2>2. subscribers \in [Topics -> Seq(Streams)]
    BY <1>2, <2>1
  <2>3. \A t \in Topics, s \in Streams : Entries(subscribers[t], s) = {}
    BY <1>2 DEF Entries
  <2>. QED BY <1>2, <1>3, <2>2, <2>3 DEF ListInv
<1>. QED BY <1>4, <1>5, <1>6, <1>7, <1>8, <1>9 DEF IInv, TypeInv

LEMMA NextIInv == IInv /\ [Next]_vars => IInv'
BY NextTokenInv, NextStorage, NextStreams, NextListInv DEF IInv, TypeInv

-----------------------------------------------------------------------------
(* What is on its way. *)

LEMMA PostEventTyped == \A m \in Message : PostEvent(m) \in MessageEvent
BY DEF Message, PostEvent, MessageEvent

(* What has been put on its way to s. *)
Pending(s) == [i \in DOMAIN stream[s].past |-> PostEvent(stream[s].past[i])]
                \o channel[s]

(* What is on its way is what is pending and, perhaps, the event in hand. *)
LEMMA Flights ==
  IInv => \A s \in Streams :
    /\ Pending(s) \in Seq(MessageEvent)
    /\ StillToServe(s) => /\ processor.event \in MessageEvent
                          /\ InFlight(s) = Append(Pending(s), processor.event)
    /\ ~StillToServe(s) => InFlight(s) = Pending(s)
<1>. SUFFICES ASSUME IInv, NEW s \in Streams
     PROVE  /\ Pending(s) \in Seq(MessageEvent)
            /\ StillToServe(s) =>
                 /\ processor.event \in MessageEvent
                 /\ InFlight(s) = Append(Pending(s), processor.event)
            /\ ~StillToServe(s) => InFlight(s) = Pending(s)
  OBVIOUS
<1>1. PICK past : past = [i \in DOMAIN stream[s].past |-> PostEvent(stream[s].past[i])]
  OBVIOUS
<1>2. stream[s].past \in Seq(Message) /\ channel[s] \in Seq(MessageEvent)
  BY DEF IInv, TypeInv, StreamInv, StreamOK, StreamRecord
<1>3. past \in Seq(MessageEvent)
  BY <1>1, <1>2, PostEventTyped
<1>4. Pending(s) = past \o channel[s] /\ Pending(s) \in Seq(MessageEvent)
  BY <1>1, <1>2, <1>3 DEF Pending
<1>5. StillToServe(s) => processor.event \in MessageEvent
  BY DEF StillToServe, Idle, IInv, TypeInv, EventInv
<1>6. InFlight(s) = Pending(s) \o IF StillToServe(s) THEN <<processor.event>> ELSE <<>>
  BY <1>1, <1>4 DEF InFlight
<1>7. PICK pending : pending = Pending(s)
  OBVIOUS
<1>8. StillToServe(s) => InFlight(s) = Append(pending, processor.event)
  BY <1>4, <1>5, <1>6, <1>7
<1>9. ~StillToServe(s) => InFlight(s) = pending
  BY <1>4, <1>6, <1>7
<1>. QED BY <1>4, <1>5, <1>7, <1>8, <1>9

LEMMA PrimedFlights ==
  IInv' => (\A s \in Streams :
    /\ Pending(s) \in Seq(MessageEvent)
    /\ StillToServe(s) => /\ processor.event \in MessageEvent
                          /\ InFlight(s) = Append(Pending(s), processor.event)
    /\ ~StillToServe(s) => InFlight(s) = Pending(s))'
BY Flights, PTL
-----------------------------------------------------------------------------
(* What each step does to what is on its way. *)

LEMMA ReachesAll ==
  IInv => \A s \in Streams : ~Idle /\ ~TopicsLocked =>
    (StillToServe(s) <=>
       Opened(s) /\ processor.event.topic \in ToSet(stream[s].topics))
<1>. SUFFICES ASSUME IInv, NEW s \in Streams, ~Idle, ~TopicsLocked
     PROVE  StillToServe(s) <=>
              Opened(s) /\ processor.event.topic \in ToSet(stream[s].topics)
  OBVIOUS
<1>1. PICK t \in Topics : t = processor.event.topic
  BY DEF IInv, TypeInv, EventInv, Idle, MessageEvent
<1>2. subscribers[t] \in Seq(Streams) /\ processor.next = 0
  BY DEF IInv, TypeInv, EventInv, ListInv, TopicsLocked
<1>3. \A i \in DOMAIN subscribers[t] : i >= processor.next
  BY <1>2
<1>4. StillToServe(s) <=> Entries(subscribers[t], s) # {}
  BY <1>1, <1>3 DEF StillToServe, Entries
<1>. QED BY <1>1, <1>4 DEF IInv, ListInv

LEMMA PrimedReachesAll ==
  IInv' => (\A s \in Streams : ~Idle /\ ~TopicsLocked =>
    (StillToServe(s) <=>
       Opened(s) /\ processor.event.topic \in ToSet(stream[s].topics)))'
BY ReachesAll, PTL

(* Nothing changes for the stream. *)
LEMMA DeliveredKept ==
  ASSUME NEW s, DeliveredTo(s), UNCHANGED <<versions, messages>>,
         shown'[s] = shown[s], InFlight(s)' = InFlight(s),
         stream'[s].topics = stream[s].topics, stream'[s].from = stream[s].from
  PROVE  DeliveredTo(s)'
BY DEF DeliveredTo, SettledFor

(* Nothing changes for the stream on its way. *)
LEMMA FlightKept ==
  ASSUME NEW s, stream'[s].past = stream[s].past, channel'[s] = channel[s],
         StillToServe(s)' <=> StillToServe(s),
         StillToServe(s) => processor'.event = processor.event
  PROVE  InFlight(s)' = InFlight(s)
BY DEF InFlight

(* One message changes, and its event is taken in hand. *)
LEMMA ApplyChangesOne ==
  ASSUME IInv, ApplyEvent
  PROVE  \E t \in Topics, id \in MessageIds :
           /\ processor'.event.topic = t /\ processor'.event.id = id
           /\ \A u \in Topics, i \in MessageIds : u # t \/ i # id =>
                /\ i \in messages'[u] <=> i \in messages[u]
                /\ i \in messages[u] => versions'[u][i] = versions[u][i]
<1>1. StorageInv
  BY DEF IInv, TypeInv
<1>2. ASSUME NEW t \in Topics, ApplyPost(t)
      PROVE  \E id \in MessageIds :
           /\ processor'.event.topic = t /\ processor'.event.id = id
           /\ \A u \in Topics, i \in MessageIds : u # t \/ i # id =>
                /\ i \in messages'[u] <=> i \in messages[u]
                /\ i \in messages[u] => versions'[u][i] = versions[u][i]
  <2>1. /\ versions[t] \in Seq(0..MaxWrites) /\ Len(versions[t]) <= writes
        /\ writes < MaxWrites /\ MaxWrites \in Nat /\ writes \in Nat
    BY <1>1, <1>2, SubscriptionsAssumption
       DEF StorageInv, ApplyPost, Applied, SubscriptionsAssumption
  <2>2. PICK id : id = Len(versions[t]) + 1
    OBVIOUS
  <2>3. id \in MessageIds
    BY <2>1, <2>2 DEF MessageIds
  <2>4. \A i \in DOMAIN versions[t] : Append(versions[t], 0)[i] = versions[t][i]
    BY <2>1
  <2>5. /\ processor'.event.topic = t /\ processor'.event.id = id
        /\ versions' = [versions EXCEPT ![t] = Append(versions[t], 0)]
        /\ messages' = [messages EXCEPT ![t] = messages[t] \cup {id}]
    BY <1>2, <2>2 DEF ApplyPost, Applied
  <2>6. \A u \in Topics :
          /\ messages'[u] = IF u = t THEN messages[t] \cup {id} ELSE messages[u]
          /\ versions'[u] = IF u = t THEN Append(versions[t], 0) ELSE versions[u]
    BY <1>1, <2>5 DEF StorageInv
  <2>7. messages[t] \subseteq DOMAIN versions[t]
    BY <1>1 DEF StorageInv
  <2>. QED BY <2>3, <2>4, <2>5, <2>6, <2>7
<1>3. ASSUME NEW t \in Topics, NEW id \in MessageIds,
             \/ ApplyChange(t, id) \/ ApplyRepeatedLike(t, id) \/ ApplyDelete(t, id)
      PROVE  /\ processor'.event.topic = t /\ processor'.event.id = id
             /\ \A u \in Topics, i \in MessageIds : u # t \/ i # id =>
                  /\ i \in messages'[u] <=> i \in messages[u]
                  /\ i \in messages[u] => versions'[u][i] = versions[u][i]
  <2>1. processor'.event.topic = t /\ processor'.event.id = id
    BY <1>3 DEF ApplyChange, ApplyRepeatedLike, ApplyDelete, Applied
  <2>2. \A u \in Topics, i \in MessageIds : u # t \/ i # id =>
          (i \in messages'[u] <=> i \in messages[u])
    BY <1>1, <1>3 DEF ApplyChange, ApplyRepeatedLike, ApplyDelete, StorageInv
  <2>3. \A u \in Topics, i \in MessageIds : u # t \/ i # id =>
          (i \in messages[u] => versions'[u][i] = versions[u][i])
    <3>1. \A u \in Topics : messages[u] \subseteq DOMAIN versions[u]
      BY <1>1 DEF StorageInv
    <3>. QED BY <1>1, <1>3, <3>1
             DEF ApplyChange, ApplyRepeatedLike, ApplyDelete, StorageInv
  <2>. QED BY <2>1, <2>2, <2>3
<1>4. CASE \E t \in Topics : ApplyPost(t)
  BY <1>2, <1>4
<1>5. CASE ~\E t \in Topics : ApplyPost(t)
  <2>1. PICK t \in Topics, id \in MessageIds :
          \/ ApplyChange(t, id) \/ ApplyRepeatedLike(t, id) \/ ApplyDelete(t, id)
    BY <1>5 DEF ApplyEvent
  <2>. QED BY <1>3, <2>1
<1>. QED BY <1>4, <1>5

(* The event in hand settles the message that has changed. *)
LEMMA ApplyDelivers ==
  ASSUME IInv, IInv', DeliveryInv, ApplyEvent
  PROVE  DeliveryInv'
<1>1. /\ Idle /\ ~Idle' /\ ~TopicsLocked'
      /\ UNCHANGED <<stream, channel, shown, dropped>>
  <2>1. /\ Idle /\ processor'.next = 0 /\ processor'.event # NoEvent
        /\ UNCHANGED <<stream, channel, shown, dropped>>
    BY DEF ApplyEvent, ApplyPost, ApplyChange, ApplyRepeatedLike, ApplyDelete,
           Applied, NoEvent
  <2>. QED BY <2>1 DEF Idle, TopicsLocked
<1>2. PICK t \in Topics, id \in MessageIds :
        /\ processor'.event.topic = t /\ processor'.event.id = id
        /\ \A u \in Topics, i \in MessageIds : u # t \/ i # id =>
             /\ i \in messages'[u] <=> i \in messages[u]
             /\ i \in messages[u] => versions'[u][i] = versions[u][i]
  BY ApplyChangesOne
<1>3. PICK e : e = processor'.event
  OBVIOUS
<1>4. e \in MessageEvent /\ (e.op = "delete" <=> e.id \notin messages'[e.topic])
  BY <1>1, <1>3 DEF IInv, TypeInv, EventInv, Idle
<1>. SUFFICES ASSUME NEW s \in Streams, s \notin dropped,
                     stream[s].pc = "streaming",
                     NEW u \in ToSet(stream[s].topics), NEW i \in MessageIds,
                     i >= stream[s].from
     PROVE  SettledFor(s, u, i)'
  BY <1>1 DEF DeliveryInv, DeliveredTo
<1>5. Opened(s) /\ u \in Topics /\ Opened(s)'
  BY <1>1 DEF IInv, TypeInv, StreamInv, StreamOK, Opened
<1>6. PICK pending, view : pending = Pending(s) /\ view = shown[s]
  OBVIOUS
<1>7. pending \in Seq(MessageEvent) /\ InFlight(s) = pending
  BY <1>1, <1>6, Flights DEF StillToServe
<1>8. InFlight(s)' = IF StillToServe(s)' THEN Append(pending, e) ELSE pending
  <2>1. Pending(s)' = pending
    BY <1>1, <1>6 DEF Pending
  <2>. QED BY <1>3, <2>1, PrimedFlights
<1>9. CASE u = t /\ i = id
  <2>1. StillToServe(s)'
    BY <1>1, <1>2, <1>5, <1>9, PrimedReachesAll
  <2>2. IsAbout(e, u, i)
    BY <1>2, <1>3, <1>9 DEF IsAbout
  <2>3. e.op = "delete" <=> ~(i \in messages'[u])
    BY <1>2, <1>3, <1>4, <1>9
  <2>4. Settled(Append(pending, e), view, u, i, i \in messages'[u], versions'[u][i])
    BY <1>4, <1>7, <2>2, <2>3, EventSettles
  <2>. QED BY <1>1, <1>6, <1>8, <2>1, <2>4 DEF SettledFor
<1>10. CASE u # t \/ i # id
  <2>1. /\ i \in messages'[u] <=> i \in messages[u]
        /\ i \in messages[u] => versions'[u][i] = versions[u][i]
    BY <1>2, <1>5, <1>10
  <2>2. SettledFor(s, u, i)
    BY DEF DeliveryInv, DeliveredTo
  <2>3. Settled(pending, view, u, i, i \in messages[u], versions[u][i])
    BY <1>6, <1>7, <2>2 DEF SettledFor
  <2>4. Settled(pending, view, u, i, i \in messages'[u], versions'[u][i])
    BY <2>1, <2>3 DEF Settled
  <2>5. ~IsAbout(e, u, i)
    BY <1>2, <1>3, <1>10 DEF IsAbout
  <2>6. Settled(Append(pending, e), view, u, i, i \in messages'[u], versions'[u][i])
    BY <1>4, <1>7, <2>4, <2>5, OtherEvent
  <2>. QED BY <1>1, <1>6, <1>8, <2>4, <2>6 DEF SettledFor
<1>. QED BY <1>9, <1>10
(* A channel takes what was in hand for it, or the event is lost. *)
LEMMA EventDelivers ==
  ASSUME IInv, IInv', DeliveryInv,
         BeginAddMessageEvent \/ SendToSubscriber \/ EndAddMessageEvent
  PROVE  DeliveryInv'
<1>1. /\ UNCHANGED <<versions, messages, subscribers, stream, shown>>
      /\ ~Idle /\ processor \in [event : MessageEvent \cup {NoEvent}, next : Nat]
      /\ dropped \subseteq dropped'
  <2>1. UNCHANGED <<versions, messages, subscribers, stream, shown>>
    BY DEF BeginAddMessageEvent, SendToSubscriber, EndAddMessageEvent, storageVars,
           managerVars
  <2>2. EventInv
    BY DEF IInv, TypeInv
  <2>3. ~Idle
    BY <2>2, EventIsInHand
  <2>4. dropped \subseteq dropped'
    BY DEF BeginAddMessageEvent, SendToSubscriber, EndAddMessageEvent
  <2>. QED BY <2>1, <2>2, <2>3, <2>4 DEF EventInv
<1>2. PICK e, subs : e = processor.event /\ subs = subscribers[e.topic]
  OBVIOUS
<1>3. e \in MessageEvent /\ subs \in Seq(Streams)
  BY <1>1, <1>2 DEF Idle, MessageEvent, IInv, ListInv
<1>4. \A s : StillToServe(s) <=>
               \E i \in DOMAIN subs : subs[i] = s /\ i >= processor.next
  BY <1>1, <1>2 DEF StillToServe
<1>. SUFFICES ASSUME NEW s \in Streams, s \notin dropped', s \notin dropped,
                     stream[s].pc = "streaming", DeliveredTo(s)
     PROVE  DeliveredTo(s)'
  BY <1>1 DEF DeliveryInv
<1>5. ASSUME channel'[s] = channel[s], StillToServe(s)' <=> StillToServe(s),
             StillToServe(s) => processor'.event = e
      PROVE  DeliveredTo(s)'
  BY <1>1, <1>2, <1>5, FlightKept, DeliveredKept
<1>6. CASE BeginAddMessageEvent
  <2>1. /\ processor'.event = e /\ processor'.next = 1 /\ processor.next = 0
        /\ channel' = channel /\ ~Idle'
    BY <1>1, <1>2, <1>6 DEF BeginAddMessageEvent, TopicsLocked, Idle
  <2>2. \A i \in DOMAIN subs : i >= processor.next /\ i >= processor'.next
    BY <1>3, <2>1
  <2>3. StillToServe(s)' <=> \E i \in DOMAIN subs : subs[i] = s /\ i >= processor'.next
    BY <1>1, <1>2, <2>1 DEF StillToServe
  <2>. QED BY <1>4, <1>5, <2>1, <2>2, <2>3
<1>7. CASE EndAddMessageEvent
  <2>1. /\ processor.next > Len(subs) /\ Idle' /\ channel' = channel
    BY <1>2, <1>7 DEF EndAddMessageEvent, Idle
  <2>2. ~StillToServe(s) /\ ~StillToServe(s)'
    BY <1>1, <1>3, <1>4, <2>1 DEF StillToServe
  <2>. QED BY <1>5, <2>1, <2>2
<1>8. CASE SendToSubscriber
  <2>1. PICK k : k = processor.next
    OBVIOUS
  <2>2. /\ k \in Nat /\ k > 0 /\ k <= Len(subs)
        /\ processor'.event = e /\ processor'.next = k + 1 /\ ~Idle'
        /\ \/ dropped' = dropped \cup {subs[k]} /\ channel' = channel
           \/ channel' = [channel EXCEPT ![subs[k]] = Append(channel[subs[k]], e)]
    BY <1>1, <1>2, <1>8, <2>1 DEF SendToSubscriber, TopicsLocked, Idle
  <2>3. k \in DOMAIN subs /\ subs[k] \in Streams
    BY <1>3, <2>2
  <2>4. /\ StillToServe(s) <=> \E i \in DOMAIN subs : subs[i] = s /\ i >= k
        /\ StillToServe(s)' <=> \E i \in DOMAIN subs : subs[i] = s /\ i >= k + 1
    <3>1. StillToServe(s) <=> \E i \in DOMAIN subs : subs[i] = s /\ i >= k
      BY <1>4, <2>1
    <3>2. processor'.event = e /\ processor'.next = k + 1 /\ ~Idle'
          /\ subscribers'[e.topic] = subs
      BY <1>1, <1>2, <2>2
    <3>3. StillToServe(s)' <=> \E i \in DOMAIN subs : subs[i] = s /\ i >= k + 1
      BY <3>2 DEF StillToServe
    <3>. QED BY <3>1, <3>3
  <2>5. CASE s # subs[k]
    <3>1. \A i \in DOMAIN subs : subs[i] = s => (i >= k <=> i >= k + 1)
      BY <1>3, <2>2, <2>5
    <3>2. channel'[s] = channel[s]
      BY <2>2, <2>5 DEF IInv, TypeInv, StreamInv
    <3>. QED BY <1>5, <2>2, <2>4, <3>1, <3>2
  <2>6. CASE s = subs[k]
    <3>1. channel'[s] = Append(channel[s], e)
      BY <2>2, <2>3, <2>6 DEF IInv, TypeInv, StreamInv
    <3>2. PICK pending, view : pending = Pending(s) /\ view = shown[s]
      OBVIOUS
    <3>3. pending \in Seq(MessageEvent)
      BY <3>2, Flights
    <3>4. Pending(s)' = Append(pending, e)
      <4>1. PICK past : past = [i \in DOMAIN stream[s].past |->
                                  PostEvent(stream[s].past[i])]
        OBVIOUS
      <4>2. stream[s].past \in Seq(Message) /\ channel[s] \in Seq(MessageEvent)
        BY DEF IInv, TypeInv, StreamInv, StreamOK, StreamRecord
      <4>3. past \in Seq(MessageEvent)
        BY <4>1, <4>2, PostEventTyped
      <4>4. pending = past \o channel[s] /\ Pending(s)' = past \o Append(channel[s], e)
        BY <1>1, <3>1, <3>2, <4>1 DEF Pending
      <4>. QED BY <1>3, <4>2, <4>3, <4>4
    <3>5. InFlight(s) = Append(pending, e)
      <4>1. StillToServe(s)
        BY <2>2, <2>3, <2>4, <2>6
      <4>. QED BY <1>2, <3>2, <4>1, Flights
    <3>6. \/ InFlight(s)' = Append(pending, e)
          \/ InFlight(s)' = Append(Append(pending, e), e)
      BY <2>2, <3>4, PrimedFlights
    <3>. SUFFICES ASSUME NEW t \in ToSet(stream[s].topics), NEW id \in MessageIds,
                         id >= stream[s].from
         PROVE  SettledFor(s, t, id)'
      BY <1>1 DEF DeliveredTo
    <3>7. PICK there, version : /\ there = (id \in messages[t])
                                /\ version = versions[t][id]
      OBVIOUS
    <3>8. Settled(Append(pending, e), view, t, id, there, version)
      BY <3>2, <3>5, <3>7 DEF DeliveredTo, SettledFor
    <3>9. Settled(Append(Append(pending, e), e), view, t, id, there, version)
      BY <1>3, <3>3, <3>8, RepeatedEvent
    <3>. QED BY <1>1, <3>2, <3>6, <3>7, <3>8, <3>9 DEF SettledFor
  <2>. QED BY <2>5, <2>6
<1>. QED BY <1>6, <1>7, <1>8
(* The past messages settle everything, with the event in hand if one is.  *)
LEMMA PastSettles ==
  ASSUME IInv, NEW s \in Streams, stream[s].pc = "validated",
         ToSet(stream[s].topics) \subseteq Topics,
         NEW past, past = PastMessages(stream[s].topics, stream[s].from),
         NEW events, events = [i \in DOMAIN past |-> PostEvent(past[i])],
         NEW t \in ToSet(stream[s].topics), NEW id \in MessageIds,
         id >= stream[s].from
  PROVE  /\ events \in Seq(MessageEvent)
         /\ Settled(events, {}, t, id, id \in messages[t], versions[t][id])
<1>1. PICK topics, from : topics = stream[s].topics /\ from = stream[s].from
  OBVIOUS
<1>2. stream[s] \in StreamRecord /\ messages \in [Topics -> SUBSET MessageIds]
  BY DEF IInv, TypeInv, StreamInv, StreamOK, StorageInv
<1>3. topics \in Seq(Topics)
  <2>1. topics \in Seq(ToSet(topics))
    BY <1>1, <1>2, AskedIsSeq DEF StreamRecord
  <2>. QED BY <1>1, <2>1
<1>4. from \in Int
  BY <1>1, <1>2 DEF StreamRecord
<1>5. /\ past \in Seq(Message)
      /\ \A i \in DOMAIN past : /\ past[i].topic \in ToSet(topics)
                                /\ past[i].id \in messages[past[i].topic]
      /\ \A u \in ToSet(topics) : \A i \in messages[u] : i >= from =>
           \E k \in DOMAIN past : past[k] = [topic |-> u, id |-> i]
  <2>1. past = PastMessages(topics, from)
    BY <1>1
  <2>. QED BY <1>2, <1>3, <1>4, <2>1, PastIsComplete
<1>6. \A i \in DOMAIN past : past[i] \in Message
  BY <1>5
<1>7. /\ events \in Seq(MessageEvent) /\ DOMAIN events = DOMAIN past
      /\ \A i \in DOMAIN past : /\ events[i].op = "post"
                                /\ events[i].topic = past[i].topic
                                /\ events[i].id = past[i].id
  BY <1>5, <1>6, PostEventTyped DEF PostEvent
<1>8. \A i \in DOMAIN events : IsLast(events, i, t, id) =>
        (events[i].op = "delete" <=> ~(id \in messages[t]))
  BY <1>5, <1>7 DEF IsLast, IsAbout
<1>9. ASSUME id \in messages[t]
      PROVE  \E i \in DOMAIN events : IsAbout(events[i], t, id)
  <2>1. PICK k \in DOMAIN past : past[k] = [topic |-> t, id |-> id]
    BY <1>1, <1>5, <1>9
  <2>. QED BY <1>7, <2>1 DEF IsAbout
<1>. QED BY <1>7, <1>8, <1>9 DEF Settled

(* The subscriptions that stay open, as the list is not being walked.      *)
LEMMA OthersStay ==
  ASSUME IInv, IInv', ~TopicsLocked, NEW s \in Streams, NEW r \in Streams \ {s},
         UNCHANGED <<versions, messages, processor>>,
         stream'[r] = stream[r], channel'[r] = channel[r], shown'[r] = shown[r],
         DeliveredTo(r)
  PROVE  DeliveredTo(r)'
<1>1. StillToServe(r)' <=> StillToServe(r)
  <2>1. CASE Idle
    BY <2>1 DEF StillToServe, Idle
  <2>2. CASE ~Idle
    <3>1. ~Idle' /\ ~TopicsLocked' /\ (Opened(r)' <=> Opened(r))
      BY <2>2 DEF Idle, TopicsLocked, Opened
    <3>. QED BY <2>2, <3>1, ReachesAll, PrimedReachesAll
  <2>. QED BY <2>1, <2>2
<1>. QED BY <1>1, FlightKept, DeliveredKept

(* The new stream is owed the past, and the event in hand. *)
LEMMA OpenDelivers ==
  ASSUME IInv, IInv', DeliveryInv, NEW s \in Streams, ReadPastAndOpen(s)
  PROVE  DeliveryInv'
<1>1. PICK topics, from, past :
        /\ topics = stream[s].topics /\ from = stream[s].from
        /\ past = PastMessages(stream[s].topics, stream[s].from)
  OBVIOUS
<1>2. /\ stream[s].pc = "validated" /\ ToSet(stream[s].topics) \subseteq Topics
      /\ stream' = [stream EXCEPT ![s].pc = "streaming", ![s].past = past]
      /\ UNCHANGED <<versions, messages, processor, channel, shown, dropped>>
      /\ ~TopicsLocked
  BY <1>1 DEF ReadPastAndOpen, storageVars
<1>3. StreamInv /\ stream[s] \in StreamRecord
      /\ channel[s] = <<>> /\ shown[s] = {} /\ Opened(s)'
  <2>1. StreamOK(s) /\ StreamInv /\ ~Opened(s)
    BY <1>2 DEF IInv, TypeInv, StreamInv, Opened
  <2>2. StreamOK(s)' /\ stream'[s].pc = "streaming"
    BY <1>2, <2>1 DEF IInv, TypeInv, StreamInv, StreamOK, StreamRecord
  <2>. QED BY <2>1, <2>2 DEF StreamOK
<1>4. /\ stream'[s].past = past /\ stream'[s].topics = topics
      /\ stream'[s].from = from
      /\ \A r \in Streams \ {s} : stream'[r] = stream[r]
  <2>1. stream' = [stream EXCEPT ![s] =
                     [stream[s] EXCEPT !.pc = "streaming", !.past = past]]
    BY <1>2
  <2>2. stream'[s] = [stream[s] EXCEPT !.pc = "streaming", !.past = past]
        /\ \A r \in Streams \ {s} : stream'[r] = stream[r]
    BY <1>3, <2>1 DEF StreamInv
  <2>. QED BY <1>1, <1>3, <2>2 DEF StreamRecord
<1>5. ASSUME NEW r \in Streams \ {s}, r \notin dropped, stream[r].pc = "streaming"
      PROVE  DeliveredTo(r)'
  BY <1>2, <1>4, <1>5, OthersStay DEF DeliveryInv
<1>6. ASSUME NEW t \in ToSet(topics), NEW id \in MessageIds, id >= from
      PROVE  SettledFor(s, t, id)'
  <2>1. PICK events : events = [i \in DOMAIN past |-> PostEvent(past[i])]
    OBVIOUS
  <2>2. PICK there, version : there = (id \in messages[t]) /\ version = versions[t][id]
    OBVIOUS
  <2>3. /\ events \in Seq(MessageEvent)
        /\ Settled(events, {}, t, id, there, version)
    BY <1>1, <1>2, <1>6, <2>1, <2>2, PastSettles
  <2>4. Pending(s)' = events
    <3>1. events = [i \in DOMAIN stream'[s].past |-> PostEvent(stream'[s].past[i])]
      BY <1>4, <2>1
    <3>2. channel'[s] = <<>>
      BY <1>2, <1>3
    <3>3. Pending(s)' = events \o <<>>
      BY <3>1, <3>2 DEF Pending
    <3>. QED BY <2>3, <3>3
  <2>5. CASE ~StillToServe(s)'
    <3>1. InFlight(s)' = events
      BY <2>4, <2>5, PrimedFlights
    <3>. QED BY <1>2, <1>3, <2>2, <2>3, <3>1 DEF SettledFor
  <2>6. CASE StillToServe(s)'
    <3>1. PICK e : e = processor.event
      OBVIOUS
    <3>2. ~Idle /\ e \in MessageEvent
          /\ (e.op = "delete" <=> e.id \notin messages[e.topic])
      BY <1>2, <2>6, <3>1 DEF StillToServe, Idle, IInv, TypeInv, EventInv
    <3>3. InFlight(s)' = Append(events, e)
      BY <1>2, <2>4, <2>6, <3>1, PrimedFlights
    <3>4. Settled(Append(events, e), {}, t, id, there, version)
      <4>1. CASE IsAbout(e, t, id)
        <5>1. e.op = "delete" <=> ~there
          BY <2>2, <3>2, <4>1 DEF IsAbout
        <5>. QED BY <2>3, <3>2, <4>1, <5>1, EventSettles
      <4>2. CASE ~IsAbout(e, t, id)
        BY <2>3, <3>2, <4>2, OtherEvent
      <4>. QED BY <4>1, <4>2
    <3>. QED BY <1>2, <1>3, <2>2, <3>3, <3>4 DEF SettledFor
  <2>. QED BY <2>5, <2>6
<1>7. DeliveredTo(s)'
  BY <1>4, <1>6 DEF DeliveredTo
<1>. QED BY <1>2, <1>4, <1>5, <1>7 DEF DeliveryInv

(* The first of two lists, not empty, comes first. *)
LEMMA TailOfConcat ==
  ASSUME NEW S, NEW a \in Seq(S), NEW b \in Seq(S), a # <<>>
  PROVE  /\ a \o b \in Seq(S) /\ a \o b # <<>>
         /\ Head(a \o b) = Head(a) /\ Tail(a \o b) = Tail(a) \o b
<1>1. PICK m, n, ab : m = Len(a) /\ n = Len(b) /\ ab = a \o b
  OBVIOUS
<1>2. /\ m \in Nat \ {0} /\ n \in Nat /\ ab \in Seq(S) /\ Len(ab) = m + n
      /\ \A i \in 1..m + n : ab[i] = IF i <= m THEN a[i] ELSE b[i - m]
  BY <1>1
<1>3. ab # <<>> /\ Head(ab) = Head(a)
  BY <1>1, <1>2
<1>4. /\ Tail(ab) \in Seq(S) /\ Len(Tail(ab)) = m + n - 1
      /\ \A i \in 1..m + n - 1 : Tail(ab)[i] = ab[i + 1]
  BY <1>2, <1>3, HeadTailProperties
<1>5. /\ Tail(a) \in Seq(S) /\ Len(Tail(a)) = m - 1
      /\ \A i \in 1..m - 1 : Tail(a)[i] = a[i + 1]
  BY <1>1, HeadTailProperties
<1>6. PICK tail, c : tail = Tail(a) /\ c = tail \o b
  OBVIOUS
<1>7. /\ c \in Seq(S) /\ Len(c) = m - 1 + n /\ m - 1 + n = m + n - 1
      /\ \A i \in 1..m - 1 + n : c[i] = IF i <= m - 1 THEN tail[i] ELSE b[i - (m - 1)]
  BY <1>1, <1>2, <1>5, <1>6
<1>8. ASSUME NEW i \in 1..m + n - 1, i <= m - 1 PROVE Tail(ab)[i] = c[i]
  <2>1. i \in 1..m - 1 /\ i + 1 \in 1..m + n /\ i + 1 <= m
    BY <1>2, <1>8
  <2>2. Tail(ab)[i] = a[i + 1]
    BY <1>2, <1>4, <2>1
  <2>3. c[i] = a[i + 1]
    BY <1>5, <1>6, <1>7, <1>8, <2>1
  <2>. QED BY <2>2, <2>3
<1>9. ASSUME NEW i \in 1..m + n - 1, ~(i <= m - 1) PROVE Tail(ab)[i] = c[i]
  <2>1. i + 1 \in 1..m + n /\ ~(i + 1 <= m) /\ i - (m - 1) = i + 1 - m
    BY <1>2, <1>9
  <2>2. Tail(ab)[i] = b[i + 1 - m]
    BY <1>2, <1>4, <2>1
  <2>3. c[i] = b[i - (m - 1)]
    BY <1>7, <1>9
  <2>. QED BY <2>1, <2>2, <2>3
<1>10. Tail(ab) = c
  <2>1. PICK rest : rest = Tail(ab)
    OBVIOUS
  <2>2. Len(rest) = Len(c) /\ \A i \in 1..Len(rest) : rest[i] = c[i]
    BY <1>4, <1>7, <1>8, <1>9, <2>1
  <2>. QED BY <1>4, <1>7, <2>1, <2>2, SeqEqual
<1>. QED BY <1>1, <1>2, <1>3, <1>6, <1>10

(* What is sent is shown. *)
LEMMA ShowDelivers ==
  ASSUME IInv, IInv', DeliveryInv, NEW s \in Streams,
         SendPastMessage(s) \/ SendEvent(s)
  PROVE  DeliveryInv'
<1>1. /\ UNCHANGED <<versions, messages, processor, subscribers, dropped>>
      /\ stream[s].pc = "streaming"
  BY DEF SendPastMessage, SendEvent, storageVars, managerVars
<1>2. StreamInv /\ StreamOK(s)
  BY DEF IInv, TypeInv, StreamInv
<1>3. \A r : StillToServe(r)' <=> StillToServe(r)
  BY <1>1 DEF StillToServe, Idle
<1>4. \A r \in Streams \ {s} : /\ stream'[r] = stream[r] /\ channel'[r] = channel[r]
                               /\ shown'[r] = shown[r]
  BY <1>2 DEF SendPastMessage, SendEvent, Show, StreamInv
<1>5. ASSUME NEW r \in Streams \ {s}, r \notin dropped, stream[r].pc = "streaming"
      PROVE  DeliveredTo(r)'
  BY <1>1, <1>3, <1>4, <1>5, FlightKept, DeliveredKept DEF DeliveryInv
<1>6. ASSUME s \notin dropped PROVE DeliveredTo(s)'
  <2>1. PICK past, events, flight, e, view :
          /\ past = stream[s].past
          /\ events = [i \in DOMAIN past |-> PostEvent(past[i])]
          /\ flight = InFlight(s) /\ e = Head(flight) /\ view = shown[s]
    OBVIOUS
  <2>2. past \in Seq(Message) /\ channel[s] \in Seq(MessageEvent)
    BY <1>2, <2>1 DEF StreamOK, StreamRecord
  <2>3. events \in Seq(MessageEvent) /\ Len(events) = Len(past)
        /\ DOMAIN past = 1..Len(past) /\ DOMAIN events = 1..Len(past)
        /\ \A i \in 1..Len(past) : events[i] = PostEvent(past[i])
    BY <2>1, <2>2, PostEventTyped
  <2>4. PICK last : last = IF StillToServe(s) THEN <<processor.event>> ELSE <<>>
    OBVIOUS
  <2>5. last \in Seq(MessageEvent)
    BY <2>4 DEF StillToServe, Idle, IInv, TypeInv, EventInv
  <2>6. flight = (events \o channel[s]) \o last
    BY <2>1, <2>4 DEF InFlight
  <2>7. /\ flight \in Seq(MessageEvent) /\ flight # <<>>
        /\ InFlight(s)' = Tail(flight)
        /\ shown'[s] = Shown(view, e, versions[e.topic][e.id])
        /\ stream'[s].topics = stream[s].topics /\ stream'[s].from = stream[s].from
        /\ stream'[s].pc = "streaming"
    <3>1. flight \in Seq(MessageEvent)
      BY <2>2, <2>3, <2>5, <2>6
    <3>2. CASE SendPastMessage(s)
      <4>1. /\ past # <<>> /\ channel' = channel
            /\ stream' = [stream EXCEPT ![s].past = Tail(past)]
            /\ shown' = [shown EXCEPT ![s] = Shown(view, PostEvent(Head(past)),
                  versions[PostEvent(Head(past)).topic][PostEvent(Head(past)).id])]
        BY <2>1, <3>2 DEF SendPastMessage, Show
      <4>2. /\ stream'[s].past = Tail(past)
            /\ stream'[s].topics = stream[s].topics
            /\ stream'[s].from = stream[s].from /\ stream'[s].pc = "streaming"
        BY <1>1, <1>2, <4>1 DEF StreamInv, StreamOK, StreamRecord
      <4>3. Len(past) \in Nat \ {0} /\ Head(past) = past[1]
            /\ DOMAIN Tail(past) = 1..Len(past) - 1
            /\ \A i \in 1..Len(past) - 1 : Tail(past)[i] = past[i + 1]
        BY <2>2, <4>1
      <4>4. events # <<>> /\ Head(events) = PostEvent(Head(past))
        BY <2>3, <4>3
      <4>5. [i \in DOMAIN Tail(past) |-> PostEvent(Tail(past)[i])] = Tail(events)
        <5>1. PICK l : l = Len(past)
          OBVIOUS
        <5>2. /\ Len(events) = l /\ events # <<>> /\ Len(Tail(events)) = l - 1
              /\ Tail(events) \in Seq(MessageEvent)
              /\ \A i \in 1..l - 1 : Tail(events)[i] = events[i + 1]
          BY <2>3, <4>4, <5>1, HeadTailProperties
        <5>3. /\ Tail(events) = [i \in 1..l - 1 |-> Tail(events)[i]]
              /\ DOMAIN Tail(past) = 1..l - 1
          <6>1. PICK rest : rest = Tail(events)
            OBVIOUS
          <6>2. rest \in Seq(MessageEvent) /\ Len(rest) = l - 1
            BY <5>2, <6>1
          <6>3. rest = [i \in 1..l - 1 |-> rest[i]]
            BY <6>2
          <6>. QED BY <4>3, <5>1, <6>1, <6>3
        <5>4. \A i \in 1..l - 1 : i + 1 \in 1..l
          BY <4>3, <5>1
        <5>. QED BY <2>3, <4>3, <5>1, <5>2, <5>3, <5>4
      <4>6. InFlight(s)' = (Tail(events) \o channel[s]) \o last
        BY <1>1, <1>3, <2>4, <4>1, <4>2, <4>5 DEF InFlight
      <4>7. flight # <<>> /\ Head(flight) = Head(events)
        BY <2>2, <2>3, <2>5, <2>6, <4>4
      <4>8. Tail(flight) = (Tail(events) \o channel[s]) \o last
        <5>1. PICK both : both = events \o channel[s]
          OBVIOUS
        <5>2. /\ both \in Seq(MessageEvent) /\ both # <<>>
              /\ Tail(both) = Tail(events) \o channel[s]
          BY <2>2, <2>3, <4>4, <5>1, TailOfConcat
        <5>3. Tail(both \o last) = Tail(both) \o last
          BY <2>5, <5>2, TailOfConcat
        <5>. QED BY <2>6, <5>1, <5>2, <5>3
      <4>9. shown'[s] = Shown(view, e, versions[e.topic][e.id])
        BY <1>2, <2>1, <4>1, <4>4, <4>7 DEF StreamInv
      <4>. QED BY <3>1, <4>2, <4>6, <4>7, <4>8, <4>9
    <3>3. CASE SendEvent(s)
      <4>1. /\ past = <<>> /\ channel[s] # <<>> /\ stream' = stream
            /\ channel' = [channel EXCEPT ![s] = Tail(channel[s])]
            /\ shown' = [shown EXCEPT ![s] = Shown(view, Head(channel[s]),
                  versions[Head(channel[s]).topic][Head(channel[s]).id])]
        BY <2>1, <3>3 DEF SendEvent, Show
      <4>2. events = <<>>
        BY <2>3, <4>1
      <4>3. flight = channel[s] \o last
        BY <2>2, <2>5, <2>6, <4>2
      <4>4. flight # <<>> /\ Head(flight) = Head(channel[s])
            /\ Tail(flight) = Tail(channel[s]) \o last
        BY <2>2, <2>5, <4>1, <4>3, TailOfConcat
      <4>5. InFlight(s)' = (events \o Tail(channel[s])) \o last
        BY <1>1, <1>2, <1>3, <2>1, <2>4, <4>1 DEF InFlight, StreamInv
      <4>6. InFlight(s)' = Tail(channel[s]) \o last
        BY <2>2, <2>5, <4>1, <4>2, <4>5
      <4>7. shown'[s] = Shown(view, e, versions[e.topic][e.id])
        BY <1>2, <2>1, <4>1, <4>4 DEF StreamInv
      <4>. QED BY <1>1, <3>1, <4>1, <4>4, <4>6, <4>7
    <3>. QED BY <3>2, <3>3
  <2>. SUFFICES ASSUME NEW t \in ToSet(stream[s].topics), NEW id \in MessageIds,
                       id >= stream[s].from
       PROVE  SettledFor(s, t, id)'
    BY <2>7 DEF DeliveredTo
  <2>8. PICK there, version, now :
          /\ there = (id \in messages[t]) /\ version = versions[t][id]
          /\ now = versions[e.topic][e.id]
    OBVIOUS
  <2>9. Settled(flight, view, t, id, there, version)
    BY <1>1, <1>6, <2>1, <2>8 DEF DeliveryInv, DeliveredTo, SettledFor
  <2>10. IsAbout(e, t, id) => now = version
    BY <2>8 DEF IsAbout
  <2>11. Settled(Tail(flight), Shown(view, e, now), t, id, there, version)
    BY <2>1, <2>7, <2>9, <2>10, HeadShown
  <2>. QED BY <1>1, <2>7, <2>8, <2>11 DEF SettledFor
<1>7. stream'[s].pc = "streaming"
      /\ \A r \in Streams \ {s} : stream'[r].pc = stream[r].pc
  BY <1>1, <1>2, <1>4 DEF SendPastMessage, SendEvent, StreamInv, StreamOK, StreamRecord
<1>. QED BY <1>1, <1>5, <1>6, <1>7 DEF DeliveryInv
LEMMA NextDeliveryInv ==
  ASSUME IInv, IInv', DeliveryInv, [Next]_vars
  PROVE  DeliveryInv'
<1>1. StreamInv /\ StreamInv'
  BY DEF IInv, TypeInv
<1>2. ASSUME UNCHANGED <<versions, messages, processor, subscribers, dropped>>,
             NEW r \in Streams \ dropped, stream[r].pc = "streaming",
             stream'[r] = stream[r], channel'[r] = channel[r], shown'[r] = shown[r]
      PROVE  DeliveredTo(r)'
  <2>1. StillToServe(r)' <=> StillToServe(r)
    BY <1>2 DEF StillToServe, Idle
  <2>. QED BY <1>2, <2>1, FlightKept, DeliveredKept DEF DeliveryInv
<1>3. ASSUME UNCHANGED <<versions, messages, processor, subscribers, dropped,
                         stream, channel, shown>>
      PROVE  DeliveryInv'
  BY <1>2, <1>3 DEF DeliveryInv
<1>4. CASE (\E u \in Users : AddSubscriptionRequest(u)) \/ UNCHANGED vars
  BY <1>3, <1>4 DEF AddSubscriptionRequest, storageVars, vars
<1>5. ASSUME NEW s \in Streams, HangUp(s) PROVE DeliveryInv'
  BY <1>3, <1>5 DEF HangUp, storageVars, managerVars
<1>6. ASSUME NEW s \in Streams, SubscribeTopic(s) PROVE DeliveryInv'
  <2>1. stream[s] \in StreamRecord /\ stream'[s] \in StreamRecord
    BY <1>1 DEF StreamInv, StreamOK
  <2>2. ASSUME stream'[s].pc # "streaming", 
               \A r \in Streams \ {s} : stream'[r] = stream[r],
               UNCHANGED <<versions, messages, processor, subscribers, dropped,
                           channel, shown>>
        PROVE  DeliveryInv'
    BY <1>2, <2>2 DEF DeliveryInv
  <2>3. ASSUME NEW u, NEW token, NEW request, Subscribe(s, u, token, request)
        PROVE  DeliveryInv'
    BY <1>1, <2>2, <2>3 DEF Subscribe, Accept, storageVars, StreamInv
  <2>4. ASSUME NEW u, NEW token, SubscribeRefused(s, u, token)
        PROVE  DeliveryInv'
    BY <1>1, <2>1, <2>2, <2>4
       DEF SubscribeRefused, StreamRecord, storageVars, managerVars, StreamInv
  <2>5. CASE ReadPastFails(s) \/ SendFails(s)
    BY <1>1, <2>1, <2>2, <2>5
       DEF ReadPastFails, SendFails, StreamRecord, storageVars, managerVars, StreamInv
  <2>6. CASE ClearSubscription(s)
    <3>1. /\ ~TopicsLocked /\ UNCHANGED <<versions, messages, processor, dropped>>
          /\ stream'[s].pc = "closed"
          /\ \A r \in Streams \ {s} : /\ stream'[r] = stream[r]
                                      /\ channel'[r] = channel[r]
                                      /\ shown'[r] = shown[r]
      BY <1>1, <2>1, <2>6
         DEF ClearSubscription, Forget, StreamInv, StreamRecord, storageVars
    <3>. QED BY <3>1, OthersStay DEF DeliveryInv
  <2>. QED BY <1>6, <2>3, <2>4, <2>5, <2>6, OpenDelivers, ShowDelivers
           DEF SubscribeTopic
<1>. QED BY <1>4, <1>5, <1>6, ApplyDelivers, EventDelivers DEF Next

LEMMA Invariants == Spec => [](IInv /\ DeliveryInv)
<1>1. Init => DeliveryInv
  BY DEF Init, DeliveryInv
<1>2. (IInv /\ DeliveryInv) /\ [Next]_vars => (IInv /\ DeliveryInv)'
  BY NextIInv, NextDeliveryInv
<1>. QED BY InitIInv, <1>1, <1>2, PTL DEF Spec

-----------------------------------------------------------------------------
(* The theorems. *)

(* A set of positions that is not empty has a last one. *)
LEMMA LastPosition ==
  ASSUME NEW n \in Nat, NEW P \in SUBSET (1..n), P # {}
  PROVE  \E p \in P : \A q \in P : q <= p
<1>. DEFINE R == {x \in Nat \X Nat : x[1] <= x[2]}
<1>1. IsFiniteSet(P)
  <2>1. IsFiniteSet(1..n)
    BY FS_Interval
  <2>. QED BY <2>1, FS_Subset
<1>2. \A p, q \in P : <<p, q>> \in R <=> p <= q
  OBVIOUS
<1>. HIDE DEF R
<1>3. IsLinearOrder(R, P)
  BY <1>2 DEF IsLinearOrder
<1>4. /\ Cardinality(P) \in Nat
      /\ \A k \in 1..Cardinality(P) : \E p \in P : RankIn(p, P, R) = k
  BY <1>1, <1>3, RanksAreAll
<1>5. Cardinality(P) # 0
  BY <1>1, FS_EmptySet
<1>6. PICK p \in P : RankIn(p, P, R) = Cardinality(P)
  BY <1>4, <1>5
<1>7. {q \in P : <<q, p>> \in R} = P
  BY <1>1, <1>6, FS_Subset DEF RankIn
<1>. QED BY <1>2, <1>7

(* What s is sent is about messages in topics it asked for. *)
LEMMA FlightKnown ==
  ASSUME IInv, NEW s \in Streams, stream[s].pc = "streaming"
  PROVE  /\ InFlight(s) \in Seq(MessageEvent)
         /\ \A i \in DOMAIN InFlight(s) : InFlight(s)[i].topic \in ToSet(stream[s].topics)
<1>1. PICK flight, pending, past :
        /\ flight = InFlight(s) /\ pending = Pending(s)
        /\ past = [i \in DOMAIN stream[s].past |-> PostEvent(stream[s].past[i])]
  OBVIOUS
<1>2. /\ stream[s].past \in Seq(Message) /\ channel[s] \in Seq(MessageEvent)
      /\ \A i \in DOMAIN stream[s].past :
           stream[s].past[i].topic \in ToSet(stream[s].topics)
      /\ \A i \in DOMAIN channel[s] : channel[s][i].topic \in ToSet(stream[s].topics)
  BY DEF IInv, TypeInv, StreamInv, SentInv, SentOK, StreamOK, StreamRecord, Known
<1>3. /\ past \in Seq(MessageEvent)
      /\ \A i \in DOMAIN past : past[i].topic \in ToSet(stream[s].topics)
  BY <1>1, <1>2, PostEventTyped DEF PostEvent
<1>4. /\ pending \in Seq(MessageEvent)
      /\ \A i \in DOMAIN pending : pending[i].topic \in ToSet(stream[s].topics)
  <2>1. pending = past \o channel[s]
    BY <1>1 DEF Pending
  <2>2. PICK sent : sent = channel[s]
    OBVIOUS
  <2>3. /\ pending \in Seq(MessageEvent) /\ Len(pending) = Len(past) + Len(sent)
        /\ Len(past) \in Nat /\ Len(sent) \in Nat
        /\ DOMAIN past = 1..Len(past) /\ DOMAIN sent = 1..Len(sent)
        /\ DOMAIN pending = 1..Len(past) + Len(sent)
        /\ \A i \in DOMAIN pending :
             pending[i] = IF i <= Len(past) THEN past[i] ELSE sent[i - Len(past)]
    BY <1>2, <1>3, <2>1, <2>2
  <2>4. \A i \in DOMAIN pending :
          IF i <= Len(past) THEN i \in DOMAIN past ELSE i - Len(past) \in DOMAIN sent
    BY <2>3
  <2>. QED BY <1>2, <1>3, <2>2, <2>3, <2>4
<1>5. CASE ~StillToServe(s)
  BY <1>1, <1>4, <1>5, Flights
<1>6. CASE StillToServe(s)
  <2>1. PICK e : e = processor.event
    OBVIOUS
  <2>2. e \in MessageEvent /\ flight = Append(pending, e)
    BY <1>1, <1>6, <2>1, Flights
  <2>3. e.topic \in ToSet(stream[s].topics)
    <3>1. Entries(subscribers[e.topic], s) # {} /\ e.topic \in Topics
      BY <1>6, <2>1, <2>2 DEF StillToServe, Entries, MessageEvent
    <3>. QED BY <3>1 DEF IInv, ListInv
  <2>. QED BY <1>1, <1>4, <2>2, <2>3
<1>. QED BY <1>5, <1>6

(* What is settled is up to date. *)
LEMMA DeliveredIsUpToDate ==
  ASSUME IInv, NEW s \in Streams, stream[s].pc = "streaming", DeliveredTo(s)
  PROVE  {m \in Outlook(s) : m.id >= stream[s].from} =
           {[topic |-> m.topic, id |-> m.id, version |-> versions[m.topic][m.id]] :
              m \in {m \in [topic : ToSet(stream[s].topics), id : MessageIds] :
                       m.id \in messages[m.topic] /\ m.id >= stream[s].from}}
<1>1. PICK flight, topics, from, view :
        /\ flight = InFlight(s) /\ view = shown[s]
        /\ topics = ToSet(stream[s].topics) /\ from = stream[s].from
  OBVIOUS
<1>. DEFINE Told(t, id) == [topic |-> t, id |-> id, version |-> versions[t][id]]
            last == {i \in DOMAIN flight :
                       \A j \in i + 1..Len(flight) :
                         ~(flight[j].topic = flight[i].topic
                           /\ flight[j].id = flight[i].id)}
            stay == {m \in view : \A i \in DOMAIN flight :
                       ~(flight[i].topic = m.topic /\ flight[i].id = m.id)}
            come == {Told(flight[i].topic, flight[i].id) :
                       i \in {j \in last : flight[j].op # "delete"}}
            there == {m \in [topic : topics, id : MessageIds] :
                        m.id \in messages[m.topic] /\ m.id >= from}
            kept == {Told(m.topic, m.id) : m \in there}
<1>2. /\ flight \in Seq(MessageEvent)
      /\ \A i \in DOMAIN flight : /\ flight[i].topic \in topics
                                  /\ flight[i].id \in MessageIds
  <2>1. flight \in Seq(MessageEvent)
        /\ \A i \in DOMAIN flight : flight[i].topic \in topics
    BY <1>1, FlightKnown
  <2>2. \A i \in DOMAIN flight : flight[i] \in MessageEvent
    BY <2>1
  <2>. QED BY <2>1, <2>2 DEF MessageEvent
<1>3. \A m \in view : m.topic \in topics /\ m.id \in MessageIds
  BY <1>1 DEF IInv, TypeInv, StreamInv, StreamOK, ShownMessage, SentInv, SentOK, Known
<1>4. \A t \in topics, id \in MessageIds : id >= from =>
        Settled(flight, view, t, id, id \in messages[t], versions[t][id])
  BY <1>1 DEF DeliveredTo, SettledFor
<1>5. Outlook(s) = stay \cup come
  BY <1>1 DEF Outlook
<1>6. ASSUME NEW m \in stay, m.id >= from PROVE m \in kept
  <2>1. m \in view /\ m.topic \in topics /\ m.id \in MessageIds
        /\ \A i \in DOMAIN flight : ~IsAbout(flight[i], m.topic, m.id)
    BY <1>3 DEF IsAbout
  <2>2. {x \in view : IsAbout(x, m.topic, m.id)} =
          IF m.id \in messages[m.topic] THEN {Told(m.topic, m.id)} ELSE {}
    BY <1>4, <1>6, <2>1 DEF Settled
  <2>3. m \in {x \in view : IsAbout(x, m.topic, m.id)}
    BY <2>1 DEF IsAbout
  <2>4. m.id \in messages[m.topic] /\ m = Told(m.topic, m.id)
    BY <2>2, <2>3
  <2>5. PICK x : x = [topic |-> m.topic, id |-> m.id]
    OBVIOUS
  <2>6. x \in there
    BY <1>6, <2>1, <2>4, <2>5
  <2>7. Told(x.topic, x.id) = m
    BY <2>4, <2>5
  <2>. QED BY <2>6, <2>7
<1>7. ASSUME NEW i \in last, flight[i].op # "delete", flight[i].id >= from
      PROVE  Told(flight[i].topic, flight[i].id) \in kept
  <2>1. PICK t, id : t = flight[i].topic /\ id = flight[i].id
    OBVIOUS
  <2>2. t \in topics /\ id \in MessageIds /\ IsLast(flight, i, t, id)
        /\ i \in DOMAIN flight
    BY <1>2, <2>1 DEF IsLast, IsAbout
  <2>3. id \in messages[t]
    BY <1>4, <1>7, <2>1, <2>2 DEF Settled
  <2>4. PICK x : x = [topic |-> t, id |-> id]
    OBVIOUS
  <2>5. x \in there
    BY <1>7, <2>1, <2>2, <2>3, <2>4
  <2>6. Told(x.topic, x.id) = Told(flight[i].topic, flight[i].id)
    BY <2>1, <2>4
  <2>. QED BY <2>5, <2>6
<1>8. ASSUME NEW m \in there PROVE Told(m.topic, m.id) \in stay \cup come
  <2>1. PICK t, id : t = m.topic /\ id = m.id
    OBVIOUS
  <2>2. t \in topics /\ id \in MessageIds /\ id \in messages[t] /\ id >= from
    BY <2>1
  <2>3. CASE \A i \in DOMAIN flight : ~IsAbout(flight[i], t, id)
    <3>1. {x \in view : IsAbout(x, t, id)} = {Told(t, id)}
      BY <1>4, <2>2, <2>3 DEF Settled
    <3>2. Told(t, id) \in view
      BY <3>1
    <3>3. Told(t, id) \in stay
      BY <2>3, <3>2 DEF IsAbout
    <3>. QED BY <2>1, <3>3
  <2>4. CASE \E i \in DOMAIN flight : IsAbout(flight[i], t, id)
    <3>1. PICK P : P = {i \in DOMAIN flight : IsAbout(flight[i], t, id)}
      OBVIOUS
    <3>2. P \in SUBSET (1..Len(flight)) /\ P # {} /\ Len(flight) \in Nat
      BY <1>2, <2>4, <3>1
    <3>3. PICK i \in P : \A j \in P : j <= i
      BY <3>2, LastPosition
    <3>4. IsLast(flight, i, t, id) /\ i \in DOMAIN flight
          /\ flight[i].topic = t /\ flight[i].id = id
      <4>1. i \in Nat
        BY <3>2
      <4>2. \A j \in i + 1..Len(flight) : j \in DOMAIN flight /\ ~(j <= i)
        BY <1>2, <3>2, <4>1
      <4>. QED BY <3>1, <3>3, <4>2 DEF IsLast, IsAbout
    <3>5. flight[i].op # "delete"
      BY <1>4, <2>2, <3>4 DEF Settled
    <3>6. i \in last
      BY <3>4 DEF IsLast, IsAbout
    <3>. QED BY <2>1, <3>4, <3>5, <3>6
  <2>. QED BY <2>3, <2>4
<1>9. \A m \in there : Told(m.topic, m.id).id >= from
  OBVIOUS
<1>10. {m \in stay \cup come : m.id >= from} \subseteq kept
  <2>. HIDE DEF stay, last, kept
  <2>1. ASSUME NEW m \in come, m.id >= from PROVE m \in kept
    BY <1>7, <2>1
  <2>. QED BY <1>6, <2>1
<1>11. kept \subseteq {m \in stay \cup come : m.id >= from}
  <2>. HIDE DEF stay, come, there
  <2>. QED BY <1>8, <1>9
<1>12. {m \in Outlook(s) : m.id >= from} = kept
  <2>. HIDE DEF stay, come, kept
  <2>. QED BY <1>5, <1>10, <1>11
<1>. QED BY <1>1, <1>12

(* Every variable has its type: in particular no channel ever holds more   *)
(* events than it has room for, and every token in use was issued.         *)
THEOREM SubscriptionsTypeCorrect == Spec => []SubscriptionsTypeOK
<1>1. IInv => SubscriptionsTypeOK
  <2>. SUFFICES ASSUME IInv PROVE SubscriptionsTypeOK
    OBVIOUS
  <2>1. \A t \in Topics : /\ versions[t] \in Seq(0..MaxWrites)
                          /\ messages[t] \subseteq DOMAIN versions[t]
                          /\ subscribers[t] \in Seq(Streams)
    BY DEF IInv, TypeInv, StorageInv, ListInv
  <2>2. active \subseteq [token : 1..issued, subscription : Streams]
    <3>1. \A s \in Streams : Opened(s) => stream[s].token \in 1..issued
      BY DEF IInv, TokenInv, Opened
    <3>. QED BY <3>1 DEF IInv, ListInv
  <2>3. \A s \in Streams :
          /\ stream[s].past \in Seq([topic : Topics, id : MessageIds])
          /\ channel[s] \in Seq(MessageEvent) /\ Len(channel[s]) <= Capacity
          /\ shown[s] \subseteq
               [topic : Topics, id : MessageIds, version : 0..MaxWrites]
    BY DEF IInv, TypeInv, StreamInv, StreamOK, StreamRecord, Message, ShownMessage
  <2>4. /\ processor.event \in MessageEvent \cup {NoEvent}
        /\ tokens \subseteq [token : 1..issued, user : Users]
        /\ dropped \cup gone \subseteq Streams
    BY DEF IInv, TypeInv, EventInv, TokenInv, StreamInv
  <2>. QED BY <2>1, <2>2, <2>3, <2>4 DEF SubscriptionsTypeOK
<1>. QED BY <1>1, Invariants, PTL

(* A token opens one subscription: the second SubscribeTopic with it is    *)
(* refused, whatever the two handlers and the first one's end do between.  *)
THEOREM TokensAreUsedOnce == Spec => []TokensOpenOnce
<1>1. IInv => TokensOpenOnce
  BY DEF IInv, TokenInv, TokensOpenOnce
<1>. QED BY <1>1, Invariants, PTL

(* No topic's list holds a subscription whose channel is closed: the ACK   *)
(* processor never sends on a closed channel, and does not panic.          *)
THEOREM ClosedChannelsAreUnlisted == Spec => []NeverSendsOnClosed
<1>1. IInv => NeverSendsOnClosed
  <2>. SUFFICES ASSUME IInv, NEW t \in Topics, NEW s \in ToSet(subscribers[t])
       PROVE  /\ stream[s].pc # "closed"
              /\ [token |-> stream[s].token, subscription |-> s] \in active
    BY DEF NeverSendsOnClosed
  <2>1. s \in Streams /\ Entries(subscribers[t], s) # {}
    BY DEF IInv, ListInv, ToSet, Entries
  <2>2. Opened(s)
    BY <2>1 DEF IInv, ListInv
  <2>. QED BY <2>1, <2>2 DEF IInv, ListInv, Opened
<1>. QED BY <1>1, Invariants, PTL

(* A subscriber that has lost no event to a full channel shows, once it    *)
(* has been sent what is on its way, exactly what the storage holds of     *)
(* what it asked for, however the writes, the snapshot of the past, the    *)
(* sends and the other subscribers' openings and closings interleave.      *)
THEOREM NobodyIsCheated == Spec => []SubscribersUpToDate
<1>1. IInv /\ DeliveryInv => SubscribersUpToDate
  BY DeliveredIsUpToDate DEF DeliveryInv, SubscribersUpToDate
<1>. QED BY <1>1, Invariants, PTL
=============================================================================
