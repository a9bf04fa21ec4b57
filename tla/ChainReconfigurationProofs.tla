--------------------- MODULE ChainReconfigurationProofs ---------------------
(***************************************************************************)
(* Proofs about ChainReconfiguration for every number of nodes, every set  *)
(* of writes, any number of changes that overlap in any way, and any       *)
(* number of RPCs that time out.                                           *)
(*                                                                         *)
(* The argument rests on the order in which nodes join: every connection,  *)
(* old or new, installed or about to be, leads from a node to one that     *)
(* joined later, and all nodes between the two have departed for good.     *)
(* Four parts follow that assume more: that the HEAD stays (nothing is     *)
(* lost, no storages diverge), that nobody leaves (only those that crash   *)
(* die), that one change is made (the chain is wired anew, nobody dies),   *)
(* and all of this without a timeout (nothing is left behind).             *)
(***************************************************************************)
EXTENDS ChainReconfiguration, FiniteSetTheorems, SequenceTheorems,
        WellFoundedInduction, TLAPS

(* All nodes between p and q are in gone. *)
Between(p, q, gone) == \A k \in Nodes : p < k /\ k < q => k \in gone

(* p may be q's predecessor; 0 is Nil. *)
Precedes(p, q, gone) == p < q /\ Between(p, q, gone)

(* Who may be connected, when nodes 1..last have joined.  A node without a *)
(* successor is the last of those that the chain began with, although     *)
(* others may have joined behind it.                                       *)
MayConnect(p, q, last, gone) ==
  IF q = Nil THEN Between(p, Initial + 1, gone)
             ELSE Precedes(p, q, gone) /\ q <= last

(* The replicator has in hand, and has passed, only what is in its buffer. *)
SendInv ==
  \A n \in Nodes : /\ nextEventSeq[n] <= Len(events[n])
                   /\ \A e \in outgoing[n] : e.seq < Len(events[n])

Holds(pc) == pc \in {"confirm", "apply", "send"}

(* So has the ACK processor, which confirms one number after the other.    *)
ConfirmInv ==
  \A n \in Nodes :
    /\ \A s \in ackQueue[n] : s < Len(events[n])
    /\ Holds(ackProcessor[n]) => nextAckSeq[n] \in 1..Len(events[n])
    /\ lastConfirmed[n] = IF ackProcessor[n] = "confirm"
                          THEN nextAckSeq[n] - 2 ELSE nextAckSeq[n] - 1
    /\ lastConfirmed[n] < Len(events[n])

(* A synchronisation sends what its node has, to a successor, and, at a    *)
(* node that is still in the chain, acknowledges only what its node has.   *)
SyncInv ==
  \A n \in Nodes :
    /\ sync[n].pc = "stopping" => sync[n].event = 0 /\ sync[n].lastEvent = -1
    /\ sync[n].pc = "query" => sync[n].succ # Nil
    /\ sync[n].pc = "sync" =>
         /\ sync[n].lastEvent < Len(events[n])
         /\ sync[n].event <= sync[n].lastEvent => sync[n].succ # Nil
         /\ n \notin Departed => sync[n].lastAck < Len(events[n])

(* The chain is in the order in which its nodes have joined. *)
ChainInv ==
  /\ \A i \in DOMAIN chain : chain[i] <= joined
  /\ \A i, j \in DOMAIN chain : i < j => chain[i] < chain[j]
  /\ Len(chain) <= joined
  /\ stopped \subseteq 1..joined

(* Every connection passes over departed nodes only. *)
WiringInv ==
  /\ \A q \in 1..joined : Precedes(predecessor[q], q, Departed)
  /\ \A p \in Nodes : MayConnect(p, successor[p], joined, Departed)
  /\ \A j \in jobs : /\ MayConnect(j.pred, j.succ, joined, Departed)
                     /\ j.pc \in {"pred", "stopping"} => j.succ # Nil
                     /\ j.pc = "succ" => j.pred # Nil
  /\ \A s \in pendingSyncs : MayConnect(s.node, s.succ, joined, Departed)
  /\ \A n \in Nodes : sync[n].pc # "idle" =>
                        MayConnect(n, sync[n].succ, joined, Departed)

(* A node in the chain has every event that any later node has or is sent. *)
OrderInv ==
  \A p, q \in Nodes : p < q /\ p \notin Departed =>
    /\ Len(events[q]) <= Len(events[p])
    /\ \A e \in eventQueue[q] : e.seq < Len(events[p])
    /\ \A m \in lateEvents : m.to = q => m.event.seq < Len(events[p])

(* A write is accepted by a node that has none before it. *)
HandlersInv ==
  \A w \in Writes : handler[w].pc # "idle" =>
    /\ handler[w].node \in 1..joined
    /\ Between(0, handler[w].node, Departed)
    /\ handler[w].seq < Len(events[handler[w].node])

LateAcksInv == \A m \in lateAcks : m.to \in Departed \/ m.seq < Len(events[m.to])

(* Nobody knows of a node that has not joined yet. *)
AbsentInv ==
  \A n \in Nodes : n > joined =>
    /\ n \in down
    /\ predecessor[n] = Nil
    /\ events[n] = <<>>
    /\ eventQueue[n] = {}
    /\ \A m \in lateEvents : m.to # n

LifeInv == down \cap 1..joined \subseteq Departed

IInv == /\ ReconfigurationTypeOK
        /\ SendInv /\ ConfirmInv /\ SyncInv
        /\ ChainInv /\ WiringInv /\ OrderInv
        /\ HandlersInv /\ LateAcksInv /\ AbsentInv /\ LifeInv

-----------------------------------------------------------------------------
(* Sequences. *)

(* Among n numbers, those up to each of them are 1, 2, ..., n many, in the *)
(* order of the numbers.                                                   *)
LEMMA RanksAreAll ==
  ASSUME NEW kept \in SUBSET Nat, IsFiniteSet(kept)
  PROVE  /\ Cardinality(kept) \in Nat
         /\ \A i \in kept :
              Cardinality({j \in kept : j <= i}) \in 1..Cardinality(kept)
         /\ \A i, k \in kept : i < k =>
              Cardinality({j \in kept : j <= i}) <
                Cardinality({j \in kept : j <= k})
         /\ \A k \in 1..Cardinality(kept) :
              \E i \in kept : Cardinality({j \in kept : j <= i}) = k
<1>. DEFINE Upto(i) == {j \in kept : j <= i}
            rank == [i \in kept |-> Cardinality(Upto(i))]
            n == Cardinality(kept)
<1>1. n \in Nat
  BY FS_CardinalityType
<1>2. \A i \in kept : Upto(i) \in SUBSET kept /\ i \in Upto(i)
  OBVIOUS
<1>3. ASSUME NEW i \in kept, NEW k \in kept, i < k
      PROVE  Upto(i) \in SUBSET Upto(k) /\ Upto(i) # Upto(k)
  <2>1. i \in Nat /\ k \in Nat /\ \A j \in kept : j \in Nat
    OBVIOUS
  <2>2. \A j \in kept : j <= i => j <= k
    BY <1>3, <2>1
  <2>3. k \notin Upto(i) /\ k \in Upto(k)
    BY <1>3, <2>1
  <2>. QED BY <2>2, <2>3
<1>. HIDE DEF Upto
<1>4. ASSUME NEW i \in kept
      PROVE  IsFiniteSet(Upto(i)) /\ Cardinality(Upto(i)) \in 1..n
  <2>1. IsFiniteSet(Upto(i)) /\ Cardinality(Upto(i)) <= n
    BY <1>2, FS_Subset
  <2>2. Cardinality(Upto(i)) \in Nat
    BY <2>1, FS_CardinalityType
  <2>3. Cardinality(Upto(i)) # 0
    BY <1>2, <2>1, FS_EmptySet
  <2>. QED BY <1>1, <2>1, <2>2, <2>3
<1>5. ASSUME NEW i \in kept, NEW k \in kept, i < k
      PROVE  Cardinality(Upto(i)) < Cardinality(Upto(k))
  <2>1. /\ Cardinality(Upto(i)) <= Cardinality(Upto(k))
        /\ Cardinality(Upto(i)) # Cardinality(Upto(k))
    BY <1>3, <1>4, <1>5, FS_Subset
  <2>. QED BY <1>4, <2>1
<1>6. ASSUME NEW i \in kept, NEW k \in kept,
             Cardinality(Upto(i)) = Cardinality(Upto(k))
      PROVE  i = k
  <2>1. i < k \/ k < i \/ i = k
    OBVIOUS
  <2>2. ~(i < k)
    BY <1>4, <1>5, <1>6
  <2>3. ~(k < i)
    BY <1>4, <1>5, <1>6
  <2>. QED BY <2>1, <2>2, <2>3
<1>7. rank \in Injection(kept, 1..n)
  BY <1>4, <1>6 DEF Injection, IsInjective
<1>8. IsFiniteSet(1..n) /\ Cardinality(1..n) = n
  BY <1>1, FS_Interval
<1>9. rank \in Surjection(kept, 1..n)
  <2>. HIDE DEF rank, n
  <2>1. n = Cardinality(kept)
    BY DEF n
  <2>. QED BY <1>7, <1>8, <2>1, FS_Injection
<1>10. \A k \in 1..n : \E i \in kept : Cardinality(Upto(i)) = k
  BY <1>9 DEF Surjection
<1>. QED BY <1>1, <1>4, <1>5, <1>10 DEF Upto

Increasing(s) == \A i, j \in DOMAIN s : i < j => s[i] < s[j]

(* Taking nodes out of an increasing sequence leaves an increasing one. *)
LEMMA WithoutProperties ==
  ASSUME NEW order \in Seq(Nodes), Increasing(order), NEW removed
  PROVE  /\ Without(order, removed) \in Seq(Nodes)
         /\ Len(Without(order, removed)) <= Len(order)
         /\ Increasing(Without(order, removed))
         /\ ToSet(Without(order, removed)) = ToSet(order) \ removed
<1>. DEFINE kept == {i \in DOMAIN order : order[i] \notin removed}
            Rank(i) == Cardinality({j \in kept : j <= i})
            n == Cardinality(kept)
            at == [k \in 1..n |-> CHOOSE i \in kept : Rank(i) = k]
            new == [k \in 1..n |-> order[at[k]]]
<1>1. /\ n \in Nat /\ n <= Len(order)
      /\ \A i \in kept : Rank(i) \in 1..n
      /\ \A i, k \in kept : i < k => Rank(i) < Rank(k)
      /\ \A k \in 1..n : \E i \in kept : Rank(i) = k
  <2>1. kept \in SUBSET Nat /\ kept \in SUBSET (1..Len(order)) /\ Len(order) \in Nat
    OBVIOUS
  <2>2. IsFiniteSet(1..Len(order)) /\ Cardinality(1..Len(order)) = Len(order)
    <3>. DEFINE l == Len(order)
    <3>1. l \in Nat
      BY <2>1
    <3>. HIDE DEF l
    <3>2. IsFiniteSet(1..l) /\ Cardinality(1..l) = l
      BY <3>1, FS_Interval
    <3>. QED BY <3>2 DEF l
  <2>3. IsFiniteSet(kept) /\ Cardinality(kept) <= Len(order)
    <3>. HIDE DEF kept
    <3>. QED BY <2>1, <2>2, FS_Subset
  <2>. HIDE DEF kept
  <2>. QED BY <2>1, <2>3, RanksAreAll
<1>2. kept \subseteq DOMAIN order /\ \A i \in DOMAIN order : i \in kept <=> order[i] \notin removed
  OBVIOUS
<1>2a. DOMAIN order = 1..Len(order) /\ Len(order) \in Nat
  OBVIOUS
<1>3. Without(order, removed) = new
  <2>1. Without(order, removed) =
          [k \in 1..n |-> order[CHOOSE i \in kept : Rank(i) = k]]
    BY DEF Without
  <2>. QED BY <2>1, Zenon
<1>. HIDE DEF kept, Rank, n
<1>4. \A k \in 1..n : at[k] \in kept /\ Rank(at[k]) = k
  BY <1>1
<1>5. \A i \in kept : \E k \in 1..n : at[k] = i
  <2>. SUFFICES ASSUME NEW i \in kept PROVE at[Rank(i)] = i /\ Rank(i) \in 1..n
    OBVIOUS
  <2>1. Rank(i) \in 1..n /\ at[Rank(i)] \in kept /\ Rank(at[Rank(i)]) = Rank(i)
    BY <1>1, <1>4
  <2>. DEFINE a == at[Rank(i)]
  <2>2. a \in Nat /\ i \in Nat
    BY <1>2, <1>2a, <2>1
  <2>3. ~(a < i) /\ ~(i < a)
    <3>. HIDE DEF a
    <3>1. a \in kept /\ Rank(a) = Rank(i) /\ Rank(i) \in Int
      BY <1>1, <2>1 DEF a
    <3>. QED BY <1>1, <3>1
  <2>. QED BY <2>1, <2>2, <2>3
<1>6. new \in Seq(Nodes)
  BY <1>1, <1>2, <1>4
<1>7. DOMAIN new = 1..n /\ Len(new) = n /\ \A k \in 1..n : new[k] = order[at[k]]
  BY <1>1
<1>. HIDE DEF at, new
<1>8. ToSet(new) = ToSet(order) \ removed
  <2>1. ASSUME NEW x \in ToSet(new) PROVE x \in ToSet(order) \ removed
    BY <1>2, <1>4, <1>7 DEF ToSet
  <2>2. ASSUME NEW x \in ToSet(order) \ removed PROVE x \in ToSet(new)
    <3>1. PICK i \in DOMAIN order : x = order[i]
      BY <2>2 DEF ToSet
    <3>2. i \in kept
      BY <1>2, <2>2, <3>1
    <3>3. PICK k \in 1..n : at[k] = i
      BY <1>5, <3>2
    <3>. QED BY <1>7, <3>1, <3>3 DEF ToSet
  <2>. QED BY <2>1, <2>2
<1>9. Increasing(new)
  <2>. SUFFICES ASSUME NEW a \in 1..n, NEW b \in 1..n, a < b
       PROVE  new[a] < new[b]
    BY <1>7 DEF Increasing
  <2>1. at[a] \in kept /\ at[b] \in kept /\ Rank(at[a]) = a /\ Rank(at[b]) = b
    BY <1>4
  <2>2. at[a] \in Nat /\ at[b] \in Nat
    BY <1>2, <1>2a, <2>1
  <2>3. ~(at[b] < at[a]) /\ at[a] # at[b]
    <3>1. at[a] # at[b]
      BY <2>1
    <3>2. ~(at[b] < at[a])
      BY <1>1, <2>1
    <3>. QED BY <3>1, <3>2
  <2>4. at[a] < at[b]
    BY <2>2, <2>3
  <2>. QED BY <1>2, <1>7, <2>1, <2>4 DEF Increasing
<1>. QED BY <1>1, <1>3, <1>6, <1>7, <1>8, <1>9

LEMMA RemoveAtProperties ==
  ASSUME NEW order \in Seq(Nodes), Increasing(order), NEW i \in DOMAIN order
  PROVE  /\ RemoveAt(order, i) \in Seq(Nodes)
         /\ Len(RemoveAt(order, i)) = Len(order) - 1
         /\ Increasing(RemoveAt(order, i))
         /\ ToSet(RemoveAt(order, i)) = ToSet(order) \ {order[i]}
<1>. DEFINE n == Len(order)
            left == SubSeq(order, 1, i - 1)
            right == SubSeq(order, i + 1, n)
            new == left \o right
            from(j) == IF j < i THEN j ELSE j + 1
            to(j) == IF j < i THEN j ELSE j - 1
<1>1. n \in Nat /\ i \in 1..n /\ DOMAIN order = 1..n /\ RemoveAt(order, i) = new
  BY DEF RemoveAt
<1>2. /\ left \in Seq(Nodes) /\ right \in Seq(Nodes)
      /\ Len(left) = i - 1 /\ Len(right) = n - i
      /\ \A j \in 1..i - 1 : left[j] = order[j]
      /\ \A j \in 1..n - i : right[j] = order[i + j]
  <2>1. /\ left \in Seq(Nodes) /\ Len(left) = i - 1
        /\ \A j \in 1..i - 1 : left[j] = order[j]
    BY <1>1
  <2>2. right \in Seq(Nodes) /\ Len(right) = n - i
    BY <1>1
  <2>3. \A j \in 1..n - i : right[j] = order[i + j]
    BY <1>1
  <2>. QED BY <2>1, <2>2, <2>3
<1>3. /\ new \in Seq(Nodes) /\ Len(new) = n - 1 /\ DOMAIN new = 1..n - 1
      /\ \A j \in 1..n - 1 : new[j] = order[from(j)]
  <2>1. new = left \o right
    OBVIOUS
  <2>. HIDE DEF left, right, new
  <2>2. /\ new \in Seq(Nodes) /\ Len(new) = n - 1
        /\ \A j \in 1..n - 1 :
              new[j] = IF j <= i - 1 THEN left[j] ELSE right[j - (i - 1)]
    <3>1. i - 1 + (n - i) = n - 1
      BY <1>1
    <3>2. /\ new \in Seq(Nodes) /\ Len(new) = Len(left) + Len(right)
          /\ \A j \in 1..Len(left) + Len(right) :
               new[j] = IF j <= Len(left) THEN left[j] ELSE right[j - Len(left)]
      BY <1>2, <2>1, ConcatProperties, Zenon
    <3>3. Len(left) = i - 1 /\ Len(left) + Len(right) = n - 1
      BY <1>2, <3>1
    <3>. QED BY <3>2, <3>3, Zenon
  <2>3. ASSUME NEW j \in 1..n - 1 PROVE new[j] = order[from(j)]
    <3>1. CASE j < i
      BY <1>1, <1>2, <2>2, <3>1
    <3>2. CASE ~(j < i)
      <4>1. j - (i - 1) \in 1..n - i /\ i + (j - (i - 1)) = j + 1
        BY <1>1, <3>2
      <4>2. new[j] = right[j - (i - 1)]
        BY <1>1, <2>2, <3>2
      <4>3. right[j - (i - 1)] = order[i + (j - (i - 1))]
        BY <1>2, <4>1
      <4>. QED BY <3>2, <4>1, <4>2, <4>3
    <3>. QED BY <3>1, <3>2
  <2>4. DOMAIN new = 1..n - 1
    BY <2>2
  <2>. QED BY <2>2, <2>3, <2>4
<1>. HIDE DEF left, right, new, n
<1>4. /\ \A j \in 1..n - 1 : from(j) \in 1..n /\ from(j) # i
      /\ \A j \in 1..n : j # i => to(j) \in 1..n - 1 /\ from(to(j)) = j
  BY <1>1
<1>5. Increasing(new)
  <2>. SUFFICES ASSUME NEW a \in 1..n - 1, NEW b \in 1..n - 1, a < b
       PROVE  new[a] < new[b]
    BY <1>3 DEF Increasing
  <2>1. from(a) < from(b)
    BY <1>1
  <2>. QED BY <1>1, <1>3, <1>4, <2>1 DEF Increasing
<1>6. \A j \in 1..n : order[j] = order[i] => j = i
  <2>1. \A j \in 1..n : order[j] \in Int
    BY <1>1, ChainAssumption DEF Nodes
  <2>. QED BY <1>1, <2>1 DEF Increasing
<1>7. ToSet(new) = ToSet(order) \ {order[i]}
  <2>1. ASSUME NEW x \in ToSet(new) PROVE x \in ToSet(order) \ {order[i]}
    <3>1. PICK j \in 1..n - 1 : x = new[j]
      BY <1>3, <2>1 DEF ToSet
    <3>2. x = order[from(j)] /\ from(j) \in 1..n /\ from(j) # i
      BY <1>3, <1>4, <3>1
    <3>. QED BY <1>1, <1>6, <3>2 DEF ToSet
  <2>2. ASSUME NEW x \in ToSet(order) \ {order[i]} PROVE x \in ToSet(new)
    <3>1. PICK j \in 1..n : x = order[j] /\ j # i
      BY <1>1, <2>2 DEF ToSet
    <3>2. to(j) \in 1..n - 1 /\ new[to(j)] = x
      BY <1>3, <1>4, <3>1
    <3>. QED BY <1>3, <3>2 DEF ToSet
  <2>. QED BY <2>1, <2>2
<1>. QED BY <1>1, <1>3, <1>5, <1>7 DEF n

-----------------------------------------------------------------------------
(* What each part of the invariant depends on. *)

LEMMA NodeTypes ==
  ASSUME TypeOK, NEW k \in Nodes
  PROVE  /\ events[k] \in Seq(Writes) /\ Len(events[k]) \in Nat
         /\ nextEventSeq[k] \in Nat /\ eventQueue[k] \subseteq Event
         /\ outgoing[k] \subseteq Event
         /\ nextAckSeq[k] \in Nat /\ ackQueue[k] \subseteq Nat
         /\ lastConfirmed[k] \in Nat \cup {-1}
         /\ applied[k] \in Seq(Writes)
         /\ predecessor[k] \in Nodes \cup {Nil}
         /\ successor[k] \in Nodes \cup {Nil}
<1>1. /\ events[k] \in Seq(Writes) /\ nextEventSeq[k] \in Nat
      /\ eventQueue[k] \subseteq Event /\ outgoing[k] \subseteq Event
  BY DEF TypeOK, EventTypes
<1>2. /\ applied[k] \in Seq(Writes) /\ nextAckSeq[k] \in Nat
      /\ ackQueue[k] \subseteq Nat /\ lastConfirmed[k] \in Nat \cup {-1}
  BY DEF TypeOK, AckTypes
<1>3. predecessor[k] \in Nodes \cup {Nil} /\ successor[k] \in Nodes \cup {Nil}
  BY DEF TypeOK
<1>. QED BY <1>1, <1>2, <1>3

LEMMA MembersFrame ==
  ASSUME ChainInv, UNCHANGED <<chain, joined, stopped>>
  PROVE  ChainInv' /\ Departed' = Departed
BY DEF ChainInv, Departed

LEMMA ConnectionsFrame ==
  ASSUME WiringInv, Departed \subseteq Departed',
         UNCHANGED <<neighbours, joined, jobs, pendingSyncs, sync>>
  PROVE  WiringInv'
BY DEF WiringInv, neighbours, Precedes, Between, MayConnect

LEMMA SyncFrame ==
  ASSUME SyncInv, Departed \subseteq Departed', UNCHANGED <<events, sync>>
  PROVE  SyncInv'
BY DEF SyncInv

LEMMA ClientFrame ==
  ASSUME ClientTypes, HandlersInv, Departed \subseteq Departed',
         UNCHANGED <<events, clientVars>>,
         joined \in Nat, joined' \in Nat, joined <= joined'
  PROVE  ClientTypes' /\ HandlersInv'
<1>1. ClientTypes'
  BY DEF ClientTypes, clientVars
<1>2. HandlersInv'
  BY DEF HandlersInv, clientVars, Between
<1>. QED BY <1>1, <1>2

(* Events are sent, parked or forgotten, and none is added to a buffer. *)
LEMMA EventsFrame ==
  ASSUME EventTypes, SendInv, OrderInv, AbsentInv,
         Departed \subseteq Departed', down \subseteq down',
         UNCHANGED <<events, nextEventSeq, joined>>,
         \A k \in Nodes : k > joined => predecessor'[k] = predecessor[k],
         replicator' \in [Nodes -> ReplicatorStates],
         eventQueue' \in [Nodes -> SUBSET Event],
         outgoing' \in [Nodes -> SUBSET Event],
         \A k \in Nodes : /\ eventQueue'[k] \subseteq eventQueue[k]
                          /\ outgoing'[k] \subseteq outgoing[k],
         lateEvents' \subseteq lateEvents
  PROVE  EventTypes' /\ SendInv' /\ OrderInv' /\ AbsentInv'
<1>1. EventTypes'
  BY DEF EventTypes
<1>2. SendInv'
  BY DEF SendInv
<1>3. OrderInv'
  BY DEF OrderInv
<1>4. AbsentInv'
  BY DEF AbsentInv
<1>. QED BY <1>1, <1>2, <1>3, <1>4

(* An ACK processor lets go of its number, or does nothing of note. *)
LEMMA AcksFrame ==
  ASSUME AckTypes, ConfirmInv, LateAcksInv, Departed \subseteq Departed',
         UNCHANGED <<events, lastConfirmed, nextAckSeq, ackQueue, applied,
                     lateAcks>>,
         ackProcessor' \in [Nodes -> AckProcessorStates],
         \A k \in Nodes : \/ ackProcessor'[k] = ackProcessor[k]
                          \/ /\ ackProcessor[k] # "confirm"
                             /\ ~Holds(ackProcessor'[k])
  PROVE  AckTypes' /\ ConfirmInv' /\ LateAcksInv'
<1>1. AckTypes'
  BY DEF AckTypes
<1>2. ConfirmInv'
  BY DEF ConfirmInv, Holds
<1>3. LateAcksInv'
  BY DEF LateAcksInv
<1>. QED BY <1>1, <1>2, <1>3

LEMMA LifeFrame ==
  ASSUME LifeInv, Departed \subseteq Departed', joined' = joined,
         down' \subseteq down \cup Departed'
  PROVE  LifeInv'
BY DEF LifeInv

-----------------------------------------------------------------------------
(* Queueing events and ACKs. *)

(* What a node has, every node of the chain before its successor has. *)
LEMMA HasPassed ==
  ASSUME IInv, NEW n \in Nodes, NEW m \in Nodes, Precedes(n, m, Departed),
         NEW seq \in Nat, seq < Len(events[n])
  PROVE  \A p \in Nodes : p < m /\ p \notin Departed => seq < Len(events[p])
<1>. SUFFICES ASSUME NEW p \in Nodes, p < m, p \notin Departed
     PROVE  seq < Len(events[p])
  OBVIOUS
<1>1. p \in Int /\ n \in Int /\ m \in Int
  BY ChainAssumption DEF Nodes
<1>2. p <= n
  BY <1>1 DEF Precedes, Between
<1>3. p < n => Len(events[n]) <= Len(events[p])
  BY DEF IInv, OrderInv
<1>4. Len(events[n]) \in Nat /\ Len(events[p]) \in Nat
  BY NodeTypes DEF IInv, ReconfigurationTypeOK
<1>. QED BY <1>1, <1>2, <1>3, <1>4

(* Queueing an event that every node of the chain before m has. *)
LEMMA BufferEventKeeps ==
  ASSUME IInv, NEW m \in Nodes, m <= joined, NEW e \in Event,
         \A p \in Nodes : p < m /\ p \notin Departed => e.seq < Len(events[p]),
         NEW states \in [Nodes -> ReplicatorStates],
         BufferEvent(m, e, states),
         UNCHANGED <<events, nextEventSeq, predecessor, chain, joined, stopped,
                     down>>,
         outgoing' \in [Nodes -> SUBSET Event],
         \A k \in Nodes : outgoing'[k] \subseteq outgoing[k],
         lateEvents' \subseteq lateEvents
  PROVE  EventTypes' /\ SendInv' /\ OrderInv' /\ AbsentInv'
<1>1. Departed' = Departed
  BY MembersFrame DEF IInv
<1>2. /\ eventQueue' \in [Nodes -> SUBSET Event]
      /\ \A k \in Nodes : eventQueue'[k] \subseteq eventQueue[k] \cup (IF k = m THEN {e} ELSE {})
  <2>1. eventQueue \in [Nodes -> SUBSET Event]
    BY DEF IInv, ReconfigurationTypeOK, TypeOK, EventTypes
  <2>2. CASE eventQueue' = eventQueue
    BY <2>1, <2>2
  <2>3. CASE eventQueue' = [eventQueue EXCEPT ![m] = {f \in @ : f.seq # e.seq} \cup {e}]
    BY <2>1, <2>3
  <2>. QED BY <2>2, <2>3 DEF BufferEvent
<1>3. replicator' \in [Nodes -> ReplicatorStates]
  BY DEF BufferEvent, Woken, ReplicatorStates
<1>4. EventTypes'
  BY <1>2, <1>3 DEF IInv, ReconfigurationTypeOK, TypeOK, EventTypes
<1>5. SendInv'
  BY DEF IInv, SendInv
<1>6. OrderInv'
  BY <1>1, <1>2 DEF IInv, OrderInv
<1>7. AbsentInv'
  <2>1. m \in Int /\ joined \in Int
    BY ChainAssumption, ReconfigurationAssumption
    DEF Nodes, IInv, ReconfigurationTypeOK, ReconfigurationTypes
  <2>2. ASSUME NEW k \in Nodes, k > joined
        PROVE  eventQueue'[k] \subseteq eventQueue[k]
    <3>1. k # m
      BY <2>1, <2>2
    <3>. QED BY <1>2, <3>1
  <2>. QED BY <2>2 DEF IInv, AbsentInv
<1>. QED BY <1>4, <1>5, <1>6, <1>7

(* Queueing an ACK at m: unless m has departed, m has the event.           *)
LEMMA BufferAckKeeps ==
  ASSUME IInv, NEW m \in Nodes, m <= joined, NEW seq \in Nat,
         m \in Departed \/ seq < Len(events[m]),
         NEW states \in [Nodes -> AckProcessorStates],
         \A k \in Nodes : \/ states[k] = ackProcessor[k]
                          \/ /\ ackProcessor[k] # "confirm"
                             /\ ~Holds(states[k]),
         BufferAck(m, seq, states),
         UNCHANGED <<events, lastConfirmed, nextAckSeq, applied, chain, joined,
                     stopped>>,
         lateAcks' \subseteq lateAcks
  PROVE  /\ AckTypes' /\ ConfirmInv' /\ LateAcksInv'
         /\ down \subseteq down' /\ down' \subseteq Nodes
         /\ down' \subseteq down \cup Departed
         /\ LifeInv'
<1>0. Departed' = Departed
  BY MembersFrame DEF IInv
<1>1. Len(events[m]) \in Nat
  BY NodeTypes DEF IInv, ReconfigurationTypeOK
<1>2. /\ down \subseteq down' /\ down' \subseteq Nodes
      /\ down' \subseteq down \cup Departed
  BY <1>1 DEF BufferAck, IInv, ReconfigurationTypeOK, TypeOK
<1>3. LifeInv'
  BY <1>0, <1>2, LifeFrame DEF IInv
<1>4. /\ ackQueue' \in [Nodes -> SUBSET Nat]
      /\ \A k \in Nodes : \A s \in ackQueue'[k] :
           s \in ackQueue[k] \/ (k = m /\ s = seq /\ seq < Len(events[m]))
  <2>1. ackQueue \in [Nodes -> SUBSET Nat]
    BY DEF IInv, ReconfigurationTypeOK, TypeOK, AckTypes
  <2>2. CASE ackQueue' = ackQueue
    BY <2>1, <2>2
  <2>3. CASE ackQueue' = [ackQueue EXCEPT ![m] = @ \cup {seq}] /\ ~(seq >= Len(events[m]))
    BY <1>1, <2>1, <2>3
  <2>. QED BY <2>2, <2>3 DEF BufferAck
<1>5. /\ ackProcessor' \in [Nodes -> AckProcessorStates]
      /\ \A k \in Nodes : \/ ackProcessor'[k] = ackProcessor[k]
                          \/ /\ ackProcessor[k] # "confirm"
                             /\ ~Holds(ackProcessor'[k])
  <2>1. CASE ackProcessor' = states
    BY <2>1
  <2>2. CASE ackProcessor' = [states EXCEPT ![m] = Woken(@)]
    <3>1. /\ ackProcessor' \in [Nodes -> AckProcessorStates]
          /\ \A k \in Nodes : k # m => ackProcessor'[k] = states[k]
          /\ ackProcessor'[m] = Woken(states[m])
      BY <2>2 DEF Woken, AckProcessorStates
    <3>2. \/ Woken(states[m]) = states[m]
          \/ states[m] = "wait" /\ ~Holds(Woken(states[m]))
      BY DEF Woken, Holds
    <3>. QED BY <3>1, <3>2 DEF Holds
  <2>. QED BY <2>1, <2>2 DEF BufferAck
<1>6. AckTypes'
  <2>1. /\ lastConfirmed' \in [Nodes -> Nat \cup {-1}]
        /\ nextAckSeq' \in [Nodes -> Nat]
        /\ applied' \in [Nodes -> Seq(Writes)]
        /\ lateAcks' \subseteq [to : Nodes, seq : Nat]
    BY DEF IInv, ReconfigurationTypeOK, TypeOK, AckTypes
  <2>. QED BY <1>4, <1>5, <2>1 DEF AckTypes
<1>7. ConfirmInv'
  BY <1>4, <1>5 DEF IInv, ConfirmInv, Holds
<1>8. LateAcksInv'
  BY <1>0 DEF IInv, LateAcksInv
<1>. QED BY <1>2, <1>3, <1>6, <1>7, <1>8

(* A step of the nodes that leaves the chain and its connections alone. *)
LEMMA StepFrame ==
  ASSUME IInv, UNCHANGED <<neighbours, reconfigurationVars>>
  PROVE  /\ Departed' = Departed
         /\ joined \in Nat /\ joined' = joined /\ UNCHANGED <<chain, stopped>>
         /\ predecessor' \in [Nodes -> Nodes \cup {Nil}]
         /\ successor' \in [Nodes -> Nodes \cup {Nil}]
         /\ ReconfigurationTypes' /\ ChainInv' /\ WiringInv'
<1>1. UNCHANGED <<chain, joined, stopped, jobs, pendingSyncs, sync>>
  BY DEF reconfigurationVars
<1>2. Departed' = Departed /\ ChainInv'
  BY <1>1, MembersFrame DEF IInv
<1>3. WiringInv'
  BY <1>1, <1>2, ConnectionsFrame DEF IInv
<1>4. ReconfigurationTypes'
  BY <1>1 DEF IInv, ReconfigurationTypeOK, ReconfigurationTypes
<1>5. joined \in Nat
  BY ChainAssumption, ReconfigurationAssumption
  DEF IInv, ReconfigurationTypeOK, ReconfigurationTypes
<1>6. /\ predecessor' \in [Nodes -> Nodes \cup {Nil}]
      /\ successor' \in [Nodes -> Nodes \cup {Nil}]
  BY DEF IInv, ReconfigurationTypeOK, TypeOK, neighbours
<1>. QED BY <1>1, <1>2, <1>3, <1>4, <1>5, <1>6

(* An event more in a buffer disturbs only what is said of events. *)
LEMMA GrowthFrame ==
  ASSUME IInv, UNCHANGED <<ackVars, neighbours, reconfigurationVars>>,
         events' \in [Nodes -> Seq(Writes)],
         \A k \in Nodes : Len(events[k]) <= Len(events'[k])
  PROVE  AckTypes' /\ ConfirmInv' /\ SyncInv' /\ LateAcksInv'
<1>1. Departed' = Departed
  BY StepFrame
<1>2. \A k \in Nodes : Len(events[k]) \in Nat /\ Len(events'[k]) \in Nat
  BY NodeTypes DEF IInv, ReconfigurationTypeOK
<1>3. AckTypes'
  BY DEF IInv, ReconfigurationTypeOK, TypeOK, AckTypes, ackVars
<1>4. ConfirmInv'
  <2>1. /\ UNCHANGED <<lastConfirmed, nextAckSeq, ackQueue, ackProcessor>>
        /\ \A k \in Nodes : /\ ackQueue[k] \subseteq Nat /\ nextAckSeq[k] \in Nat
                            /\ lastConfirmed[k] \in Nat \cup {-1}
    BY NodeTypes DEF ackVars, IInv, ReconfigurationTypeOK
  <2>. QED BY <1>2, <2>1 DEF IInv, ConfirmInv
<1>5. SyncInv'
  <2>1. /\ sync' = sync
        /\ \A k \in Nodes : sync[k].lastEvent \in Int /\ sync[k].lastAck \in Int
    BY DEF reconfigurationVars, IInv, ReconfigurationTypeOK,
           ReconfigurationTypes, Sequence
  <2>. QED BY <1>1, <1>2, <2>1 DEF IInv, SyncInv
<1>6. LateAcksInv'
  <2>1. /\ lateAcks' = lateAcks
        /\ \A m \in lateAcks : m.to \in Nodes /\ m.seq \in Nat
    BY DEF ackVars, IInv, ReconfigurationTypeOK, TypeOK, AckTypes
  <2>. QED BY <1>1, <1>2, <2>1 DEF IInv, LateAcksInv
<1>. QED BY <1>3, <1>4, <1>5, <1>6

(* A node that runs has joined. *)
LEMMA RunningHasJoined ==
  ASSUME IInv, NEW n \in Nodes, n \notin down
  PROVE  n \in 1..joined /\ n <= joined /\ joined \in Nat /\ n \in Nat
<1>1. joined \in Nat /\ n \in Nat /\ n >= 1
  BY ChainAssumption, ReconfigurationAssumption
  DEF Nodes, IInv, ReconfigurationTypeOK, ReconfigurationTypes
<1>. QED BY <1>1 DEF IInv, AbsentInv

-----------------------------------------------------------------------------
(* The handler of a write. *)

LEMMA HandleWriteKeeps ==
  ASSUME IInv, NEW n \in Nodes, NEW w \in Writes, HandleWrite(n, w),
         UNCHANGED reconfigurationVars
  PROVE  IInv'
<1>. PICK h : h = [pc |-> "created", node |-> n, seq |-> Len(events[n])]
  OBVIOUS
<1>1. /\ n \notin down /\ predecessor[n] = Nil
      /\ events' = [events EXCEPT ![n] = Append(@, w)]
      /\ handler' = [handler EXCEPT ![w] = h]
      /\ UNCHANGED <<neighbours, eventVars, ackVars, channel, faults, down>>
  BY DEF HandleWrite, IsHead
<1>2. /\ events \in [Nodes -> Seq(Writes)]
      /\ handler \in [Writes -> [pc : HandlerStates,
                                 node : Nodes \cup {Nil}, seq : Nat]]
      /\ \A k \in Nodes : events[k] \in Seq(Writes) /\ Len(events[k]) \in Nat
  BY NodeTypes DEF IInv, ReconfigurationTypeOK, TypeOK, EventTypes, ClientTypes
<1>3. /\ events' \in [Nodes -> Seq(Writes)]
      /\ \A k \in Nodes : Len(events'[k]) =
                            IF k = n THEN Len(events[k]) + 1 ELSE Len(events[k])
      /\ \A k \in Nodes : k # n => events'[k] = events[k]
      /\ \A k \in Nodes : Len(events[k]) <= Len(events'[k])
  BY <1>1, <1>2
<1>4. n \in 1..joined /\ n <= joined /\ Between(0, n, Departed)
  <2>1. n \in 1..joined /\ n <= joined
    BY <1>1, RunningHasJoined
  <2>. QED BY <1>1, <2>1 DEF IInv, WiringInv, Precedes, Nil
<1>5. /\ Departed' = Departed /\ joined \in Nat /\ joined' = joined
      /\ predecessor' \in [Nodes -> Nodes \cup {Nil}]
      /\ successor' \in [Nodes -> Nodes \cup {Nil}]
      /\ ReconfigurationTypes' /\ ChainInv' /\ WiringInv'
  BY <1>1, StepFrame
<1>6. AckTypes' /\ ConfirmInv' /\ SyncInv' /\ LateAcksInv'
  BY <1>1, <1>3, GrowthFrame
<1>7. UNCHANGED <<nextEventSeq, eventQueue, replicator, outgoing, lateEvents,
                  predecessor, faults, down, channel>>
  BY <1>1 DEF eventVars, neighbours
<1>8. TypeOK'
  <2>1. h \in [pc : HandlerStates, node : Nodes \cup {Nil}, seq : Nat]
    BY <1>2 DEF HandlerStates
  <2>2. EventTypes'
    BY <1>3, <1>7 DEF IInv, ReconfigurationTypeOK, TypeOK, EventTypes
  <2>3. ClientTypes'
    BY <1>1, <1>7, <2>1 DEF IInv, ReconfigurationTypeOK, TypeOK, ClientTypes
  <2>. QED BY <1>5, <1>6, <1>7, <2>2, <2>3 DEF IInv, ReconfigurationTypeOK, TypeOK
<1>9. SendInv'
  <2>1. \A k \in Nodes : nextEventSeq[k] \in Nat /\ outgoing[k] \subseteq Event
    BY NodeTypes DEF IInv, ReconfigurationTypeOK
  <2>. QED BY <1>2, <1>3, <1>7, <2>1 DEF IInv, SendInv, Event
<1>10. OrderInv'
  <2>. SUFFICES ASSUME NEW p \in Nodes, NEW q \in Nodes, p < q, p \notin Departed
       PROVE  /\ Len(events'[q]) <= Len(events'[p])
              /\ \A e \in eventQueue[q] : e.seq < Len(events'[p])
              /\ \A m \in lateEvents : m.to = q => m.event.seq < Len(events'[p])
    BY <1>5, <1>7 DEF OrderInv
  <2>1. q # n
    <3>1. p \in Nat /\ p >= 1
      BY ChainAssumption DEF Nodes
    <3>. QED BY <1>4, <3>1 DEF Between
  <2>2. /\ Len(events[q]) <= Len(events[p])
        /\ \A e \in eventQueue[q] : e.seq < Len(events[p])
        /\ \A m \in lateEvents : m.to = q => m.event.seq < Len(events[p])
    BY DEF IInv, OrderInv
  <2>3. /\ \A e \in eventQueue[q] : e.seq \in Nat
        /\ \A m \in lateEvents : m.event.seq \in Nat
    BY DEF IInv, ReconfigurationTypeOK, TypeOK, EventTypes, Event
  <2>. QED BY <1>2, <1>3, <2>1, <2>2, <2>3
<1>11. HandlersInv'
  <2>. SUFFICES ASSUME NEW v \in Writes, handler'[v].pc # "idle"
       PROVE  /\ handler'[v].node \in 1..joined
              /\ Between(0, handler'[v].node, Departed)
              /\ handler'[v].seq < Len(events'[handler'[v].node])
    BY <1>5 DEF HandlersInv, Between
  <2>1. CASE v = w
    BY <1>1, <1>2, <1>3, <1>4, <2>1
  <2>2. CASE v # w
    <3>1. handler'[v] = handler[v] /\ handler[v].seq \in Nat
      BY <1>1, <1>2, <2>2
    <3>2. /\ handler[v].node \in 1..joined
          /\ Between(0, handler[v].node, Departed)
          /\ handler[v].seq < Len(events[handler[v].node])
      BY <3>1 DEF IInv, HandlersInv
    <3>3. handler[v].node \in Nodes
      BY <3>2, ChainAssumption
      DEF Nodes, IInv, ReconfigurationTypeOK, ReconfigurationTypes
    <3>. QED BY <1>2, <1>3, <3>1, <3>2, <3>3
  <2>. QED BY <2>1, <2>2
<1>12. AbsentInv'
  <2>1. \A k \in Nodes : k > joined => k # n
    BY <1>4, <1>5
  <2>. QED BY <1>3, <1>5, <1>7, <2>1 DEF IInv, AbsentInv
<1>13. LifeInv'
  BY <1>5, <1>7 DEF IInv, LifeInv
<1>. QED BY <1>5, <1>6, <1>8, <1>9, <1>10, <1>11, <1>12, <1>13
     DEF IInv, ReconfigurationTypeOK

(* The handler goes on: its node, its number and the events stay. *)
LEMMA HandlerMoves ==
  ASSUME IInv, NEW w \in Writes, handler[w].pc # "idle", NEW pc \in HandlerStates,
         handler' = [handler EXCEPT ![w].pc = pc],
         Departed' = Departed, UNCHANGED <<joined, events, channel>>
  PROVE  ClientTypes' /\ HandlersInv'
<1>1. handler \in [Writes -> [pc : HandlerStates,
                              node : Nodes \cup {Nil}, seq : Nat]]
  BY DEF IInv, ReconfigurationTypeOK, TypeOK, ClientTypes
<1>2. /\ handler' \in [Writes -> [pc : HandlerStates,
                                  node : Nodes \cup {Nil}, seq : Nat]]
      /\ \A v \in Writes : /\ handler'[v].node = handler[v].node
                           /\ handler'[v].seq = handler[v].seq
                           /\ handler'[v].pc # "idle" => handler[v].pc # "idle"
  <2>1. /\ handler'[w] = [handler[w] EXCEPT !.pc = pc]
        /\ \A v \in Writes : v # w => handler'[v] = handler[v]
    BY <1>1
  <2>2. /\ handler'[w] \in [pc : HandlerStates, node : Nodes \cup {Nil}, seq : Nat]
        /\ handler'[w].node = handler[w].node /\ handler'[w].seq = handler[w].seq
    BY <1>1, <2>1
  <2>. QED BY <1>1, <2>1, <2>2
<1>3. ClientTypes'
  BY <1>2 DEF IInv, ReconfigurationTypeOK, TypeOK, ClientTypes
<1>4. HandlersInv'
  BY <1>2 DEF IInv, HandlersInv, Between
<1>. QED BY <1>3, <1>4

LEMMA HandlerOnlyKeeps ==
  ASSUME IInv, NEW w \in Writes, OpenAckChannel(w) \/ ReceiveResult(w),
         UNCHANGED reconfigurationVars
  PROVE  IInv'
<1>1. /\ handler[w].pc # "idle"
      /\ \E pc \in HandlerStates : handler' = [handler EXCEPT ![w].pc = pc]
      /\ UNCHANGED <<neighbours, events, eventVars, ackVars, channel, faults, down>>
  BY DEF OpenAckChannel, ReceiveResult, HandlerStates
<1>2. UNCHANGED <<events, nextEventSeq, eventQueue, replicator, outgoing,
                  lateEvents, lastConfirmed, nextAckSeq, ackQueue,
                  ackProcessor, applied, lateAcks, channel, faults, down,
                  predecessor, joined, chain, stopped, sync>>
  BY <1>1 DEF eventVars, ackVars, neighbours, reconfigurationVars
<1>3. /\ Departed' = Departed
      /\ predecessor' \in [Nodes -> Nodes \cup {Nil}]
      /\ successor' \in [Nodes -> Nodes \cup {Nil}]
      /\ ReconfigurationTypes' /\ ChainInv' /\ WiringInv'
  BY <1>1, StepFrame
<1>4. ClientTypes' /\ HandlersInv'
  BY <1>1, <1>2, <1>3, HandlerMoves
<1>5. EventTypes' /\ SendInv' /\ OrderInv' /\ AbsentInv'
  <2>1. /\ EventTypes /\ replicator \in [Nodes -> ReplicatorStates]
        /\ eventQueue \in [Nodes -> SUBSET Event]
        /\ outgoing \in [Nodes -> SUBSET Event]
    BY DEF IInv, ReconfigurationTypeOK, TypeOK, EventTypes
  <2>. QED BY <1>2, <1>3, <2>1, EventsFrame DEF IInv
<1>6. AckTypes' /\ ConfirmInv' /\ LateAcksInv'
  <2>1. AckTypes /\ ackProcessor \in [Nodes -> AckProcessorStates]
    BY DEF IInv, ReconfigurationTypeOK, TypeOK, AckTypes
  <2>. QED BY <1>2, <1>3, <2>1, AcksFrame DEF IInv
<1>7. SyncInv' /\ LifeInv'
  BY <1>2, <1>3, SyncFrame, LifeFrame DEF IInv
<1>. QED BY <1>2, <1>3, <1>4, <1>5, <1>6, <1>7
     DEF IInv, ReconfigurationTypeOK, TypeOK

LEMMA BufferOwnEventKeeps ==
  ASSUME IInv, NEW w \in Writes, BufferOwnEvent(w),
         UNCHANGED reconfigurationVars
  PROVE  IInv'
<1>. PICK n : n = handler[w].node
  OBVIOUS
<1>. PICK e : e = [seq |-> handler[w].seq, write |-> w]
  OBVIOUS
<1>1. /\ handler[w].pc # "idle"
      /\ handler' = [handler EXCEPT ![w].pc = "waiting"]
      /\ BufferEvent(n, e, replicator)
      /\ UNCHANGED <<neighbours, events, nextEventSeq, outgoing, lateEvents,
                     ackVars, channel, faults, down>>
  BY DEF BufferOwnEvent
<1>2. UNCHANGED <<events, nextEventSeq, outgoing, lateEvents, lastConfirmed,
                  nextAckSeq, ackQueue, ackProcessor, applied, lateAcks,
                  channel, faults, down, predecessor, joined, chain, stopped,
                  sync>>
  BY <1>1 DEF ackVars, neighbours, reconfigurationVars
<1>3. /\ Departed' = Departed /\ joined \in Nat
      /\ predecessor' \in [Nodes -> Nodes \cup {Nil}]
      /\ successor' \in [Nodes -> Nodes \cup {Nil}]
      /\ ReconfigurationTypes' /\ ChainInv' /\ WiringInv'
  BY <1>1, StepFrame
<1>4. ClientTypes' /\ HandlersInv'
  <2>1. "waiting" \in HandlerStates
    BY DEF HandlerStates
  <2>. QED BY <1>1, <1>2, <1>3, <2>1, HandlerMoves
<1>5. /\ n \in Nodes /\ n <= joined /\ e \in Event
      /\ \A p \in Nodes : p < n /\ p \notin Departed => e.seq < Len(events[p])
  <2>1. n \in 1..joined /\ Between(0, n, Departed)
    BY <1>1 DEF IInv, HandlersInv
  <2>2. \A p \in Nodes : p < n => p \in Departed
    <3>1. \A p \in Nodes : p \in Nat /\ 0 < p
      BY ChainAssumption DEF Nodes
    <3>. QED BY <2>1, <3>1 DEF Between
  <2>3. n \in Nodes
    BY <2>1, ChainAssumption
    DEF Nodes, IInv, ReconfigurationTypeOK, ReconfigurationTypes
  <2>4. e \in Event
    BY DEF Event, IInv, ReconfigurationTypeOK, TypeOK, ClientTypes
  <2>. QED BY <1>3, <2>1, <2>2, <2>3, <2>4
<1>6. EventTypes' /\ SendInv' /\ OrderInv' /\ AbsentInv'
  <2>1. /\ replicator \in [Nodes -> ReplicatorStates]
        /\ outgoing' \in [Nodes -> SUBSET Event]
    BY <1>2 DEF IInv, ReconfigurationTypeOK, TypeOK, EventTypes
  <2>. QED BY <1>1, <1>2, <1>5, <2>1, BufferEventKeeps
<1>7. AckTypes' /\ ConfirmInv' /\ LateAcksInv'
  <2>1. AckTypes /\ ackProcessor \in [Nodes -> AckProcessorStates]
    BY DEF IInv, ReconfigurationTypeOK, TypeOK, AckTypes
  <2>. QED BY <1>2, <1>3, <2>1, AcksFrame DEF IInv
<1>8. SyncInv' /\ LifeInv'
  BY <1>2, <1>3, SyncFrame, LifeFrame DEF IInv
<1>. QED BY <1>2, <1>3, <1>4, <1>6, <1>7, <1>8
     DEF IInv, ReconfigurationTypeOK, TypeOK

-----------------------------------------------------------------------------
(* The event replicator. *)

(* A step that moves events between queues. *)
LEMMA EventStep ==
  ASSUME IInv,
         UNCHANGED <<neighbours, events, ackVars, clientVars, down,
                     reconfigurationVars>>,
         faults' \in 0..MaxFaults,
         EventTypes', SendInv', OrderInv', AbsentInv'
  PROVE  IInv'
<1>1. UNCHANGED <<lastConfirmed, nextAckSeq, ackQueue, ackProcessor, applied,
                  lateAcks, sync>>
  BY DEF ackVars, reconfigurationVars
<1>2. /\ Departed' = Departed /\ joined' = joined /\ joined \in Nat
      /\ predecessor' \in [Nodes -> Nodes \cup {Nil}]
      /\ successor' \in [Nodes -> Nodes \cup {Nil}]
      /\ ReconfigurationTypes' /\ ChainInv' /\ WiringInv'
  BY StepFrame
<1>3. ClientTypes' /\ HandlersInv'
  BY <1>2, ClientFrame DEF IInv, ReconfigurationTypeOK, TypeOK
<1>4. AckTypes' /\ ConfirmInv' /\ LateAcksInv'
  <2>1. AckTypes /\ ackProcessor \in [Nodes -> AckProcessorStates]
    BY DEF IInv, ReconfigurationTypeOK, TypeOK, AckTypes
  <2>. QED BY <1>1, <1>2, <2>1, AcksFrame DEF IInv
<1>5. SyncInv' /\ LifeInv'
  BY <1>1, <1>2, SyncFrame, LifeFrame DEF IInv
<1>. QED BY <1>2, <1>3, <1>4, <1>5 DEF IInv, ReconfigurationTypeOK, TypeOK

(* A step of the replicator alone, which may drop the event it has. *)
LEMMA ReplicatorOnlyKeeps ==
  ASSUME IInv, NEW n \in Nodes,
         NEW pc \in ReplicatorStates, replicator' = [replicator EXCEPT ![n] = pc],
         outgoing' = outgoing \/ outgoing' = [outgoing EXCEPT ![n] = {}],
         UNCHANGED <<neighbours, events, nextEventSeq, eventQueue, lateEvents,
                     ackVars, clientVars, faults, down, reconfigurationVars>>
  PROVE  IInv'
<1>1. /\ EventTypes /\ replicator' \in [Nodes -> ReplicatorStates]
      /\ eventQueue' \in [Nodes -> SUBSET Event]
      /\ outgoing' \in [Nodes -> SUBSET Event]
      /\ \A k \in Nodes : outgoing'[k] \subseteq outgoing[k]
      /\ faults' \in 0..MaxFaults
  BY DEF IInv, ReconfigurationTypeOK, TypeOK, EventTypes
<1>2. Departed' = Departed /\ joined' = joined /\ predecessor' = predecessor
  BY StepFrame DEF neighbours
<1>3. EventTypes' /\ SendInv' /\ OrderInv' /\ AbsentInv'
  BY <1>1, <1>2, EventsFrame DEF IInv
<1>. QED BY <1>1, <1>3, EventStep

LEMMA ReplicatorWaitsKeeps ==
  ASSUME IInv, NEW n \in Nodes,
         \/ FindNoEvent(n) /\ UNCHANGED reconfigurationVars
         \/ BlockReplicator(n) /\ UNCHANGED reconfigurationVars
         \/ ReplicateToDead(n)
         \/ StopReplicator(n)
  PROVE  IInv'
<1>1. /\ \E pc \in ReplicatorStates : replicator' = [replicator EXCEPT ![n] = pc]
      /\ outgoing' = outgoing \/ outgoing' = [outgoing EXCEPT ![n] = {}]
      /\ UNCHANGED <<neighbours, events, nextEventSeq, eventQueue, lateEvents,
                     ackVars, clientVars, faults, down, reconfigurationVars>>
  <2>1. {"park", "wait", "scan", "stopped"} \subseteq ReplicatorStates
    BY DEF ReplicatorStates
  <2>2. CASE FindNoEvent(n) /\ UNCHANGED reconfigurationVars
    BY <2>1, <2>2 DEF FindNoEvent
  <2>3. CASE BlockReplicator(n) /\ UNCHANGED reconfigurationVars
    BY <2>1, <2>3 DEF BlockReplicator
  <2>4. CASE ReplicateToDead(n)
    BY <2>1, <2>4 DEF ReplicateToDead
  <2>5. CASE StopReplicator(n)
    BY <2>1, <2>5 DEF StopReplicator
  <2>. QED BY <2>2, <2>3, <2>4, <2>5
<1>. QED BY <1>1, ReplicatorOnlyKeeps

LEMMA TakeNextEventKeeps ==
  ASSUME IInv, NEW n \in Nodes, TakeNextEvent(n), UNCHANGED reconfigurationVars
  PROVE  IInv'
<1>. PICK e \in NextEvents(n) :
       /\ eventQueue' = [eventQueue EXCEPT ![n] = @ \ {e}]
       /\ nextEventSeq' = [nextEventSeq EXCEPT ![n] = @ + 1]
       /\ outgoing' = [outgoing EXCEPT ![n] = {e}]
       /\ replicator' = [replicator EXCEPT ![n] = "send"]
       /\ events' = IF e.seq = Len(events[n])
                    THEN [events EXCEPT ![n] = Append(@, e.write)]
                    ELSE events
       /\ down' = IF e.seq > Len(events[n]) THEN down \cup {n} ELSE down
  BY DEF TakeNextEvent
<1>1. n \notin down /\ UNCHANGED <<neighbours, ackVars, clientVars, lateEvents, faults>>
  BY DEF TakeNextEvent
<1>2. /\ EventTypes
      /\ \A k \in Nodes : /\ events[k] \in Seq(Writes) /\ Len(events[k]) \in Nat
                          /\ nextEventSeq[k] \in Nat
                          /\ eventQueue[k] \subseteq Event /\ outgoing[k] \subseteq Event
  BY NodeTypes DEF IInv, ReconfigurationTypeOK, TypeOK
<1>3. /\ e \in eventQueue[n] /\ e \in Event /\ e.seq = nextEventSeq[n]
      /\ e.seq \in Nat /\ e.write \in Writes /\ e.seq <= Len(events[n])
  <2>1. e \in eventQueue[n] /\ e.seq = nextEventSeq[n]
    BY DEF NextEvents
  <2>. QED BY <1>2, <2>1 DEF IInv, SendInv, Event
<1>4. down' = down
  BY <1>2, <1>3
<1>5. /\ events' \in [Nodes -> Seq(Writes)]
      /\ \A k \in Nodes : k # n => events'[k] = events[k]
      /\ Len(events'[n]) = IF e.seq = Len(events[n])
                           THEN Len(events[n]) + 1 ELSE Len(events[n])
      /\ \A k \in Nodes : Len(events'[k]) \in Nat /\ Len(events[k]) <= Len(events'[k])
  <2>1. CASE e.seq = Len(events[n])
    BY <1>2, <1>3, <2>1 DEF EventTypes
  <2>2. CASE e.seq # Len(events[n])
    BY <1>2, <1>3, <2>2 DEF EventTypes
  <2>. QED BY <2>1, <2>2
<1>6. e.seq < Len(events'[n])
  BY <1>2, <1>3, <1>5
<1>7. /\ Departed' = Departed /\ joined \in Nat /\ joined' = joined
      /\ predecessor' \in [Nodes -> Nodes \cup {Nil}]
      /\ successor' \in [Nodes -> Nodes \cup {Nil}]
      /\ ReconfigurationTypes' /\ ChainInv' /\ WiringInv'
  BY <1>1, StepFrame
<1>8. AckTypes' /\ ConfirmInv' /\ SyncInv' /\ LateAcksInv'
  BY <1>1, <1>5, GrowthFrame
<1>9. EventTypes'
  <2>1. nextEventSeq' \in [Nodes -> Nat] /\ replicator' \in [Nodes -> ReplicatorStates]
    BY DEF IInv, ReconfigurationTypeOK, TypeOK, EventTypes, ReplicatorStates
  <2>2. /\ eventQueue' \in [Nodes -> SUBSET Event]
        /\ outgoing' \in [Nodes -> SUBSET Event]
        /\ lateEvents' \subseteq [to : Nodes, event : Event]
    BY <1>1, <1>3 DEF IInv, ReconfigurationTypeOK, TypeOK, EventTypes
  <2>. QED BY <1>5, <2>1, <2>2 DEF EventTypes
<1>10. ClientTypes' /\ HandlersInv'
  <2>1. UNCHANGED <<handler, channel>>
    BY <1>1 DEF clientVars
  <2>2. \A v \in Writes : handler[v].pc # "idle" =>
          handler[v].node \in Nodes /\ handler[v].seq \in Nat
    <3>1. 1..joined \subseteq Nodes
      BY <1>7, ChainAssumption
      DEF Nodes, IInv, ReconfigurationTypeOK, ReconfigurationTypes
    <3>. QED BY <3>1 DEF IInv, HandlersInv, ReconfigurationTypeOK, TypeOK, ClientTypes
  <2>3. HandlersInv'
    BY <1>2, <1>5, <1>7, <2>1, <2>2 DEF IInv, HandlersInv, Between
  <2>. QED BY <2>1, <2>3 DEF IInv, ReconfigurationTypeOK, TypeOK, ClientTypes
<1>11. SendInv'
  <2>. SUFFICES ASSUME NEW k \in Nodes
       PROVE  /\ nextEventSeq'[k] <= Len(events'[k])
              /\ \A f \in outgoing'[k] : f.seq < Len(events'[k])
    BY DEF SendInv
  <2>1. CASE k = n
    <3>1. nextEventSeq'[n] = nextEventSeq[n] + 1 /\ outgoing'[n] = {e}
      BY DEF IInv, ReconfigurationTypeOK, TypeOK, EventTypes
    <3>. QED BY <1>2, <1>3, <1>5, <1>6, <2>1, <3>1
  <2>2. CASE k # n
    <3>1. nextEventSeq'[k] = nextEventSeq[k] /\ outgoing'[k] = outgoing[k]
      BY <2>2 DEF IInv, ReconfigurationTypeOK, TypeOK, EventTypes
    <3>. QED BY <1>5, <2>2, <3>1 DEF IInv, SendInv
  <2>. QED BY <2>1, <2>2
<1>12. \A k \in Nodes : eventQueue'[k] \subseteq eventQueue[k]
  BY DEF IInv, ReconfigurationTypeOK, TypeOK, EventTypes
<1>13. OrderInv'
  <2>. SUFFICES ASSUME NEW p \in Nodes, NEW q \in Nodes, p < q, p \notin Departed
       PROVE  /\ Len(events'[q]) <= Len(events'[p])
              /\ \A f \in eventQueue'[q] : f.seq < Len(events'[p])
              /\ \A m \in lateEvents' : m.to = q => m.event.seq < Len(events'[p])
    BY <1>7 DEF OrderInv
  <2>1. /\ Len(events[q]) <= Len(events[p])
        /\ \A f \in eventQueue[q] : f.seq < Len(events[p])
        /\ \A m \in lateEvents : m.to = q => m.event.seq < Len(events[p])
    BY DEF IInv, OrderInv
  <2>2. /\ \A f \in eventQueue[q] : f.seq \in Nat
        /\ \A m \in lateEvents : m.event.seq \in Nat
    BY <1>2 DEF EventTypes, Event
  <2>3. Len(events'[q]) <= Len(events'[p])
    <3>1. CASE q = n
      <4>1. e.seq < Len(events[p])
        BY <1>3, <2>1, <3>1
      <4>2. p # n
        BY <3>1, ChainAssumption DEF Nodes
      <4>. QED BY <1>2, <1>3, <1>5, <2>1, <3>1, <4>1, <4>2
    <3>2. CASE q # n
      BY <1>2, <1>5, <2>1, <3>2
    <3>. QED BY <3>1, <3>2
  <2>4. \A f \in eventQueue'[q] : f.seq < Len(events'[p])
    BY <1>2, <1>5, <1>12, <2>1, <2>2
  <2>5. \A m \in lateEvents' : m.to = q => m.event.seq < Len(events'[p])
    BY <1>1, <1>2, <1>5, <2>1, <2>2
  <2>. QED BY <2>3, <2>4, <2>5
<1>14. AbsentInv'
  <2>1. \A k \in Nodes : k > joined => k # n
    BY <1>1, RunningHasJoined
  <2>. QED BY <1>1, <1>4, <1>5, <1>7, <1>12, <2>1 DEF IInv, AbsentInv, neighbours
<1>15. LifeInv'
  BY <1>4, <1>7 DEF IInv, LifeInv
<1>. QED BY <1>1, <1>4, <1>7, <1>8, <1>9, <1>10, <1>11, <1>13, <1>14, <1>15
     DEF IInv, ReconfigurationTypeOK, TypeOK

LEMMA ReplicateAtTailKeeps ==
  ASSUME IInv, NEW n \in Nodes, ReplicateAtTail(n), UNCHANGED reconfigurationVars
  PROVE  IInv'
<1>. PICK e \in outgoing[n] : BufferAck(n, e.seq, ackProcessor)
  BY DEF ReplicateAtTail
<1>1. /\ n \notin down
      /\ outgoing' = [outgoing EXCEPT ![n] = {}]
      /\ replicator' = [replicator EXCEPT ![n] = "scan"]
      /\ UNCHANGED <<neighbours, events, nextEventSeq, eventQueue, lateEvents,
                     lastConfirmed, nextAckSeq, applied, lateAcks, clientVars,
                     faults>>
  BY DEF ReplicateAtTail
<1>2. e.seq \in Nat /\ e.seq < Len(events[n])
  BY NodeTypes DEF IInv, ReconfigurationTypeOK, SendInv, Event
<1>3. /\ Departed' = Departed /\ joined' = joined /\ joined \in Nat
      /\ UNCHANGED <<chain, stopped>>
      /\ predecessor' \in [Nodes -> Nodes \cup {Nil}]
      /\ successor' \in [Nodes -> Nodes \cup {Nil}]
      /\ ReconfigurationTypes' /\ ChainInv' /\ WiringInv'
  BY <1>1, StepFrame
<1>4. /\ AckTypes' /\ ConfirmInv' /\ LateAcksInv'
      /\ down \subseteq down' /\ down' \subseteq Nodes
      /\ LifeInv'
  <2>1. ackProcessor \in [Nodes -> AckProcessorStates]
    BY DEF IInv, ReconfigurationTypeOK, TypeOK, AckTypes
  <2>2. n <= joined
    BY <1>1, RunningHasJoined
  <2>. QED BY <1>1, <1>2, <1>3, <2>1, <2>2, BufferAckKeeps
<1>5. EventTypes' /\ SendInv' /\ OrderInv' /\ AbsentInv'
  <2>1. /\ EventTypes /\ replicator' \in [Nodes -> ReplicatorStates]
        /\ eventQueue' \in [Nodes -> SUBSET Event]
        /\ outgoing' \in [Nodes -> SUBSET Event]
        /\ \A k \in Nodes : outgoing'[k] \subseteq outgoing[k]
    BY <1>1 DEF IInv, ReconfigurationTypeOK, TypeOK, EventTypes, ReplicatorStates
  <2>. QED BY <1>1, <1>3, <1>4, <2>1, EventsFrame DEF IInv, neighbours
<1>6. ClientTypes' /\ HandlersInv'
  BY <1>1, <1>3, ClientFrame DEF IInv, ReconfigurationTypeOK, TypeOK
<1>7. SyncInv'
  BY <1>1, <1>3, SyncFrame DEF IInv, reconfigurationVars
<1>. QED BY <1>1, <1>3, <1>4, <1>5, <1>6, <1>7
     DEF IInv, ReconfigurationTypeOK, TypeOK

LEMMA ReplicateToSuccessorKeeps ==
  ASSUME IInv, NEW n \in Nodes, ReplicateToSuccessor(n),
         UNCHANGED reconfigurationVars
  PROVE  IInv'
<1>. DEFINE m == successor[n]
            states == [replicator EXCEPT ![n] = "scan"]
<1>. PICK e \in outgoing[n] : BufferEvent(m, e, states)
  BY DEF ReplicateToSuccessor
<1>1. /\ m # Nil
      /\ outgoing' = [outgoing EXCEPT ![n] = {}]
      /\ UNCHANGED <<neighbours, events, nextEventSeq, lateEvents, ackVars,
                     clientVars, faults, down>>
  BY DEF ReplicateToSuccessor, IsTail
<1>2. /\ Departed' = Departed /\ joined' = joined
      /\ UNCHANGED <<chain, stopped, predecessor>>
  BY <1>1, StepFrame DEF neighbours
<1>3. m \in Nodes /\ m <= joined /\ Precedes(n, m, Departed)
  BY <1>1 DEF IInv, WiringInv, MayConnect, ReconfigurationTypeOK, TypeOK
<1>4. e \in Event /\ e.seq \in Nat /\ e.seq < Len(events[n])
  BY NodeTypes DEF IInv, ReconfigurationTypeOK, SendInv, Event
<1>5. \A p \in Nodes : p < m /\ p \notin Departed => e.seq < Len(events[p])
  BY <1>3, <1>4, HasPassed
<1>6. /\ states \in [Nodes -> ReplicatorStates]
      /\ outgoing' \in [Nodes -> SUBSET Event]
      /\ \A k \in Nodes : outgoing'[k] \subseteq outgoing[k]
      /\ faults' \in 0..MaxFaults
  BY <1>1 DEF IInv, ReconfigurationTypeOK, TypeOK, EventTypes, ReplicatorStates
<1>. HIDE DEF m, states
<1>7. EventTypes' /\ SendInv' /\ OrderInv' /\ AbsentInv'
  BY <1>1, <1>2, <1>3, <1>4, <1>5, <1>6, BufferEventKeeps
<1>. QED BY <1>1, <1>6, <1>7, EventStep

LEMMA ReplicateTimesOutKeeps ==
  ASSUME IInv, NEW n \in Nodes, ReplicateTimesOut(n),
         UNCHANGED reconfigurationVars
  PROVE  IInv'
<1>. DEFINE q == successor[n]
            late == {[to |-> q, event |-> e] : e \in outgoing[n]}
<1>1. /\ q # Nil /\ faults < MaxFaults /\ faults' = faults + 1
      /\ lateEvents' = lateEvents \cup late
      /\ outgoing' = [outgoing EXCEPT ![n] = {}]
      /\ replicator' = [replicator EXCEPT ![n] = "scan"]
      /\ UNCHANGED <<neighbours, events, nextEventSeq, eventQueue, ackVars,
                     clientVars, down>>
  BY DEF ReplicateTimesOut, IsTail
<1>2. Departed' = Departed /\ joined' = joined /\ joined \in Nat /\ predecessor' = predecessor
  BY <1>1, StepFrame DEF neighbours
<1>3. q \in Nodes /\ q <= joined /\ Precedes(n, q, Departed)
  BY <1>1 DEF IInv, WiringInv, MayConnect, ReconfigurationTypeOK, TypeOK
<1>4. \A e \in outgoing[n] : e \in Event /\ e.seq \in Nat /\ e.seq < Len(events[n])
  BY NodeTypes DEF IInv, ReconfigurationTypeOK, SendInv, Event
<1>5. \A e \in outgoing[n] : \A p \in Nodes :
        p < q /\ p \notin Departed => e.seq < Len(events[p])
  BY <1>3, <1>4, HasPassed
<1>6. \A m \in late : \E e \in outgoing[n] : m.to = q /\ m.event = e
  OBVIOUS
<1>7. EventTypes'
  <2>1. /\ replicator' \in [Nodes -> ReplicatorStates]
        /\ outgoing' \in [Nodes -> SUBSET Event]
    BY <1>1 DEF IInv, ReconfigurationTypeOK, TypeOK, EventTypes, ReplicatorStates
  <2>2. late \subseteq [to : Nodes, event : Event]
    BY <1>3, <1>4
  <2>. HIDE DEF late
  <2>. QED BY <1>1, <2>1, <2>2 DEF IInv, ReconfigurationTypeOK, TypeOK, EventTypes
<1>. HIDE DEF late
<1>8. SendInv'
  BY <1>1 DEF IInv, SendInv, ReconfigurationTypeOK, TypeOK, EventTypes
<1>9. OrderInv'
  BY <1>1, <1>2, <1>5, <1>6 DEF IInv, OrderInv
<1>10. AbsentInv'
  <2>1. \A k \in Nodes : k > joined => k # q
    BY <1>2, <1>3, ChainAssumption DEF Nodes
  <2>. QED BY <1>1, <1>2, <1>6, <2>1 DEF IInv, AbsentInv
<1>11. faults' \in 0..MaxFaults
  BY <1>1, ChainAssumption DEF IInv, ReconfigurationTypeOK, TypeOK
<1>. QED BY <1>1, <1>7, <1>8, <1>9, <1>10, <1>11, EventStep

LEMMA DeliverLateEventKeeps ==
  ASSUME IInv, NEW m \in lateEvents, DeliverLateEvent(m),
         UNCHANGED reconfigurationVars
  PROVE  IInv'
<1>1. /\ m.to \notin down
      /\ lateEvents' = lateEvents \ {m}
      /\ BufferEvent(m.to, m.event, replicator)
      /\ UNCHANGED <<neighbours, events, nextEventSeq, outgoing, ackVars,
                     clientVars, faults, down>>
  BY DEF DeliverLateEvent
<1>2. /\ Departed' = Departed /\ joined' = joined
      /\ UNCHANGED <<chain, stopped, predecessor>>
  BY <1>1, StepFrame DEF neighbours
<1>3. m.to \in Nodes /\ m.event \in Event
  BY DEF IInv, ReconfigurationTypeOK, TypeOK, EventTypes
<1>4. m.to <= joined
  BY <1>1, <1>3, RunningHasJoined
<1>5. \A p \in Nodes : p < m.to /\ p \notin Departed => m.event.seq < Len(events[p])
  BY <1>3 DEF IInv, OrderInv
<1>6. /\ replicator \in [Nodes -> ReplicatorStates]
      /\ outgoing' \in [Nodes -> SUBSET Event]
      /\ faults' \in 0..MaxFaults
  BY <1>1 DEF IInv, ReconfigurationTypeOK, TypeOK, EventTypes
<1>7. EventTypes' /\ SendInv' /\ OrderInv' /\ AbsentInv'
  BY <1>1, <1>2, <1>3, <1>4, <1>5, <1>6, BufferEventKeeps
<1>. QED BY <1>1, <1>6, <1>7, EventStep

-----------------------------------------------------------------------------
(* The ACK processor. *)

(* A step that moves ACKs between queues, or answers a handler. *)
LEMMA AckStep ==
  ASSUME IInv,
         UNCHANGED <<neighbours, events, eventVars, handler,
                     reconfigurationVars>>,
         faults' \in 0..MaxFaults,
         channel' \in [Writes -> SUBSET Writes],
         AckTypes', ConfirmInv', LateAcksInv',
         down \subseteq down', down' \subseteq Nodes,
         down' \subseteq down \cup Departed
  PROVE  IInv'
<1>1. UNCHANGED <<nextEventSeq, eventQueue, replicator, outgoing, lateEvents,
                  predecessor, sync>>
  BY DEF eventVars, neighbours, reconfigurationVars
<1>2. /\ Departed' = Departed /\ joined' = joined /\ joined \in Nat
      /\ predecessor' \in [Nodes -> Nodes \cup {Nil}]
      /\ successor' \in [Nodes -> Nodes \cup {Nil}]
      /\ ReconfigurationTypes' /\ ChainInv' /\ WiringInv'
  BY StepFrame
<1>3. ClientTypes' /\ HandlersInv'
  <2>1. ClientTypes'
    BY DEF IInv, ReconfigurationTypeOK, TypeOK, ClientTypes
  <2>2. HandlersInv'
    BY <1>2 DEF IInv, HandlersInv, Between
  <2>. QED BY <2>1, <2>2
<1>4. EventTypes' /\ SendInv' /\ OrderInv' /\ AbsentInv'
  <2>1. /\ EventTypes /\ replicator \in [Nodes -> ReplicatorStates]
        /\ eventQueue \in [Nodes -> SUBSET Event]
        /\ outgoing \in [Nodes -> SUBSET Event]
    BY DEF IInv, ReconfigurationTypeOK, TypeOK, EventTypes
  <2>. QED BY <1>1, <1>2, <2>1, EventsFrame DEF IInv
<1>5. SyncInv' /\ LifeInv'
  BY <1>1, <1>2, SyncFrame, LifeFrame DEF IInv
<1>. QED BY <1>2, <1>3, <1>4, <1>5 DEF IInv, ReconfigurationTypeOK, TypeOK

(* A step of the processor alone, which lets go of its number if it has    *)
(* one.                                                                    *)
LEMMA ProcessorOnlyKeeps ==
  ASSUME IInv, NEW n \in Nodes, ackProcessor[n] # "confirm",
         NEW pc \in AckProcessorStates, ~Holds(pc),
         ackProcessor' = [ackProcessor EXCEPT ![n] = pc],
         UNCHANGED <<neighbours, events, eventVars, lastConfirmed, nextAckSeq,
                     ackQueue, applied, lateAcks, handler, faults, down,
                     reconfigurationVars>>,
         channel' \in [Writes -> SUBSET Writes]
  PROVE  IInv'
<1>1. /\ AckTypes /\ ackProcessor' \in [Nodes -> AckProcessorStates]
      /\ \A k \in Nodes : \/ ackProcessor'[k] = ackProcessor[k]
                          \/ /\ ackProcessor[k] # "confirm"
                             /\ ~Holds(ackProcessor'[k])
      /\ faults' \in 0..MaxFaults /\ down \subseteq Nodes
  BY DEF IInv, ReconfigurationTypeOK, TypeOK, AckTypes
<1>2. Departed' = Departed
  BY StepFrame
<1>3. AckTypes' /\ ConfirmInv' /\ LateAcksInv'
  BY <1>1, <1>2, AcksFrame DEF IInv
<1>. QED BY <1>1, <1>3, AckStep

LEMMA ProcessorWaitsKeeps ==
  ASSUME IInv, NEW n \in Nodes,
         \/ FindNoAck(n) /\ UNCHANGED reconfigurationVars
         \/ BlockAckProcessor(n) /\ UNCHANGED reconfigurationVars
         \/ AckToDead(n)
         \/ StopAckProcessor(n)
  PROVE  IInv'
<1>1. /\ ackProcessor[n] # "confirm"
      /\ \E pc \in AckProcessorStates :
           ~Holds(pc) /\ ackProcessor' = [ackProcessor EXCEPT ![n] = pc]
      /\ UNCHANGED <<neighbours, events, eventVars, lastConfirmed, nextAckSeq,
                     ackQueue, applied, lateAcks, clientVars, faults, down,
                     reconfigurationVars>>
  <2>1. \A pc \in {"park", "wait", "scan", "stopped"} :
          pc \in AckProcessorStates /\ ~Holds(pc)
    BY DEF AckProcessorStates, Holds
  <2>2. CASE FindNoAck(n) /\ UNCHANGED reconfigurationVars
    BY <2>1, <2>2 DEF FindNoAck
  <2>3. CASE BlockAckProcessor(n) /\ UNCHANGED reconfigurationVars
    BY <2>1, <2>3 DEF BlockAckProcessor
  <2>4. CASE AckToDead(n)
    BY <2>1, <2>4 DEF AckToDead
  <2>5. CASE StopAckProcessor(n)
    BY <2>1, <2>5 DEF StopAckProcessor
  <2>. QED BY <2>2, <2>3, <2>4, <2>5
<1>2. handler' = handler /\ channel' \in [Writes -> SUBSET Writes]
  BY <1>1 DEF clientVars, IInv, ReconfigurationTypeOK, TypeOK, ClientTypes
<1>. QED BY <1>1, <1>2, ProcessorOnlyKeeps

(* What is said of the ACK processor that holds a number. *)
LEMMA HeldNumber ==
  ASSUME IInv, NEW n \in Nodes, Holds(ackProcessor[n])
  PROVE  /\ AckSeq(n) \in Nat /\ AckSeq(n) < Len(events[n])
         /\ AckSeq(n) + 1 \in DOMAIN events[n]
         /\ events[n][AckSeq(n) + 1] \in Writes
<1>1. /\ nextAckSeq[n] \in 1..Len(events[n]) /\ Len(events[n]) \in Nat
      /\ events[n] \in Seq(Writes)
  BY NodeTypes DEF IInv, ConfirmInv, ReconfigurationTypeOK
<1>. QED BY <1>1 DEF AckSeq

LEMMA TakeNextAckKeeps ==
  ASSUME IInv, NEW n \in Nodes, TakeNextAck(n), UNCHANGED reconfigurationVars
  PROVE  IInv'
<1>1. /\ ackProcessor[n] = "scan" /\ nextAckSeq[n] \in ackQueue[n]
      /\ ackQueue' = [ackQueue EXCEPT ![n] = @ \ {nextAckSeq[n]}]
      /\ nextAckSeq' = [nextAckSeq EXCEPT ![n] = @ + 1]
      /\ ackProcessor' = [ackProcessor EXCEPT ![n] = "confirm"]
      /\ UNCHANGED <<neighbours, events, eventVars, lastConfirmed, applied,
                     lateAcks, handler, channel, faults, down>>
  BY DEF TakeNextAck, clientVars
<1>2. /\ AckTypes /\ faults' \in 0..MaxFaults /\ down \subseteq Nodes
      /\ channel' \in [Writes -> SUBSET Writes]
  BY <1>1 DEF IInv, ReconfigurationTypeOK, TypeOK, ClientTypes
<1>3. AckTypes'
  BY <1>1, <1>2 DEF AckTypes, AckProcessorStates
<1>4. ConfirmInv'
  <2>. SUFFICES ASSUME NEW k \in Nodes
       PROVE  /\ \A s \in ackQueue'[k] : s < Len(events[k])
              /\ Holds(ackProcessor'[k]) => nextAckSeq'[k] \in 1..Len(events[k])
              /\ lastConfirmed[k] = IF ackProcessor'[k] = "confirm"
                                    THEN nextAckSeq'[k] - 2
                                    ELSE nextAckSeq'[k] - 1
              /\ lastConfirmed[k] < Len(events[k])
    BY <1>1 DEF ConfirmInv
  <2>1. /\ ackQueue'[k] \subseteq ackQueue[k]
        /\ k # n => /\ ackProcessor'[k] = ackProcessor[k]
                    /\ nextAckSeq'[k] = nextAckSeq[k]
        /\ k = n => /\ ackProcessor'[k] = "confirm"
                    /\ nextAckSeq'[k] = nextAckSeq[k] + 1
    BY <1>1, <1>2 DEF AckTypes
  <2>2. CASE k = n
    <3>1. nextAckSeq[n] \in Nat /\ Len(events[n]) \in Nat /\ nextAckSeq[n] < Len(events[n])
      BY <1>1, NodeTypes DEF IInv, ConfirmInv, ReconfigurationTypeOK
    <3>2. lastConfirmed[n] = nextAckSeq[n] - 1
      BY <1>1 DEF IInv, ConfirmInv
    <3>. QED BY <2>1, <2>2, <3>1, <3>2 DEF IInv, ConfirmInv
  <2>3. CASE k # n
    BY <2>1, <2>3 DEF IInv, ConfirmInv
  <2>. QED BY <2>2, <2>3
<1>5. LateAcksInv'
  <2>1. Departed' = Departed
    BY <1>1, StepFrame
  <2>. QED BY <1>1, <2>1 DEF IInv, LateAcksInv
<1>. QED BY <1>1, <1>2, <1>3, <1>4, <1>5, AckStep

LEMMA ConfirmAckKeeps ==
  ASSUME IInv, NEW n \in Nodes, ConfirmAck(n), UNCHANGED reconfigurationVars
  PROVE  IInv'
<1>1. /\ ackProcessor[n] = "confirm"
      /\ ackProcessor' = [ackProcessor EXCEPT ![n] = "apply"]
      /\ UNCHANGED <<neighbours, events, eventVars, nextAckSeq, ackQueue,
                     applied, lateAcks, handler, channel, faults>>
  BY DEF ConfirmAck, clientVars
<1>2. /\ AckTypes /\ faults' \in 0..MaxFaults /\ down \subseteq Nodes
      /\ channel' \in [Writes -> SUBSET Writes]
  BY <1>1 DEF IInv, ReconfigurationTypeOK, TypeOK, ClientTypes
<1>3. /\ nextAckSeq[n] \in Nat /\ Len(events[n]) \in Nat
      /\ nextAckSeq[n] \in 1..Len(events[n])
      /\ lastConfirmed[n] = nextAckSeq[n] - 2
  BY <1>1, NodeTypes DEF IInv, ConfirmInv, Holds, ReconfigurationTypeOK
<1>4. /\ down' = down
      /\ lastConfirmed' = [lastConfirmed EXCEPT ![n] = @ + 1]
  <2>1. /\ ~(AckSeq(n) <= lastConfirmed[n])
        /\ AckSeq(n) = lastConfirmed[n] + 1 /\ AckSeq(n) < Len(events[n])
    BY <1>3 DEF AckSeq
  <2>. QED BY <2>1 DEF ConfirmAck
<1>5. AckTypes'
  <2>1. lastConfirmed' \in [Nodes -> Nat \cup {-1}]
    BY <1>2, <1>3, <1>4 DEF AckTypes
  <2>. QED BY <1>1, <1>2, <2>1 DEF AckTypes, AckProcessorStates
<1>6. ConfirmInv'
  <2>. SUFFICES ASSUME NEW k \in Nodes
       PROVE  /\ \A s \in ackQueue[k] : s < Len(events[k])
              /\ Holds(ackProcessor'[k]) => nextAckSeq[k] \in 1..Len(events[k])
              /\ lastConfirmed'[k] = IF ackProcessor'[k] = "confirm"
                                     THEN nextAckSeq[k] - 2
                                     ELSE nextAckSeq[k] - 1
              /\ lastConfirmed'[k] < Len(events[k])
    BY <1>1 DEF ConfirmInv
  <2>1. /\ k # n => /\ ackProcessor'[k] = ackProcessor[k]
                    /\ lastConfirmed'[k] = lastConfirmed[k]
        /\ k = n => /\ ackProcessor'[k] = "apply"
                    /\ lastConfirmed'[k] = lastConfirmed[k] + 1
    BY <1>1, <1>2, <1>4 DEF AckTypes
  <2>2. CASE k = n
    BY <1>3, <2>1, <2>2 DEF IInv, ConfirmInv
  <2>3. CASE k # n
    BY <2>1, <2>3 DEF IInv, ConfirmInv
  <2>. QED BY <2>2, <2>3
<1>7. LateAcksInv'
  <2>1. Departed' = Departed
    BY <1>1, StepFrame
  <2>. QED BY <1>1, <2>1 DEF IInv, LateAcksInv
<1>. QED BY <1>1, <1>2, <1>4, <1>5, <1>6, <1>7, AckStep

LEMMA ApplyKeeps ==
  ASSUME IInv, NEW n \in Nodes, Apply(n), UNCHANGED reconfigurationVars
  PROVE  IInv'
<1>1. /\ ackProcessor[n] = "apply"
      /\ applied' = [applied EXCEPT ![n] = Append(@, events[n][AckSeq(n) + 1])]
      /\ ackProcessor' = [ackProcessor EXCEPT ![n] = "send"]
      /\ UNCHANGED <<neighbours, events, eventVars, lastConfirmed, nextAckSeq,
                     ackQueue, lateAcks, handler, channel, faults, down>>
  BY DEF Apply, clientVars
<1>2. /\ AckTypes /\ faults' \in 0..MaxFaults /\ down \subseteq Nodes
      /\ channel' \in [Writes -> SUBSET Writes]
  BY <1>1 DEF IInv, ReconfigurationTypeOK, TypeOK, ClientTypes
<1>3. AckTypes'
  <2>1. events[n][AckSeq(n) + 1] \in Writes
    BY <1>1, HeldNumber DEF Holds
  <2>2. applied' \in [Nodes -> Seq(Writes)]
    BY <1>1, <1>2, <2>1 DEF AckTypes
  <2>. QED BY <1>1, <1>2, <2>2 DEF AckTypes, AckProcessorStates
<1>4. ConfirmInv'
  <2>1. \A k \in Nodes : \/ ackProcessor'[k] = ackProcessor[k]
                         \/ k = n /\ ackProcessor'[k] = "send"
    BY <1>1, <1>2 DEF AckTypes
  <2>. QED BY <1>1, <2>1 DEF IInv, ConfirmInv, Holds
<1>5. LateAcksInv'
  <2>1. Departed' = Departed
    BY <1>1, StepFrame
  <2>. QED BY <1>1, <2>1 DEF IInv, LateAcksInv
<1>. QED BY <1>1, <1>2, <1>3, <1>4, <1>5, AckStep

LEMMA SignalAtHeadKeeps ==
  ASSUME IInv, NEW n \in Nodes, SignalAtHead(n), UNCHANGED reconfigurationVars
  PROVE  IInv'
<1>1. /\ ackProcessor[n] = "send"
      /\ channel' = [w \in Writes |->
           IF w \in AckedHandler(n)
           THEN channel[w] \cup {events[n][AckSeq(n) + 1]}
           ELSE channel[w]]
      /\ ackProcessor' = [ackProcessor EXCEPT ![n] = "scan"]
      /\ UNCHANGED <<neighbours, events, eventVars, lastConfirmed, nextAckSeq,
                     ackQueue, applied, lateAcks, handler, faults, down>>
  BY DEF SignalAtHead
<1>2. channel' \in [Writes -> SUBSET Writes]
  <2>1. channel \in [Writes -> SUBSET Writes]
    BY DEF IInv, ReconfigurationTypeOK, TypeOK, ClientTypes
  <2>2. events[n][AckSeq(n) + 1] \in Writes
    BY <1>1, HeldNumber DEF Holds
  <2>. QED BY <1>1, <2>1, <2>2
<1>3. "scan" \in AckProcessorStates /\ ~Holds("scan")
  BY DEF AckProcessorStates, Holds
<1>. QED BY <1>1, <1>2, <1>3, ProcessorOnlyKeeps

(* An ACK that n hands on is one its predecessor has, if that is in the    *)
(* chain.                                                                  *)
LEMMA HandedOn ==
  ASSUME IInv, NEW n \in Nodes, n \notin down, predecessor[n] # Nil,
         Holds(ackProcessor[n])
  PROVE  LET m == predecessor[n]
         IN  /\ m \in Nodes /\ m <= joined
             /\ m \in Departed \/ AckSeq(n) < Len(events[m])
<1>. DEFINE m == predecessor[n]
<1>1. n \in 1..joined /\ joined \in Nat
  BY RunningHasJoined
<1>2. m \in Nodes /\ Precedes(m, n, Departed)
  BY <1>1 DEF IInv, WiringInv, ReconfigurationTypeOK, TypeOK
<1>3. m \in Int /\ m < n
  BY <1>2, ChainAssumption DEF Precedes, Nodes
<1>4. m \notin Departed => Len(events[n]) <= Len(events[m])
  BY <1>2, <1>3 DEF IInv, OrderInv
<1>5. Len(events[n]) \in Nat /\ Len(events[m]) \in Nat
  BY <1>2, NodeTypes DEF IInv, ReconfigurationTypeOK
<1>6. AckSeq(n) \in Nat /\ AckSeq(n) < Len(events[n])
  BY HeldNumber
<1>. QED BY <1>1, <1>2, <1>3, <1>4, <1>5, <1>6

LEMMA AckToPredecessorKeeps ==
  ASSUME IInv, NEW n \in Nodes, AckToPredecessor(n),
         UNCHANGED reconfigurationVars
  PROVE  IInv'
<1>. DEFINE m == predecessor[n]
            seq == AckSeq(n)
            states == [ackProcessor EXCEPT ![n] = "scan"]
<1>1. /\ n \notin down /\ m # Nil /\ ackProcessor[n] = "send"
      /\ BufferAck(m, seq, states)
      /\ UNCHANGED <<neighbours, events, eventVars, lastConfirmed, nextAckSeq,
                     applied, lateAcks, handler, channel, faults>>
  BY DEF AckToPredecessor, IsHead, clientVars
<1>2. /\ m \in Nodes /\ m <= joined /\ (m \in Departed \/ seq < Len(events[m]))
      /\ seq \in Nat
  BY <1>1, HandedOn, HeldNumber DEF Holds
<1>3. UNCHANGED <<chain, joined, stopped>>
  BY DEF reconfigurationVars
<1>4. /\ states \in [Nodes -> AckProcessorStates]
      /\ \A k \in Nodes : \/ states[k] = ackProcessor[k]
                          \/ /\ ackProcessor[k] # "confirm"
                             /\ ~Holds(states[k])
  BY <1>1 DEF IInv, ReconfigurationTypeOK, TypeOK, AckTypes, AckProcessorStates, Holds
<1>5. faults' \in 0..MaxFaults /\ channel' \in [Writes -> SUBSET Writes]
  BY <1>1 DEF IInv, ReconfigurationTypeOK, TypeOK, ClientTypes
<1>. HIDE DEF m, seq, states
<1>6. /\ AckTypes' /\ ConfirmInv' /\ LateAcksInv'
      /\ down \subseteq down' /\ down' \subseteq Nodes
      /\ down' \subseteq down \cup Departed
  BY <1>1, <1>2, <1>3, <1>4, BufferAckKeeps
<1>. QED BY <1>1, <1>5, <1>6, AckStep

LEMMA AckTimesOutKeeps ==
  ASSUME IInv, NEW n \in Nodes, AckTimesOut(n), UNCHANGED reconfigurationVars
  PROVE  IInv'
<1>. PICK a : a = [to |-> predecessor[n], seq |-> AckSeq(n)]
  OBVIOUS
<1>1. /\ n \notin down /\ predecessor[n] # Nil /\ ackProcessor[n] = "send"
      /\ faults < MaxFaults /\ faults' = faults + 1
      /\ lateAcks' = lateAcks \cup {a}
      /\ ackProcessor' = [ackProcessor EXCEPT ![n] = "scan"]
      /\ UNCHANGED <<neighbours, events, eventVars, lastConfirmed, nextAckSeq,
                     ackQueue, applied, handler, channel, down>>
  BY DEF AckTimesOut, IsHead, clientVars
<1>2. /\ a.to \in Nodes /\ (a.to \in Departed \/ a.seq < Len(events[a.to]))
      /\ a \in [to : Nodes, seq : Nat]
  BY <1>1, HandedOn, HeldNumber DEF Holds
<1>3. /\ AckTypes /\ faults' \in 0..MaxFaults /\ down \subseteq Nodes
      /\ channel' \in [Writes -> SUBSET Writes]
  BY <1>1, ChainAssumption DEF IInv, ReconfigurationTypeOK, TypeOK, ClientTypes
<1>4. AckTypes'
  BY <1>1, <1>2, <1>3 DEF AckTypes, AckProcessorStates
<1>5. ConfirmInv'
  <2>1. \A k \in Nodes : \/ ackProcessor'[k] = ackProcessor[k]
                         \/ k = n /\ ackProcessor'[k] = "scan"
    BY <1>1, <1>3 DEF AckTypes
  <2>. QED BY <1>1, <2>1 DEF IInv, ConfirmInv, Holds
<1>6. LateAcksInv'
  <2>1. Departed' = Departed
    BY <1>1, StepFrame
  <2>. QED BY <1>1, <1>2, <2>1 DEF IInv, LateAcksInv
<1>. QED BY <1>1, <1>3, <1>4, <1>5, <1>6, AckStep

LEMMA DeliverLateAckKeeps ==
  ASSUME IInv, NEW m \in lateAcks, DeliverLateAck(m),
         UNCHANGED reconfigurationVars
  PROVE  IInv'
<1>1. /\ m.to \notin down
      /\ lateAcks' = lateAcks \ {m}
      /\ BufferAck(m.to, m.seq, ackProcessor)
      /\ UNCHANGED <<neighbours, events, eventVars, lastConfirmed, nextAckSeq,
                     applied, handler, channel, faults>>
  BY DEF DeliverLateAck, clientVars
<1>2. m.to \in Nodes /\ m.seq \in Nat
  BY DEF IInv, ReconfigurationTypeOK, TypeOK, AckTypes
<1>3. m.to <= joined /\ (m.to \in Departed \/ m.seq < Len(events[m.to]))
  BY <1>1, <1>2, RunningHasJoined DEF IInv, LateAcksInv
<1>4. UNCHANGED <<chain, joined, stopped>>
  BY DEF reconfigurationVars
<1>5. /\ ackProcessor \in [Nodes -> AckProcessorStates]
      /\ faults' \in 0..MaxFaults /\ channel' \in [Writes -> SUBSET Writes]
  BY <1>1 DEF IInv, ReconfigurationTypeOK, TypeOK, AckTypes, ClientTypes
<1>6. /\ AckTypes' /\ ConfirmInv' /\ LateAcksInv'
      /\ down \subseteq down' /\ down' \subseteq Nodes
      /\ down' \subseteq down \cup Departed
  BY <1>1, <1>2, <1>3, <1>4, <1>5, BufferAckKeeps
<1>. QED BY <1>1, <1>5, <1>6, AckStep

-----------------------------------------------------------------------------
(* The synchronisation with a successor. *)

SyncState == [pc : {"idle", "stopping", "query", "sync"},
              succ : Nodes \cup {Nil},
              ack : Nat, lastAck : Sequence, event : Nat, lastEvent : Sequence]

(* What SyncInv and WiringInv say of the goroutine of node n in state r. *)
SyncStateOK(n, r) ==
  /\ r.pc # "idle" => MayConnect(n, r.succ, joined, Departed)
  /\ r.pc = "stopping" => r.event = 0 /\ r.lastEvent = -1
  /\ r.pc = "query" => r.succ # Nil
  /\ r.pc = "sync" =>
       /\ r.lastEvent < Len(events[n])
       /\ r.event <= r.lastEvent => r.succ # Nil
       /\ n \notin Departed => r.lastAck < Len(events[n])

LEMMA SyncStateIsOK ==
  ASSUME IInv, NEW n \in Nodes
  PROVE  sync[n] \in SyncState /\ SyncStateOK(n, sync[n])
<1>1. sync[n] \in SyncState
  BY DEF SyncState, IInv, ReconfigurationTypeOK, ReconfigurationTypes
<1>2. SyncStateOK(n, sync[n])
  BY DEF SyncStateOK, IInv, SyncInv, WiringInv
<1>. QED BY <1>1, <1>2

(* The goroutine of node n goes on to state r. *)
LEMMA SyncStep ==
  ASSUME IInv, NEW n \in Nodes, NEW r \in SyncState, SyncStateOK(n, r),
         sync' = [sync EXCEPT ![n] = r],
         pendingSyncs' \subseteq pendingSyncs,
         \/ successor' = successor
         \/ /\ successor' = [successor EXCEPT ![n] = sync[n].succ]
            /\ sync[n].pc # "idle",
         UNCHANGED <<predecessor, events, clientVars, chain, joined, stopped,
                     jobs>>
  PROVE  /\ Departed' = Departed /\ joined \in Nat
         /\ predecessor' \in [Nodes -> Nodes \cup {Nil}]
         /\ successor' \in [Nodes -> Nodes \cup {Nil}]
         /\ ReconfigurationTypes' /\ ChainInv' /\ WiringInv' /\ SyncInv'
         /\ ClientTypes' /\ HandlersInv'
<1>1. Departed' = Departed /\ ChainInv'
  BY MembersFrame DEF IInv
<1>2. joined \in Nat
  BY ChainAssumption, ReconfigurationAssumption
  DEF IInv, ReconfigurationTypeOK, ReconfigurationTypes
<1>3. sync[n] \in SyncState /\ SyncStateOK(n, sync[n]) /\ sync \in [Nodes -> SyncState]
  BY SyncStateIsOK
  DEF SyncState, IInv, ReconfigurationTypeOK, ReconfigurationTypes
<1>4. /\ predecessor' \in [Nodes -> Nodes \cup {Nil}]
      /\ successor' \in [Nodes -> Nodes \cup {Nil}]
      /\ \A p \in Nodes : MayConnect(p, successor'[p], joined, Departed)
  <2>1. /\ predecessor \in [Nodes -> Nodes \cup {Nil}]
        /\ successor \in [Nodes -> Nodes \cup {Nil}]
        /\ \A p \in Nodes : MayConnect(p, successor[p], joined, Departed)
    BY DEF IInv, WiringInv, ReconfigurationTypeOK, TypeOK
  <2>2. CASE successor' = successor
    BY <2>1, <2>2
  <2>3. CASE /\ successor' = [successor EXCEPT ![n] = sync[n].succ]
             /\ sync[n].pc # "idle"
    <3>1. /\ MayConnect(n, sync[n].succ, joined, Departed)
          /\ sync[n].succ \in Nodes \cup {Nil}
      BY <1>3, <2>3 DEF SyncStateOK, SyncState
    <3>2. \A p \in Nodes : successor'[p] = IF p = n THEN sync[n].succ ELSE successor[p]
      BY <2>1, <2>3
    <3>. QED BY <2>1, <2>3, <3>1, <3>2
  <2>. QED BY <2>1, <2>2, <2>3
<1>5. /\ sync' \in [Nodes -> SyncState]
      /\ \A k \in Nodes : sync'[k] = IF k = n THEN r ELSE sync[k]
  BY <1>3
<1>6. ReconfigurationTypes'
  BY <1>5 DEF SyncState, IInv, ReconfigurationTypeOK, ReconfigurationTypes
<1>7. \A k \in Nodes : SyncStateOK(k, sync'[k])
  BY <1>5, SyncStateIsOK
<1>8. SyncInv'
  <2>1. \A k \in Nodes :
          /\ sync'[k].pc = "stopping" =>
               sync'[k].event = 0 /\ sync'[k].lastEvent = -1
          /\ sync'[k].pc = "query" => sync'[k].succ # Nil
          /\ sync'[k].pc = "sync" =>
               /\ sync'[k].lastEvent < Len(events[k])
               /\ sync'[k].event <= sync'[k].lastEvent => sync'[k].succ # Nil
               /\ k \notin Departed => sync'[k].lastAck < Len(events[k])
    BY <1>7 DEF SyncStateOK
  <2>. QED BY <1>1, <2>1 DEF SyncInv
<1>9. WiringInv'
  <2>1. \A k \in Nodes : sync'[k].pc # "idle" =>
                           MayConnect(k, sync'[k].succ, joined, Departed)
    BY <1>7 DEF SyncStateOK
  <2>2. /\ \A q \in 1..joined : Precedes(predecessor[q], q, Departed)
        /\ \A j \in jobs : /\ MayConnect(j.pred, j.succ, joined, Departed)
                           /\ j.pc \in {"pred", "stopping"} => j.succ # Nil
                           /\ j.pc = "succ" => j.pred # Nil
        /\ \A s \in pendingSyncs' : MayConnect(s.node, s.succ, joined, Departed)
    BY DEF IInv, WiringInv
  <2>. QED BY <1>1, <1>4, <2>1, <2>2 DEF WiringInv, MayConnect, Precedes, Between
<1>10. ClientTypes' /\ HandlersInv'
  BY <1>1, <1>2, ClientFrame DEF IInv, ReconfigurationTypeOK, TypeOK
<1>. QED BY <1>1, <1>2, <1>4, <1>6, <1>8, <1>9, <1>10

(* A step of the goroutine that may start or stop the replicator.          *)
LEMMA SyncReplicatorKeeps ==
  ASSUME IInv, NEW n \in Nodes, NEW r \in SyncState, SyncStateOK(n, r),
         sync' = [sync EXCEPT ![n] = r],
         pendingSyncs' \subseteq pendingSyncs,
         \/ successor' = successor
         \/ /\ successor' = [successor EXCEPT ![n] = sync[n].succ]
            /\ sync[n].pc # "idle",
         \/ replicator' = replicator
         \/ \E pc \in ReplicatorStates :
              replicator' = [replicator EXCEPT ![n] = pc],
         UNCHANGED <<predecessor, events, nextEventSeq, eventQueue, outgoing,
                     lateEvents, ackVars, clientVars, faults, down, chain,
                     joined, stopped, jobs>>
  PROVE  IInv'
<1>1. /\ Departed' = Departed /\ joined \in Nat
      /\ predecessor' \in [Nodes -> Nodes \cup {Nil}]
      /\ successor' \in [Nodes -> Nodes \cup {Nil}]
      /\ ReconfigurationTypes' /\ ChainInv' /\ WiringInv' /\ SyncInv'
      /\ ClientTypes' /\ HandlersInv'
  BY SyncStep
<1>2. EventTypes' /\ SendInv' /\ OrderInv' /\ AbsentInv'
  <2>1. /\ EventTypes /\ replicator' \in [Nodes -> ReplicatorStates]
        /\ eventQueue \in [Nodes -> SUBSET Event]
        /\ outgoing \in [Nodes -> SUBSET Event]
    BY DEF IInv, ReconfigurationTypeOK, TypeOK, EventTypes
  <2>. QED BY <1>1, <2>1, EventsFrame DEF IInv
<1>3. AckTypes' /\ ConfirmInv' /\ LateAcksInv'
  <2>1. /\ AckTypes /\ ackProcessor \in [Nodes -> AckProcessorStates]
        /\ UNCHANGED <<lastConfirmed, nextAckSeq, ackQueue, ackProcessor,
                       applied, lateAcks>>
    BY DEF IInv, ReconfigurationTypeOK, TypeOK, AckTypes, ackVars
  <2>. QED BY <1>1, <2>1, AcksFrame DEF IInv
<1>4. LifeInv'
  BY <1>1, LifeFrame DEF IInv
<1>. QED BY <1>1, <1>2, <1>3, <1>4 DEF IInv, ReconfigurationTypeOK, TypeOK

LEMMA NoSyncIsOK ==
  ASSUME NEW n \in Nodes
  PROVE  NoSync \in SyncState /\ SyncStateOK(n, NoSync)
BY DEF NoSync, SyncState, SyncStateOK, Sequence

LEMMA BeginSyncKeeps ==
  ASSUME IInv, NEW s \in pendingSyncs, BeginSync(s)
  PROVE  IInv'
<1>. DEFINE n == s.node
<1>. PICK r : r = [pc |-> "stopping", succ |-> s.succ, ack |-> 0,
                   lastAck |-> -1, event |-> 0, lastEvent |-> -1]
  OBVIOUS
<1>1. /\ sync' = [sync EXCEPT ![n] = r]
      /\ pendingSyncs' \subseteq pendingSyncs
      /\ replicator' = [replicator EXCEPT ![n] = IF @ = "wait" THEN "stopped" ELSE @]
      /\ UNCHANGED <<neighbours, events, nextEventSeq, eventQueue, outgoing,
                     lateEvents, ackVars, clientVars, faults, down, chain,
                     joined, stopped, jobs>>
  <2>. PICK q : q = [NoSync EXCEPT !.pc = "stopping", !.succ = s.succ]
    OBVIOUS
  <2>1. q = [pc |-> "stopping", succ |-> s.succ, ack |-> 0,
             lastAck |-> -1, event |-> 0, lastEvent |-> -1]
    BY DEF NoSync
  <2>2. r = q
    BY <2>1, Zenon
  <2>. QED BY <2>2 DEF BeginSync
<1>2. n \in Nodes /\ s.succ \in Nodes \cup {Nil}
  BY DEF IInv, ReconfigurationTypeOK, ReconfigurationTypes
<1>3. r \in SyncState /\ SyncStateOK(n, r)
  <2>1. MayConnect(n, s.succ, joined, Departed)
    BY DEF IInv, WiringInv
  <2>. HIDE DEF n
  <2>3. /\ r.pc = "stopping" /\ r.succ = s.succ
        /\ r.event = 0 /\ r.lastEvent = -1
    OBVIOUS
  <2>4. r \in SyncState
    BY <1>2 DEF SyncState, Sequence
  <2>. QED BY <2>1, <2>3, <2>4 DEF SyncStateOK
<1>4. \E pc \in ReplicatorStates : replicator' = [replicator EXCEPT ![n] = pc]
  BY <1>1, <1>2 DEF IInv, ReconfigurationTypeOK, TypeOK, EventTypes, ReplicatorStates
<1>. HIDE DEF n
<1>. QED BY <1>1, <1>2, <1>3, <1>4, SyncReplicatorKeeps DEF neighbours

LEMMA EndSyncKeeps ==
  ASSUME IInv, NEW n \in Nodes, EndSync(n)
  PROVE  IInv'
<1>1. /\ sync' = [sync EXCEPT ![n] = NoSync]
      /\ replicator' = [replicator EXCEPT ![n] = "scan"]
      /\ UNCHANGED <<neighbours, events, nextEventSeq, eventQueue, outgoing,
                     lateEvents, ackVars, clientVars, faults, down,
                     chain, joined, stopped, jobs, pendingSyncs>>
  BY DEF EndSync
<1>2. "scan" \in ReplicatorStates
  BY DEF ReplicatorStates
<1>. QED BY <1>1, <1>2, NoSyncIsOK, SyncReplicatorKeeps DEF neighbours

LEMMA InstallSuccessorKeeps ==
  ASSUME IInv, NEW n \in Nodes, InstallSuccessor(n)
  PROVE  IInv'
<1>. DEFINE s == sync[n]
<1>. PICK r : r = IF s.succ # Nil
                  THEN [s EXCEPT !.pc = "query"]
                  ELSE [s EXCEPT !.pc = "sync", !.ack = lastConfirmed[n] + 1,
                                 !.lastAck = Len(events[n]) - 1]
  OBVIOUS
<1>1. /\ s.pc = "stopping"
      /\ successor' = [successor EXCEPT ![n] = s.succ]
      /\ UNCHANGED <<predecessor, events, eventVars, ackVars, clientVars, faults,
                     down, chain, joined, stopped, jobs, pendingSyncs>>
  BY DEF InstallSuccessor
<1>2. s \in SyncState /\ SyncStateOK(n, s) /\ sync \in [Nodes -> SyncState]
  BY SyncStateIsOK
  DEF SyncState, IInv, ReconfigurationTypeOK, ReconfigurationTypes
<1>3. sync' = [sync EXCEPT ![n] = r]
  BY <1>2 DEF InstallSuccessor
<1>4. r \in SyncState /\ SyncStateOK(n, r)
  <2>1. lastConfirmed[n] \in Nat \cup {-1} /\ Len(events[n]) \in Nat
    BY NodeTypes DEF IInv, ReconfigurationTypeOK
  <2>2. MayConnect(n, s.succ, joined, Departed)
    BY <1>1, <1>2 DEF SyncStateOK
  <2>. HIDE DEF s
  <2>3. CASE s.succ # Nil
    <3>1. r = [s EXCEPT !.pc = "query"]
      BY <2>3
    <3>2. r \in SyncState /\ r.pc = "query" /\ r.succ = s.succ
      BY <1>2, <3>1 DEF SyncState
    <3>. QED BY <2>2, <2>3, <3>2 DEF SyncStateOK
  <2>4. CASE s.succ = Nil
    <3>1. r = [s EXCEPT !.pc = "sync", !.ack = lastConfirmed[n] + 1,
                        !.lastAck = Len(events[n]) - 1]
      BY <2>4
    <3>2. lastConfirmed[n] + 1 \in Nat /\ Len(events[n]) - 1 \in Sequence
      BY <2>1 DEF Sequence
    <3>3. /\ r \in SyncState /\ r.pc = "sync" /\ r.succ = s.succ
          /\ r.lastAck = Len(events[n]) - 1
          /\ r.event = s.event /\ r.lastEvent = s.lastEvent
      BY <1>2, <3>1, <3>2 DEF SyncState
    <3>4. s.event = 0 /\ s.lastEvent = -1
      BY <1>1, <1>2 DEF SyncStateOK
    <3>. QED BY <2>1, <2>2, <2>4, <3>3, <3>4 DEF SyncStateOK
  <2>. QED BY <2>3, <2>4
<1>. QED BY <1>1, <1>3, <1>4, SyncReplicatorKeeps DEF eventVars

LEMMA QuerySuccessorKeeps ==
  ASSUME IInv, NEW n \in Nodes, QuerySuccessor(n)
  PROVE  IInv'
<1>. DEFINE s == sync[n]
            m == s.succ
<1>. PICK r : r = [s EXCEPT !.pc = "sync",
                     !.ack = lastConfirmed[n] + 1, !.lastAck = lastConfirmed[m],
                     !.event = Len(events[m]), !.lastEvent = Len(events[n]) - 1]
  OBVIOUS
<1>1. s.pc = "query" /\ UNCHANGED <<vars, chain, joined, stopped, jobs, pendingSyncs>>
  BY DEF QuerySuccessor
<1>2. s \in SyncState /\ SyncStateOK(n, s) /\ sync \in [Nodes -> SyncState]
  BY SyncStateIsOK
  DEF SyncState, IInv, ReconfigurationTypeOK, ReconfigurationTypes
<1>3. sync' = [sync EXCEPT ![n] = r]
  BY <1>2 DEF QuerySuccessor
<1>4. m \in Nodes /\ m # Nil /\ MayConnect(n, m, joined, Departed) /\ n < m
  <2>1. m \in Nodes \cup {Nil} /\ m # Nil /\ MayConnect(n, m, joined, Departed)
    BY <1>1, <1>2 DEF SyncState, SyncStateOK
  <2>. QED BY <2>1 DEF MayConnect, Precedes
<1>5. /\ Len(events[n]) \in Nat /\ Len(events[m]) \in Nat
      /\ lastConfirmed[n] \in Nat \cup {-1} /\ lastConfirmed[m] \in Nat \cup {-1}
  BY <1>4, NodeTypes DEF IInv, ReconfigurationTypeOK
<1>6. /\ lastConfirmed[m] < Len(events[m])
      /\ n \notin Departed => Len(events[m]) <= Len(events[n])
  BY <1>4 DEF IInv, ConfirmInv, OrderInv
<1>7. r \in SyncState /\ SyncStateOK(n, r)
  <2>. HIDE DEF s
  <2>1. s.succ = m
    OBVIOUS
  <2>. HIDE DEF m
  <2>2. /\ lastConfirmed[n] + 1 \in Nat /\ Len(events[n]) - 1 \in Sequence
        /\ lastConfirmed[m] \in Sequence
    BY <1>5 DEF Sequence
  <2>3. /\ r \in SyncState /\ r.pc = "sync" /\ r.succ = m
        /\ r.lastAck = lastConfirmed[m] /\ r.lastEvent = Len(events[n]) - 1
    BY <1>2, <1>5, <2>1, <2>2 DEF SyncState
  <2>. QED BY <1>4, <1>5, <1>6, <2>3 DEF SyncStateOK
<1>8. UNCHANGED <<predecessor, successor, replicator, events, nextEventSeq,
                  eventQueue, outgoing, lateEvents, ackVars, clientVars,
                  faults, down>>
  BY <1>1 DEF vars, ackVars, clientVars
<1>. QED BY <1>1, <1>3, <1>7, <1>8, SyncReplicatorKeeps

LEMMA SyncAckKeeps ==
  ASSUME IInv, NEW n \in Nodes, SyncAck(n)
  PROVE  IInv'
<1>. DEFINE s == sync[n]
            seq == s.ack
<1>. PICK r : r = [s EXCEPT !.ack = @ + 1]
  OBVIOUS
<1>1. /\ n \notin down /\ s.pc = "sync" /\ seq <= s.lastAck
      /\ BufferAck(n, seq, ackProcessor)
      /\ UNCHANGED <<neighbours, events, eventVars, lastConfirmed, nextAckSeq,
                     applied, lateAcks, clientVars, faults,
                     chain, joined, stopped, jobs, pendingSyncs>>
  BY DEF SyncAck
<1>2. s \in SyncState /\ SyncStateOK(n, s) /\ sync \in [Nodes -> SyncState]
  BY SyncStateIsOK
  DEF SyncState, IInv, ReconfigurationTypeOK, ReconfigurationTypes
<1>3. sync' = [sync EXCEPT ![n] = r]
  BY <1>2 DEF SyncAck
<1>4. r \in SyncState /\ SyncStateOK(n, r)
  <2>. HIDE DEF s
  <2>1. /\ r \in SyncState /\ r.pc = s.pc /\ r.succ = s.succ
        /\ r.lastAck = s.lastAck /\ r.event = s.event
        /\ r.lastEvent = s.lastEvent
    BY <1>2 DEF SyncState
  <2>. QED BY <1>2, <2>1 DEF SyncStateOK
<1>5. seq \in Nat /\ (n \in Departed \/ seq < Len(events[n])) /\ n <= joined
  <2>1. seq \in Nat /\ s.lastAck \in Int /\ Len(events[n]) \in Nat
    BY <1>2, NodeTypes DEF SyncState, Sequence, IInv, ReconfigurationTypeOK
  <2>2. n \notin Departed => s.lastAck < Len(events[n])
    BY <1>1, <1>2 DEF SyncStateOK
  <2>3. n <= joined
    BY <1>1, RunningHasJoined
  <2>. QED BY <1>1, <2>1, <2>2, <2>3
<1>6. /\ Departed' = Departed /\ joined \in Nat
      /\ predecessor' \in [Nodes -> Nodes \cup {Nil}]
      /\ successor' \in [Nodes -> Nodes \cup {Nil}]
      /\ ReconfigurationTypes' /\ ChainInv' /\ WiringInv' /\ SyncInv'
      /\ ClientTypes' /\ HandlersInv'
  <2>1. predecessor' = predecessor /\ successor' = successor
    BY <1>1 DEF neighbours
  <2>. QED BY <1>1, <1>3, <1>4, <2>1, SyncStep
<1>. HIDE DEF seq
<1>7. /\ AckTypes' /\ ConfirmInv' /\ LateAcksInv'
      /\ down \subseteq down' /\ down' \subseteq Nodes
      /\ LifeInv'
  <2>1. ackProcessor \in [Nodes -> AckProcessorStates]
    BY DEF IInv, ReconfigurationTypeOK, TypeOK, AckTypes
  <2>. QED BY <1>1, <1>5, <2>1, BufferAckKeeps
<1>8. EventTypes' /\ SendInv' /\ OrderInv' /\ AbsentInv'
  <2>1. /\ EventTypes /\ replicator \in [Nodes -> ReplicatorStates]
        /\ eventQueue \in [Nodes -> SUBSET Event]
        /\ outgoing \in [Nodes -> SUBSET Event]
        /\ UNCHANGED <<nextEventSeq, eventQueue, replicator, outgoing,
                       lateEvents, predecessor>>
    BY <1>1 DEF IInv, ReconfigurationTypeOK, TypeOK, EventTypes, eventVars, neighbours
  <2>. QED BY <1>1, <1>6, <1>7, <2>1, EventsFrame DEF IInv
<1>. QED BY <1>1, <1>6, <1>7, <1>8 DEF IInv, ReconfigurationTypeOK, TypeOK

LEMMA SyncEventKeeps ==
  ASSUME IInv, NEW n \in Nodes, SyncEvent(n)
  PROVE  IInv'
<1>. DEFINE s == sync[n]
            m == s.succ
            seq == s.event
<1>. PICK r : r = [s EXCEPT !.event = @ + 1]
  OBVIOUS
<1>. PICK e : e = [seq |-> seq, write |-> events[n][seq + 1]]
  OBVIOUS
<1>1. /\ s.pc = "sync" /\ seq <= s.lastEvent
      /\ IF m \in down THEN UNCHANGED <<eventQueue, replicator>>
         ELSE BufferEvent(m, e, replicator)
      /\ UNCHANGED <<neighbours, events, nextEventSeq, outgoing, lateEvents,
                     ackVars, clientVars, faults, down,
                     chain, joined, stopped, jobs, pendingSyncs>>
  BY DEF SyncEvent
<1>2. s \in SyncState /\ SyncStateOK(n, s) /\ sync \in [Nodes -> SyncState]
  BY SyncStateIsOK
  DEF SyncState, IInv, ReconfigurationTypeOK, ReconfigurationTypes
<1>3. sync' = [sync EXCEPT ![n] = r]
  BY <1>2 DEF SyncEvent
<1>4. /\ events[n] \in Seq(Writes) /\ Len(events[n]) \in Nat /\ seq \in Nat
      /\ s.lastEvent \in Int /\ s.lastEvent < Len(events[n])
      /\ m \in Nodes \cup {Nil} /\ m # Nil
  <2>1. /\ seq \in Nat /\ s.lastEvent \in Int /\ m \in Nodes \cup {Nil}
        /\ events[n] \in Seq(Writes) /\ Len(events[n]) \in Nat
    BY <1>2, NodeTypes DEF SyncState, Sequence, IInv, ReconfigurationTypeOK
  <2>. QED BY <1>1, <1>2, <2>1 DEF SyncStateOK
<1>5. r \in SyncState /\ SyncStateOK(n, r)
  <2>1. s.succ # Nil
    BY <1>4
  <2>. HIDE DEF s, m, seq
  <2>2. /\ r \in SyncState /\ r.pc = s.pc /\ r.succ = s.succ
        /\ r.lastAck = s.lastAck /\ r.lastEvent = s.lastEvent
    BY <1>2 DEF SyncState
  <2>. QED BY <1>1, <1>2, <2>1, <2>2 DEF SyncStateOK
<1>6. m \in Nodes /\ m <= joined /\ Precedes(n, m, Departed)
  BY <1>1, <1>2, <1>4 DEF SyncStateOK, MayConnect
<1>7. e \in Event /\ e.seq \in Nat /\ e.seq < Len(events[n])
  <2>. HIDE DEF s, m, seq
  <2>1. seq < Len(events[n]) /\ seq + 1 \in 1..Len(events[n])
    BY <1>1, <1>4
  <2>2. events[n][seq + 1] \in Writes
    BY <1>4, <2>1
  <2>. QED BY <1>4, <2>1, <2>2 DEF Event
<1>8. \A p \in Nodes : p < m /\ p \notin Departed => e.seq < Len(events[p])
  BY <1>6, <1>7, HasPassed
<1>9. /\ Departed' = Departed /\ joined \in Nat
      /\ predecessor' \in [Nodes -> Nodes \cup {Nil}]
      /\ successor' \in [Nodes -> Nodes \cup {Nil}]
      /\ ReconfigurationTypes' /\ ChainInv' /\ WiringInv' /\ SyncInv'
      /\ ClientTypes' /\ HandlersInv'
  <2>1. predecessor' = predecessor /\ successor' = successor
    BY <1>1 DEF neighbours
  <2>. QED BY <1>1, <1>3, <1>5, <2>1, SyncStep
<1>. HIDE DEF s, m, seq
<1>10. EventTypes' /\ SendInv' /\ OrderInv' /\ AbsentInv'
  <2>1. /\ EventTypes /\ replicator \in [Nodes -> ReplicatorStates]
        /\ eventQueue \in [Nodes -> SUBSET Event]
        /\ outgoing \in [Nodes -> SUBSET Event]
        /\ UNCHANGED <<events, nextEventSeq, outgoing, lateEvents, predecessor,
                       chain, joined, stopped, down>>
    BY <1>1 DEF IInv, ReconfigurationTypeOK, TypeOK, EventTypes, neighbours
  <2>2. CASE UNCHANGED <<eventQueue, replicator>>
    BY <1>9, <2>1, <2>2, EventsFrame DEF IInv
  <2>3. CASE BufferEvent(m, e, replicator)
    BY <1>6, <1>7, <1>8, <2>1, <2>3, BufferEventKeeps
  <2>. QED BY <1>1, <2>2, <2>3
<1>11. AckTypes' /\ ConfirmInv' /\ LateAcksInv'
  <2>1. /\ AckTypes /\ ackProcessor \in [Nodes -> AckProcessorStates]
        /\ UNCHANGED <<lastConfirmed, nextAckSeq, ackQueue, ackProcessor,
                       applied, lateAcks>>
    BY <1>1 DEF IInv, ReconfigurationTypeOK, TypeOK, AckTypes, ackVars
  <2>. QED BY <1>1, <1>9, <2>1, AcksFrame DEF IInv
<1>12. LifeInv'
  BY <1>1, <1>9, LifeFrame DEF IInv
<1>. QED BY <1>1, <1>9, <1>10, <1>11, <1>12 DEF IInv, ReconfigurationTypeOK, TypeOK

-----------------------------------------------------------------------------
(* The control plane's reconnections. *)

JobState == [pred : Nodes \cup {Nil}, succ : Nodes \cup {Nil}, epoch : Nat,
             pc : {"pred", "stopping", "succ"}]

(* What WiringInv says of a job. *)
JobOK(j) ==
  /\ MayConnect(j.pred, j.succ, joined, Departed)
  /\ j.pc \in {"pred", "stopping"} => j.succ # Nil
  /\ j.pc = "succ" => j.pred # Nil

LEMMA JobIsOK ==
  ASSUME IInv, NEW j \in jobs
  PROVE  j \in JobState /\ JobOK(j)
BY DEF JobState, JobOK, IInv, WiringInv, ReconfigurationTypeOK,
       ReconfigurationTypes

(* A job goes on to pc or ends. *)
LEMMA JobMoves ==
  ASSUME IInv, NEW j \in jobs, NEW pc \in {"stopping", "succ"},
         pc = "stopping" => j.pc = "pred",
         pc = "succ" => j.pred # Nil,
         MoveJob(j, pc)
  PROVE  \A k \in jobs' : k \in JobState /\ JobOK(k)
<1>. PICK i : i = [j EXCEPT !.pc = pc]
  OBVIOUS
<1>1. jobs' = (jobs \ {j}) \cup {i}
  BY DEF MoveJob
<1>2. j \in JobState /\ JobOK(j)
  BY JobIsOK
<1>3. /\ i \in JobState /\ i.pred = j.pred /\ i.succ = j.succ /\ i.pc = pc
  BY <1>2 DEF JobState
<1>4. JobOK(i)
  BY <1>2, <1>3 DEF JobOK
<1>. QED BY <1>1, <1>3, <1>4, JobIsOK

LEMMA JobStepFrame ==
  ASSUME IInv,
         \A k \in jobs' : k \in JobState /\ JobOK(k),
         pendingSyncs' \subseteq
           [node : Nodes, succ : Nodes \cup {Nil}, epoch : Nat],
         \A s \in pendingSyncs' : MayConnect(s.node, s.succ, joined, Departed),
         predecessor' \in [Nodes -> Nodes \cup {Nil}],
         \A q \in 1..joined : Precedes(predecessor'[q], q, Departed),
         UNCHANGED <<successor, events, clientVars, chain, joined, stopped, sync>>
  PROVE  /\ Departed' = Departed
         /\ successor' \in [Nodes -> Nodes \cup {Nil}]
         /\ ReconfigurationTypes' /\ ChainInv' /\ WiringInv' /\ SyncInv'
         /\ ClientTypes' /\ HandlersInv'
<1>1. Departed' = Departed /\ ChainInv'
  BY MembersFrame DEF IInv
<1>2. joined \in Nat
  BY ChainAssumption, ReconfigurationAssumption
  DEF IInv, ReconfigurationTypeOK, ReconfigurationTypes
<1>3. SyncInv' /\ ClientTypes' /\ HandlersInv'
  BY <1>1, <1>2, SyncFrame, ClientFrame DEF IInv, ReconfigurationTypeOK, TypeOK
<1>4. ReconfigurationTypes'
  BY DEF JobState, IInv, ReconfigurationTypeOK, ReconfigurationTypes
<1>5. WiringInv'
  <2>1. /\ \A p \in Nodes : MayConnect(p, successor[p], joined, Departed)
        /\ \A n \in Nodes : sync[n].pc # "idle" =>
                              MayConnect(n, sync[n].succ, joined, Departed)
    BY DEF IInv, WiringInv
  <2>2. \A j \in jobs' : /\ MayConnect(j.pred, j.succ, joined, Departed)
                         /\ j.pc \in {"pred", "stopping"} => j.succ # Nil
                         /\ j.pc = "succ" => j.pred # Nil
    BY DEF JobOK
  <2>. QED BY <1>1, <2>1, <2>2 DEF WiringInv, MayConnect, Precedes, Between
<1>. QED BY <1>1, <1>3, <1>4, <1>5 DEF IInv, ReconfigurationTypeOK, TypeOK

(* A job's call changes its node's connection, its queue of events and the *)
(* state of its ACK processor.                                             *)
LEMMA JobStepKeeps ==
  ASSUME IInv,
         \A k \in jobs' : k \in JobState /\ JobOK(k),
         pendingSyncs' \subseteq
           [node : Nodes, succ : Nodes \cup {Nil}, epoch : Nat],
         \A s \in pendingSyncs' : MayConnect(s.node, s.succ, joined, Departed),
         predecessor' \in [Nodes -> Nodes \cup {Nil}],
         \A q \in 1..joined : Precedes(predecessor'[q], q, Departed),
         \A k \in Nodes : k > joined => predecessor'[k] = predecessor[k],
         eventQueue' \in [Nodes -> SUBSET Event],
         \A k \in Nodes : eventQueue'[k] \subseteq eventQueue[k],
         ackProcessor' \in [Nodes -> AckProcessorStates],
         \A k \in Nodes : \/ ackProcessor'[k] = ackProcessor[k]
                          \/ /\ ackProcessor[k] # "confirm"
                             /\ ~Holds(ackProcessor'[k]),
         UNCHANGED <<successor, events, nextEventSeq, replicator, outgoing,
                     lateEvents, lastConfirmed, nextAckSeq, ackQueue, applied,
                     lateAcks, clientVars, faults, down, chain, joined,
                     stopped, sync>>
  PROVE  IInv'
<1>1. /\ Departed' = Departed
      /\ successor' \in [Nodes -> Nodes \cup {Nil}]
      /\ ReconfigurationTypes' /\ ChainInv' /\ WiringInv' /\ SyncInv'
      /\ ClientTypes' /\ HandlersInv'
  BY JobStepFrame
<1>2. EventTypes' /\ SendInv' /\ OrderInv' /\ AbsentInv'
  <2>1. /\ EventTypes /\ replicator' \in [Nodes -> ReplicatorStates]
        /\ outgoing' \in [Nodes -> SUBSET Event]
        /\ \A k \in Nodes : outgoing'[k] \subseteq outgoing[k]
    BY DEF IInv, ReconfigurationTypeOK, TypeOK, EventTypes
  <2>. QED BY <1>1, <2>1, EventsFrame DEF IInv
<1>3. AckTypes' /\ ConfirmInv' /\ LateAcksInv'
  <2>1. AckTypes
    BY DEF IInv, ReconfigurationTypeOK, TypeOK
  <2>. QED BY <1>1, <2>1, AcksFrame DEF IInv
<1>4. LifeInv'
  BY <1>1, LifeFrame DEF IInv
<1>. QED BY <1>1, <1>2, <1>3, <1>4 DEF IInv, ReconfigurationTypeOK, TypeOK

LEMMA ConnectionsAreOK ==
  ASSUME IInv
  PROVE  /\ pendingSyncs \subseteq
              [node : Nodes, succ : Nodes \cup {Nil}, epoch : Nat]
         /\ \A s \in pendingSyncs : MayConnect(s.node, s.succ, joined, Departed)
         /\ predecessor \in [Nodes -> Nodes \cup {Nil}]
         /\ \A q \in 1..joined : Precedes(predecessor[q], q, Departed)
         /\ eventQueue \in [Nodes -> SUBSET Event]
         /\ ackProcessor \in [Nodes -> AckProcessorStates]
         /\ \A k \in jobs : k \in JobState /\ JobOK(k)
<1>1. \A k \in jobs : k \in JobState /\ JobOK(k)
  BY JobIsOK
<1>2. /\ pendingSyncs \subseteq
           [node : Nodes, succ : Nodes \cup {Nil}, epoch : Nat]
      /\ \A s \in pendingSyncs : MayConnect(s.node, s.succ, joined, Departed)
  BY DEF IInv, WiringInv, ReconfigurationTypeOK, ReconfigurationTypes
<1>3. /\ predecessor \in [Nodes -> Nodes \cup {Nil}]
      /\ \A q \in 1..joined : Precedes(predecessor[q], q, Departed)
  BY DEF IInv, WiringInv, ReconfigurationTypeOK, TypeOK
<1>4. /\ eventQueue \in [Nodes -> SUBSET Event]
      /\ ackProcessor \in [Nodes -> AckProcessorStates]
  BY DEF IInv, ReconfigurationTypeOK, TypeOK, EventTypes, AckTypes
<1>. QED BY <1>1, <1>2, <1>3, <1>4

LEMMA BeginSetPredecessorKeeps ==
  ASSUME IInv, NEW j \in jobs, BeginSetPredecessor(j)
  PROVE  IInv'
<1>1. /\ j.pc = "pred"
      /\ ackProcessor' = [ackProcessor EXCEPT
                            ![j.succ] = IF @ = "wait" THEN "stopped" ELSE @]
      /\ MoveJob(j, "stopping")
      /\ UNCHANGED <<predecessor, successor, events, eventQueue, nextEventSeq,
                     replicator, outgoing, lateEvents, lastConfirmed,
                     nextAckSeq, ackQueue, applied, lateAcks, clientVars,
                     faults, down, chain, joined, stopped, pendingSyncs, sync>>
  BY DEF BeginSetPredecessor, neighbours, eventVars
<1>2. \A k \in jobs' : k \in JobState /\ JobOK(k)
  BY <1>1, JobMoves
<1>3. /\ ackProcessor' \in [Nodes -> AckProcessorStates]
      /\ \A k \in Nodes : \/ ackProcessor'[k] = ackProcessor[k]
                          \/ /\ ackProcessor[k] # "confirm"
                             /\ ~Holds(ackProcessor'[k])
  BY <1>1, ConnectionsAreOK DEF AckProcessorStates, Holds
<1>. QED BY <1>1, <1>2, <1>3, ConnectionsAreOK, JobStepKeeps

LEMMA InstallPredecessorKeeps ==
  ASSUME IInv, NEW j \in jobs, InstallPredecessor(j)
  PROVE  IInv'
<1>. DEFINE n == j.succ
<1>1. /\ j.pc = "stopping" /\ ackProcessor[n] = "stopped"
      /\ predecessor' = [predecessor EXCEPT ![n] = j.pred]
      /\ eventQueue' = eventQueue \/ eventQueue' = [eventQueue EXCEPT ![n] = {}]
      /\ ackProcessor' = [ackProcessor EXCEPT ![n] = "scan"]
      /\ IF j.pred = Nil THEN jobs' = jobs \ {j} ELSE MoveJob(j, "succ")
      /\ UNCHANGED <<successor, events, nextEventSeq, replicator, outgoing,
                     lateEvents, lastConfirmed, nextAckSeq, ackQueue, applied,
                     lateAcks, clientVars, faults, down,
                     chain, joined, stopped, pendingSyncs, sync>>
  BY DEF InstallPredecessor
<1>2. /\ n \in Nodes /\ n # Nil /\ j.pred \in Nodes \cup {Nil}
      /\ Precedes(j.pred, n, Departed) /\ n <= joined
  BY <1>1, JobIsOK DEF JobState, JobOK, MayConnect
<1>3. \A k \in jobs' : k \in JobState /\ JobOK(k)
  BY <1>1, JobMoves, JobIsOK
<1>. HIDE DEF n
<1>4. /\ predecessor' \in [Nodes -> Nodes \cup {Nil}]
      /\ \A q \in 1..joined : Precedes(predecessor'[q], q, Departed)
      /\ \A k \in Nodes : k > joined => predecessor'[k] = predecessor[k]
  <2>1. /\ predecessor \in [Nodes -> Nodes \cup {Nil}]
        /\ \A q \in 1..joined : Precedes(predecessor[q], q, Departed)
    BY ConnectionsAreOK
  <2>2. /\ predecessor' \in [Nodes -> Nodes \cup {Nil}]
        /\ \A k \in Nodes : predecessor'[k] = IF k = n THEN j.pred ELSE predecessor[k]
    BY <1>1, <1>2, <2>1
  <2>3. joined \in Nat /\ 1..joined \subseteq Nodes /\ \A k \in Nodes : k \in Nat
    BY ChainAssumption, ReconfigurationAssumption
    DEF Nodes, IInv, ReconfigurationTypeOK, ReconfigurationTypes
  <2>4. \A q \in 1..joined : Precedes(predecessor'[q], q, Departed)
    BY <1>2, <2>1, <2>2, <2>3
  <2>5. \A k \in Nodes : k > joined => predecessor'[k] = predecessor[k]
    BY <1>2, <2>2, <2>3
  <2>. QED BY <2>2, <2>4, <2>5
<1>5. /\ eventQueue' \in [Nodes -> SUBSET Event]
      /\ \A k \in Nodes : eventQueue'[k] \subseteq eventQueue[k]
  BY <1>1, ConnectionsAreOK
<1>6. /\ ackProcessor' \in [Nodes -> AckProcessorStates]
      /\ \A k \in Nodes : \/ ackProcessor'[k] = ackProcessor[k]
                          \/ /\ ackProcessor[k] # "confirm"
                             /\ ~Holds(ackProcessor'[k])
  BY <1>1, ConnectionsAreOK DEF AckProcessorStates, Holds
<1>. QED BY <1>1, <1>3, <1>4, <1>5, <1>6, ConnectionsAreOK, JobStepKeeps

LEMMA SetPredecessorFailsKeeps ==
  ASSUME IInv, NEW j \in jobs, SetPredecessorFails(j)
  PROVE  IInv'
<1>1. /\ IF j.pred = Nil THEN jobs' = jobs \ {j} ELSE MoveJob(j, "succ")
      /\ UNCHANGED <<predecessor, successor, events, eventQueue, nextEventSeq,
                     replicator, outgoing, lateEvents, lastConfirmed,
                     nextAckSeq, ackQueue, ackProcessor, applied, lateAcks,
                     clientVars, faults, down, chain, joined, stopped,
                     pendingSyncs, sync>>
  BY DEF SetPredecessorFails, vars, clientVars
<1>2. \A k \in jobs' : k \in JobState /\ JobOK(k)
  BY <1>1, JobMoves, JobIsOK
<1>. QED BY <1>1, <1>2, ConnectionsAreOK, JobStepKeeps

LEMMA CallSetSuccessorKeeps ==
  ASSUME IInv, NEW j \in jobs, CallSetSuccessor(j)
  PROVE  IInv'
<1>. PICK s : s = [node |-> j.pred, succ |-> j.succ, epoch |-> j.epoch]
  OBVIOUS
<1>1. /\ j.pc = "succ" /\ jobs' = jobs \ {j}
      /\ pendingSyncs' \subseteq pendingSyncs \cup {s}
      /\ UNCHANGED <<predecessor, successor, events, eventQueue, nextEventSeq,
                     replicator, outgoing, lateEvents, lastConfirmed,
                     nextAckSeq, ackQueue, ackProcessor, applied, lateAcks,
                     clientVars, faults, down, chain, joined, stopped, sync>>
  BY DEF CallSetSuccessor, vars, clientVars
<1>2. /\ s \in [node : Nodes, succ : Nodes \cup {Nil}, epoch : Nat]
      /\ MayConnect(s.node, s.succ, joined, Departed)
  BY <1>1, JobIsOK DEF JobState, JobOK
<1>3. \A k \in jobs' : k \in JobState /\ JobOK(k)
  BY <1>1, JobIsOK
<1>4. /\ pendingSyncs' \subseteq
           [node : Nodes, succ : Nodes \cup {Nil}, epoch : Nat]
      /\ \A t \in pendingSyncs' : MayConnect(t.node, t.succ, joined, Departed)
  BY <1>1, <1>2, ConnectionsAreOK
<1>. QED BY <1>1, <1>3, <1>4, ConnectionsAreOK, JobStepKeeps

-----------------------------------------------------------------------------
(* Nodes crash, leave and join. *)

(* Members go: fewer nodes run, more have departed, jobs are added. *)
LEMMA MembersGo ==
  ASSUME IInv, ReconfigurationTypes', ChainInv',
         Departed \subseteq Departed',
         down \subseteq down', down' \subseteq Nodes,
         down' \subseteq down \cup Departed',
         \A j \in jobs' : /\ MayConnect(j.pred, j.succ, joined, Departed')
                          /\ j.pc \in {"pred", "stopping"} => j.succ # Nil
                          /\ j.pc = "succ" => j.pred # Nil,
         UNCHANGED <<neighbours, events, eventVars, ackVars, clientVars, faults,
                     joined, pendingSyncs, sync>>
  PROVE  IInv'
<1>1. joined \in Nat
  BY ChainAssumption, ReconfigurationAssumption
  DEF IInv, ReconfigurationTypeOK, ReconfigurationTypes
<1>2. UNCHANGED <<predecessor, successor, nextEventSeq, eventQueue, replicator,
                  outgoing, lateEvents, lastConfirmed, nextAckSeq, ackQueue,
                  ackProcessor, applied, lateAcks>>
  BY DEF neighbours, eventVars, ackVars
<1>3. WiringInv'
  BY <1>2 DEF IInv, WiringInv, MayConnect, Precedes, Between
<1>4. EventTypes' /\ SendInv' /\ OrderInv' /\ AbsentInv'
  <2>1. /\ EventTypes /\ replicator \in [Nodes -> ReplicatorStates]
        /\ eventQueue \in [Nodes -> SUBSET Event]
        /\ outgoing \in [Nodes -> SUBSET Event]
    BY DEF IInv, ReconfigurationTypeOK, TypeOK, EventTypes
  <2>. QED BY <1>2, <2>1, EventsFrame DEF IInv
<1>5. AckTypes' /\ ConfirmInv' /\ LateAcksInv'
  <2>1. AckTypes /\ ackProcessor \in [Nodes -> AckProcessorStates]
    BY DEF IInv, ReconfigurationTypeOK, TypeOK, AckTypes
  <2>. QED BY <1>2, <2>1, AcksFrame DEF IInv
<1>6. ClientTypes' /\ HandlersInv' /\ SyncInv' /\ LifeInv'
  BY <1>1, ClientFrame, SyncFrame, LifeFrame DEF IInv, ReconfigurationTypeOK, TypeOK
<1>. QED BY <1>2, <1>3, <1>4, <1>5, <1>6 DEF IInv, ReconfigurationTypeOK, TypeOK

LEMMA ChainFacts ==
  ASSUME IInv
  PROVE  /\ chain \in Seq(Nodes) /\ Increasing(chain)
         /\ joined \in Nat /\ joined <= N /\ Nodes \subseteq Nat
         /\ Len(chain) \in Nat /\ DOMAIN chain = 1..Len(chain)
         /\ \A i \in DOMAIN chain : /\ chain[i] \in Nodes
                                    /\ chain[i] \in 1..joined
         /\ stopped \subseteq Departed
         /\ \A k \in 1..joined : k \in Departed \/ k \in ToSet(chain)
         /\ Epoch \in Nat
<1>1. chain \in Seq(Nodes) /\ joined \in Initial..N
  BY DEF IInv, ReconfigurationTypeOK, ReconfigurationTypes
<1>2. joined \in Nat /\ joined <= N /\ Nodes \subseteq Nat /\ 1..joined \subseteq Nodes
  BY <1>1, ChainAssumption, ReconfigurationAssumption DEF Nodes
<1>3. Increasing(chain) /\ Len(chain) <= joined
  BY DEF IInv, ChainInv, Increasing
<1>4. Len(chain) \in Nat /\ DOMAIN chain = 1..Len(chain)
  BY <1>1
<1>5. \A i \in DOMAIN chain : chain[i] \in Nodes /\ chain[i] \in 1..joined
  <2>1. \A i \in DOMAIN chain : chain[i] \in Nodes /\ chain[i] <= joined
    BY <1>1 DEF IInv, ChainInv
  <2>2. \A k \in Nodes : k >= 1 /\ k \in Nat
    BY ChainAssumption DEF Nodes
  <2>. SUFFICES ASSUME NEW i \in DOMAIN chain
       PROVE  chain[i] \in Nodes /\ chain[i] \in 1..joined
    OBVIOUS
  <2>3. chain[i] \in Nat /\ chain[i] >= 1 /\ chain[i] <= joined
    BY <2>1, <2>2
  <2>. QED BY <1>2, <2>1, <2>3
<1>6. Epoch \in Nat
  BY <1>2, <1>3, <1>4 DEF Epoch
<1>7. stopped \subseteq Departed /\ \A k \in 1..joined : k \in Departed \/ k \in ToSet(chain)
  BY DEF Departed
<1>. QED BY <1>1, <1>2, <1>3, <1>4, <1>5, <1>6, <1>7

(* Two places of the chain may be connected when all between have gone; 0  *)
(* stands for the place before the first.                                  *)
LEMMA ChainGap ==
  ASSUME IInv, NEW gone, Departed \subseteq gone,
         NEW a \in 0..Len(chain), NEW b \in DOMAIN chain, a < b,
         \A l \in DOMAIN chain : a < l /\ l < b => chain[l] \in gone
  PROVE  MayConnect(IF a = 0 THEN Nil ELSE chain[a], chain[b], joined, gone)
<1>. DEFINE p == IF a = 0 THEN Nil ELSE chain[a]
            q == chain[b]
<1>1. /\ p \in Nat /\ q \in Nat /\ p < q /\ q <= joined /\ joined \in Nat
      /\ \A l \in DOMAIN chain : l \in Nat
  <2>1. q \in 1..joined /\ q \in Nat /\ joined \in Nat
    BY ChainFacts
  <2>2. a # 0 => a \in DOMAIN chain /\ chain[a] \in Nat
    BY ChainFacts
  <2>3. a # 0 => chain[a] < chain[b]
    BY <2>2, ChainFacts DEF Increasing
  <2>4. \A l \in DOMAIN chain : l \in Nat
    BY ChainFacts
  <2>. QED BY <2>1, <2>2, <2>3, <2>4 DEF Nil
<1>2. ASSUME NEW k \in Nodes, p < k, k < q PROVE k \in gone
  <2>1. k \in Nat /\ k \in 1..joined
    BY <1>1, <1>2, ChainFacts DEF Nodes
  <2>2. CASE k \in Departed
    BY <2>2
  <2>3. CASE k \in ToSet(chain)
    <3>1. PICK l \in DOMAIN chain : k = chain[l]
      BY <2>3 DEF ToSet
    <3>2. l < b
      <4>1. ~(b < l) /\ l # b
        BY <1>1, <1>2, <2>1, <3>1, ChainFacts DEF Increasing
      <4>. QED BY <1>1, <4>1
    <3>3. a < l
      <4>1. CASE a = 0
        BY <4>1, ChainFacts
      <4>2. CASE a # 0
        <5>1. a \in DOMAIN chain /\ p = chain[a] /\ a \in Nat /\ l \in Nat
          BY <4>2, ChainFacts
        <5>2. ~(l < a) /\ l # a
          BY <1>1, <1>2, <2>1, <3>1, <5>1, ChainFacts DEF Increasing
        <5>. QED BY <5>1, <5>2
      <4>. QED BY <4>1, <4>2
    <3>. QED BY <3>1, <3>2, <3>3
  <2>. QED BY <2>1, <2>2, <2>3, ChainFacts
<1>3. p \in Nat /\ q \in Nat /\ p < q /\ q # Nil
  BY <1>1 DEF Nil
<1>. QED BY <1>1, <1>2, <1>3 DEF MayConnect, Precedes, Between

(* So may the last place that has not gone and nobody. *)
LEMMA ChainEnd ==
  ASSUME IInv, NEW gone, Departed \subseteq gone, NEW a \in DOMAIN chain,
         \A l \in DOMAIN chain : a < l => chain[l] \in gone
  PROVE  MayConnect(chain[a], Nil, joined, gone)
<1>. SUFFICES ASSUME NEW k \in Nodes, chain[a] < k, k < Initial + 1
     PROVE  k \in gone
  BY DEF MayConnect, Between
<1>1. joined \in Initial..N /\ Initial \in Nat /\ k \in Nat /\ k >= 1
  BY ChainAssumption, ReconfigurationAssumption
  DEF Nodes, IInv, ReconfigurationTypeOK, ReconfigurationTypes
<1>2. k \in 1..joined
  BY <1>1
<1>3. CASE k \in Departed
  BY <1>3
<1>4. CASE k \in ToSet(chain)
  <2>1. PICK l \in DOMAIN chain : k = chain[l]
    BY <1>4 DEF ToSet
  <2>2. a \in Nat /\ l \in Nat /\ chain[a] \in Nat /\ chain[l] \in Nat
    BY ChainFacts
  <2>3. ~(l < a) /\ l # a
    BY <1>1, <2>1, <2>2, ChainFacts DEF Increasing
  <2>. QED BY <2>1, <2>2, <2>3
<1>. QED BY <1>2, <1>3, <1>4, ChainFacts

(* A job for two places of the chain. *)
LEMMA JobTyped ==
  ASSUME IInv, NEW p \in Nodes \cup {Nil}, NEW s \in Nodes \cup {Nil}
  PROVE  Job(p, s) \in JobState
BY ChainFacts DEF Job, JobState

LEMMA CrashOrStopKeeps ==
  ASSUME IInv, NEW n \in Nodes, Crash(n) \/ Stop(n)
  PROVE  IInv'
<1>1. /\ n \notin down
      /\ down' = down \cup {n} /\ stopped' = stopped \cup {n}
      /\ UNCHANGED <<neighbours, events, eventVars, ackVars, clientVars, faults,
                     chain, joined, jobs, pendingSyncs, sync>>
  BY DEF Crash, Stop
<1>2. n \in 1..joined
  BY <1>1, RunningHasJoined
<1>3. Departed \subseteq Departed' /\ n \in Departed'
  BY <1>1 DEF Departed
<1>4. ChainInv'
  BY <1>1, <1>2 DEF IInv, ChainInv
<1>5. ReconfigurationTypes'
  BY <1>1 DEF IInv, ReconfigurationTypeOK, ReconfigurationTypes
<1>6. down \subseteq down' /\ down' \subseteq Nodes /\ down' \subseteq down \cup Departed'
  BY <1>1, <1>3 DEF IInv, ReconfigurationTypeOK, TypeOK
<1>7. \A j \in jobs' : /\ MayConnect(j.pred, j.succ, joined, Departed')
                       /\ j.pc \in {"pred", "stopping"} => j.succ # Nil
                       /\ j.pc = "succ" => j.pred # Nil
  BY <1>1, <1>3 DEF IInv, WiringInv, MayConnect, Precedes, Between
<1>. QED BY <1>1, <1>3, <1>4, <1>5, <1>6, <1>7, MembersGo

(* The chain becomes smaller and jobs are added. *)
LEMMA MembersRemoved ==
  ASSUME IInv, chain' \in Seq(Nodes), Increasing(chain'),
         Len(chain') <= Len(chain), ToSet(chain') \subseteq ToSet(chain),
         NEW new, jobs' \subseteq jobs \cup new,
         \A j \in new : /\ j \in JobState
                        /\ MayConnect(j.pred, j.succ, joined, Departed')
                        /\ j.pc \in {"pred", "stopping"} => j.succ # Nil
                        /\ j.pc = "succ" => j.pred # Nil,
         UNCHANGED <<vars, joined, stopped, pendingSyncs, sync>>
  PROVE  IInv'
<1>1. Departed \subseteq Departed'
  BY DEF Departed
<1>2. ChainInv'
  <2>1. Len(chain') <= joined
    BY ChainFacts DEF IInv, ChainInv
  <2>2. \A i \in DOMAIN chain' : chain'[i] <= joined
    <3>1. \A i \in DOMAIN chain' : chain'[i] \in ToSet(chain)
      BY DEF ToSet
    <3>2. \A x \in ToSet(chain) : x <= joined
      BY DEF ToSet, IInv, ChainInv
    <3>. QED BY <3>1, <3>2
  <2>. QED BY <2>1, <2>2 DEF IInv, ChainInv, Increasing
<1>3. ReconfigurationTypes'
  <2>1. jobs' \subseteq [pred : Nodes \cup {Nil}, succ : Nodes \cup {Nil},
                         epoch : Nat, pc : {"pred", "stopping", "succ"}]
    BY JobIsOK DEF JobState
  <2>. QED BY <2>1 DEF IInv, ReconfigurationTypeOK, ReconfigurationTypes
<1>4. \A j \in jobs' : /\ MayConnect(j.pred, j.succ, joined, Departed')
                       /\ j.pc \in {"pred", "stopping"} => j.succ # Nil
                       /\ j.pc = "succ" => j.pred # Nil
  <2>1. \A j \in jobs : /\ MayConnect(j.pred, j.succ, joined, Departed')
                        /\ j.pc \in {"pred", "stopping"} => j.succ # Nil
                        /\ j.pc = "succ" => j.pred # Nil
    BY <1>1 DEF IInv, WiringInv, MayConnect, Precedes, Between
  <2>. QED BY <2>1
<1>5. /\ UNCHANGED <<neighbours, events, eventVars, ackVars, clientVars, faults,
                     down>>
      /\ down \subseteq Nodes
  BY DEF vars, neighbours, eventVars, ackVars, clientVars, IInv,
         ReconfigurationTypeOK, TypeOK
<1>. QED BY <1>1, <1>2, <1>3, <1>4, <1>5, MembersGo

LEMMA LeaveKeeps ==
  ASSUME IInv, NEW n \in Nodes, Leave(n)
  PROVE  IInv'
<1>. PICK i \in DOMAIN chain :
       /\ chain[i] = n
       /\ chain' = RemoveAt(chain, i)
       /\ LET pred == IF i = 1 THEN Nil ELSE chain[i - 1]
              succ == IF i = Len(chain) THEN Nil ELSE chain[i + 1]
          IN  jobs' = IF pred = Nil /\ succ = Nil THEN jobs
                      ELSE jobs \cup {Job(pred, succ)}
  <2>. DEFINE j == CHOOSE k \in DOMAIN chain : chain[k] = n
  <2>1. j \in DOMAIN chain /\ chain[j] = n
    BY DEF Leave, ToSet
  <2>. QED BY <2>1 DEF Leave
<1>. DEFINE pred == IF i = 1 THEN Nil ELSE chain[i - 1]
            succ == IF i = Len(chain) THEN Nil ELSE chain[i + 1]
<1>1. /\ jobs' = IF pred = Nil /\ succ = Nil THEN jobs
                 ELSE jobs \cup {Job(pred, succ)}
      /\ UNCHANGED <<vars, joined, stopped, pendingSyncs, sync>>
  BY DEF Leave
<1>2. i \in DOMAIN chain /\ chain[i] = n
  OBVIOUS
<1>3. /\ chain' \in Seq(Nodes) /\ Increasing(chain')
      /\ Len(chain') <= Len(chain) /\ ToSet(chain') = ToSet(chain) \ {n}
  <2>1. chain \in Seq(Nodes) /\ Increasing(chain) /\ Len(chain) \in Nat
    BY ChainFacts
  <2>2. /\ RemoveAt(chain, i) \in Seq(Nodes)
        /\ Len(RemoveAt(chain, i)) = Len(chain) - 1
        /\ Increasing(RemoveAt(chain, i))
        /\ ToSet(RemoveAt(chain, i)) = ToSet(chain) \ {chain[i]}
    BY <1>2, <2>1, RemoveAtProperties
  <2>3. Len(chain) - 1 <= Len(chain)
    BY <2>1
  <2>. QED BY <2>2, <2>3, Zenon
<1>4. Departed \subseteq Departed' /\ n \in Departed'
  <2>1. n \in 1..joined
    BY <1>2, ChainFacts
  <2>. QED BY <1>1, <1>3, <2>1 DEF Departed
<1>5. /\ i \in 1..Len(chain) /\ i \in Nat /\ Len(chain) \in Nat
      /\ \A k \in DOMAIN chain : chain[k] \in Nodes
      /\ DOMAIN chain = 1..Len(chain)
  BY <1>2, ChainFacts
<1>. DEFINE before == i - 1
            after == i + 1
<1>5a. /\ before \in 0..Len(chain) /\ before < i /\ i < after
       /\ i # 1 => before \in DOMAIN chain /\ before # 0
       /\ i = 1 => before = 0
       /\ i # Len(chain) => after \in DOMAIN chain
       /\ before < after
       /\ \A l \in DOMAIN chain : before < l /\ l < after => l = i
  BY <1>5
<1>5b. /\ pred = IF i = 1 THEN Nil ELSE chain[before]
       /\ succ = IF i = Len(chain) THEN Nil ELSE chain[after]
  BY Zenon
<1>. HIDE DEF before, after, pred, succ
<1>6. pred \in Nodes \cup {Nil} /\ succ \in Nodes \cup {Nil}
  BY <1>5, <1>5a, <1>5b
<1>7. succ # Nil => MayConnect(pred, succ, joined, Departed')
  <2>. SUFFICES ASSUME succ # Nil PROVE MayConnect(pred, succ, joined, Departed')
    OBVIOUS
  <2>1. after \in DOMAIN chain /\ succ = chain[after]
    BY <1>5a, <1>5b
  <2>2. pred = IF before = 0 THEN Nil ELSE chain[before]
    BY <1>5a, <1>5b
  <2>3. \A l \in DOMAIN chain :
          before < l /\ l < after => chain[l] \in Departed'
    BY <1>2, <1>4, <1>5a
  <2>. QED BY <1>4, <1>5a, <2>1, <2>2, <2>3, ChainGap
<1>7a. succ = Nil /\ pred # Nil => MayConnect(pred, Nil, joined, Departed')
  <2>. SUFFICES ASSUME succ = Nil, pred # Nil
       PROVE  MayConnect(pred, Nil, joined, Departed')
    OBVIOUS
  <2>1. i # 1 /\ before \in DOMAIN chain /\ pred = chain[before]
    BY <1>5a, <1>5b
  <2>2. i = Len(chain)
    <3>1. ASSUME i # Len(chain) PROVE succ \in Nodes /\ succ # Nil
      <4>1. after \in DOMAIN chain /\ succ = chain[after]
        BY <1>5a, <1>5b, <3>1
      <4>2. chain[after] \in Nodes
        BY <1>5, <4>1
      <4>3. \A k \in Nodes : k # Nil
        BY DEF Nodes, Nil
      <4>. QED BY <4>1, <4>2, <4>3
    <3>. QED BY <3>1
  <2>3. \A l \in DOMAIN chain : before < l => chain[l] \in Departed'
    <3>1. \A l \in DOMAIN chain : before < l => l = i
      BY <1>5, <2>2 DEF before
    <3>. QED BY <1>2, <1>4, <3>1
  <2>. QED BY <1>4, <2>1, <2>3, ChainEnd
<1>8. pred # Nil \/ succ # Nil =>
        /\ Job(pred, succ) \in JobState
        /\ MayConnect(Job(pred, succ).pred, Job(pred, succ).succ, joined, Departed')
        /\ Job(pred, succ).pc \in {"pred", "stopping"} => Job(pred, succ).succ # Nil
        /\ Job(pred, succ).pc = "succ" => Job(pred, succ).pred # Nil
  <2>1. Job(pred, succ) \in JobState
    BY <1>6, JobTyped
  <2>2. /\ Job(pred, succ).pred = pred /\ Job(pred, succ).succ = succ
        /\ Job(pred, succ).pc = IF succ = Nil THEN "succ" ELSE "pred"
    BY DEF Job
  <2>3. pred # Nil \/ succ # Nil => MayConnect(pred, succ, joined, Departed')
    BY <1>7, <1>7a
  <2>. QED BY <2>1, <2>2, <2>3
<1>. DEFINE new == IF pred = Nil /\ succ = Nil THEN {} ELSE {Job(pred, succ)}
<1>9. jobs' \subseteq jobs \cup new
  BY <1>1
<1>10. \A j \in new : /\ j \in JobState
                      /\ MayConnect(j.pred, j.succ, joined, Departed')
                      /\ j.pc \in {"pred", "stopping"} => j.succ # Nil
                      /\ j.pc = "succ" => j.pred # Nil
  BY <1>8
<1>11. ToSet(chain') \subseteq ToSet(chain)
  BY <1>3
<1>. HIDE DEF new
<1>. QED BY <1>1, <1>3, <1>9, <1>10, <1>11, MembersRemoved

LEMMA RemoveDeadKeeps ==
  ASSUME IInv, NEW dead \in SUBSET (stopped \cap ToSet(chain)), RemoveDead(dead)
  PROVE  IInv'
<1>. DEFINE live == {i \in DOMAIN chain : chain[i] \notin dead}
            new == Reconnections(chain, dead)
<1>1. /\ chain' = Without(chain, dead)
      /\ jobs' = jobs \cup new
      /\ UNCHANGED <<vars, joined, stopped, pendingSyncs, sync>>
  BY DEF RemoveDead
<1>2. /\ chain' \in Seq(Nodes) /\ Increasing(chain')
      /\ Len(chain') <= Len(chain) /\ ToSet(chain') = ToSet(chain) \ dead
  BY <1>1, ChainFacts, WithoutProperties
<1>3. Departed \subseteq Departed' /\ dead \subseteq Departed
  BY <1>1, <1>2 DEF Departed
<1>4. ASSUME NEW a \in 0..Len(chain), NEW b \in live, a < b,
             \A k \in live : k <= a \/ b <= k
      PROVE  MayConnect(IF a = 0 THEN Nil ELSE chain[a], chain[b], joined, Departed')
  <2>1. \A l \in DOMAIN chain : a < l /\ l < b => chain[l] \in Departed'
    <3>1. \A l \in DOMAIN chain : a < l /\ l < b => l \notin live
      <4>1. \A l \in DOMAIN chain : l \in Nat
        BY ChainFacts
      <4>. QED BY <1>4, <4>1
    <3>. QED BY <1>3, <3>1
  <2>. HIDE DEF live
  <2>2. b \in DOMAIN chain
    BY DEF live
  <2>. QED BY <1>3, <1>4, <2>1, <2>2, ChainGap
<1>5. \A p, s \in Nodes \cup {Nil} :
        /\ Job(p, s) \in JobState /\ Job(p, s).pred = p /\ Job(p, s).succ = s
        /\ Job(p, s).pc = IF s = Nil THEN "succ" ELSE "pred"
  BY JobTyped DEF Job
<1>6. \A i \in live : chain[i] \in Nodes /\ chain[i] # Nil /\ i \in 1..Len(chain)
  BY ChainFacts DEF Nil
<1>7. ASSUME NEW j \in new
      PROVE  /\ j \in JobState
             /\ MayConnect(j.pred, j.succ, joined, Departed')
             /\ j.pc \in {"pred", "stopping"} => j.succ # Nil
             /\ j.pc = "succ" => j.pred # Nil
  <2>1. \/ \E p \in live \X live :
             /\ j = Job(chain[p[1]], chain[p[2]])
             /\ p[1] < p[2] /\ \A k \in live : k <= p[1] \/ p[2] <= k
        \/ \E i \in live : j = Job(chain[i], Nil) /\ \A k \in live : k <= i
        \/ \E i \in live : j = Job(Nil, chain[i]) /\ \A k \in live : i <= k
    BY <1>7 DEF Reconnections
  <2>. HIDE DEF live, new
  <2>2. CASE \E p \in live \X live :
               /\ j = Job(chain[p[1]], chain[p[2]])
               /\ p[1] < p[2] /\ \A k \in live : k <= p[1] \/ p[2] <= k
    <3>. PICK p \in live \X live :
               /\ j = Job(chain[p[1]], chain[p[2]])
               /\ p[1] < p[2] /\ \A k \in live : k <= p[1] \/ p[2] <= k
      BY <2>2
    <3>. PICK a : a = p[1]
      OBVIOUS
    <3>. PICK b : b = p[2]
      OBVIOUS
    <3>1. a \in live /\ b \in live /\ j = Job(chain[a], chain[b]) /\ a < b
      OBVIOUS
    <3>2. a \in 0..Len(chain) /\ a # 0
      BY <1>6, <3>1
    <3>3. MayConnect(chain[a], chain[b], joined, Departed')
      BY <1>4, <3>1, <3>2
    <3>4. chain[a] \in Nodes /\ chain[b] \in Nodes /\ chain[b] # Nil
      BY <1>6, <3>1
    <3>. QED BY <1>5, <3>1, <3>3, <3>4
  <2>3. CASE \E i \in live : j = Job(chain[i], Nil) /\ \A k \in live : k <= i
    <3>. PICK i \in live : j = Job(chain[i], Nil) /\ \A k \in live : k <= i
      BY <2>3
    <3>1. MayConnect(chain[i], Nil, joined, Departed')
      <4>1. \A l \in DOMAIN chain : i < l => chain[l] \in Departed'
        <5>1. \A l \in DOMAIN chain : l \in Nat
          BY ChainFacts
        <5>2. \A l \in DOMAIN chain : i < l => l \notin live
          BY <1>6, <5>1
        <5>. QED BY <1>3, <5>2 DEF live
      <4>2. i \in DOMAIN chain
        BY DEF live
      <4>. QED BY <1>3, <4>1, <4>2, ChainEnd
    <3>. QED BY <1>5, <1>6, <3>1
  <2>4. CASE \E i \in live : j = Job(Nil, chain[i]) /\ \A k \in live : i <= k
    <3>. PICK i \in live : j = Job(Nil, chain[i]) /\ \A k \in live : i <= k
      BY <2>4
    <3>1. 0 \in 0..Len(chain) /\ 0 < i
      BY <1>6, ChainFacts
    <3>2. MayConnect(Nil, chain[i], joined, Departed')
      BY <1>4, <3>1
    <3>. QED BY <1>5, <1>6, <3>2
  <2>. QED BY <2>1, <2>2, <2>3, <2>4
<1>8. ToSet(chain') \subseteq ToSet(chain)
  BY <1>2
<1>. HIDE DEF new
<1>. QED BY <1>1, <1>2, <1>7, <1>8, MembersRemoved

LEMMA AppendedToSet ==
  ASSUME NEW order \in Seq(Nodes), NEW n \in Nodes
  PROVE  ToSet(Append(order, n)) = ToSet(order) \cup {n}
<1>. DEFINE len == Len(order)
            new == Append(order, n)
<1>1. /\ len \in Nat /\ DOMAIN order = 1..len /\ DOMAIN new = 1..len + 1
      /\ \A i \in 1..len : new[i] = order[i]
      /\ new[len + 1] = n
  OBVIOUS
<1>. HIDE DEF len, new
<1>2. ASSUME NEW x \in ToSet(new) PROVE x \in ToSet(order) \cup {n}
  <2>1. PICK i \in 1..len + 1 : x = new[i]
    BY <1>1, <1>2 DEF ToSet
  <2>2. i \in 1..len \/ i = len + 1
    BY <1>1
  <2>. QED BY <1>1, <2>1, <2>2 DEF ToSet
<1>3. ASSUME NEW x \in ToSet(order) \cup {n} PROVE x \in ToSet(new)
  <2>1. \E i \in 1..len + 1 : x = new[i]
    <3>1. 1..len \subseteq 1..len + 1 /\ len + 1 \in 1..len + 1
      BY <1>1
    <3>. QED BY <1>1, <1>3, <3>1 DEF ToSet
  <2>. QED BY <1>1, <2>1 DEF ToSet
<1>4. ToSet(new) = ToSet(order) \cup {n}
  BY <1>2, <1>3
<1>. QED BY <1>4 DEF new

LEMMA JoinKeeps ==
  ASSUME IInv, NEW n \in Nodes, Join(n)
  PROVE  IInv'
<1>. DEFINE len == Len(chain)
            last == chain[len]
<1>. PICK s : s = [node |-> last, succ |-> n, epoch |-> Epoch]
  OBVIOUS
<1>1. /\ n = joined + 1 /\ joined' = n /\ chain' = Append(chain, n)
      /\ down' = down \ {n}
      /\ IF chain = <<>>
         THEN predecessor' = predecessor /\ pendingSyncs' = pendingSyncs
         ELSE /\ predecessor' = [predecessor EXCEPT ![n] = last]
              /\ pendingSyncs' \subseteq pendingSyncs \cup {s}
      /\ UNCHANGED <<successor, events, eventVars, ackVars, clientVars, faults,
                     stopped, jobs, sync>>
  BY DEF Join, Last
<1>2. /\ chain \in Seq(Nodes) /\ joined \in Nat /\ n \in Nat /\ len \in Nat
      /\ DOMAIN chain = 1..len /\ joined < n /\ joined <= n
      /\ \A i \in DOMAIN chain : chain[i] \in Nodes /\ chain[i] \in 1..joined
  BY <1>1, ChainFacts
<1>3. /\ chain' \in Seq(Nodes) /\ Len(chain') = len + 1
      /\ DOMAIN chain' = 1..len + 1
      /\ \A i \in DOMAIN chain : chain'[i] = chain[i]
      /\ chain'[len + 1] = n
  BY <1>1, <1>2
<1>4. ToSet(chain') = ToSet(chain) \cup {n} /\ n \notin ToSet(chain)
  BY <1>1, <1>2, AppendedToSet DEF ToSet
<1>5. Departed' = Departed
  <2>1. 1..n = 1..joined \cup {n}
    BY <1>1, <1>2
  <2>2. n \notin 1..joined
    BY <1>2
  <2>. QED BY <1>1, <1>4, <2>1, <2>2 DEF Departed
<1>6. ChainInv'
  <2>1. \A i \in DOMAIN chain' : chain'[i] <= n
    <3>. SUFFICES ASSUME NEW i \in DOMAIN chain' PROVE chain'[i] <= n
      OBVIOUS
    <3>1. i \in DOMAIN chain \/ i = len + 1
      BY <1>2, <1>3
    <3>. QED BY <1>2, <1>3, <3>1
  <2>2. ASSUME NEW i \in DOMAIN chain', NEW j \in DOMAIN chain', i < j
        PROVE  chain'[i] < chain'[j]
    <3>1. i \in DOMAIN chain
      BY <1>2, <1>3, <2>2
    <3>2. CASE j \in DOMAIN chain
      BY <1>3, <2>2, <3>1, <3>2 DEF IInv, ChainInv
    <3>3. CASE j = len + 1
      BY <1>2, <1>3, <3>1, <3>3
    <3>. QED BY <1>2, <1>3, <3>2, <3>3
  <2>3. Len(chain') <= n
    <3>1. len <= joined
      BY DEF IInv, ChainInv
    <3>. QED BY <1>1, <1>2, <1>3, <3>1
  <2>4. stopped' \subseteq 1..n
    BY <1>1, <1>2 DEF IInv, ChainInv
  <2>. QED BY <1>1, <2>1, <2>2, <2>3, <2>4 DEF ChainInv
<1>7. ASSUME NEW k \in Nodes, k < n, k \notin Departed
      PROVE  chain # <<>> /\ k <= last
  <2>1. k \in 1..joined
    BY <1>1, <1>2, <1>7 DEF Nodes
  <2>2. PICK i \in DOMAIN chain : k = chain[i]
    BY <1>7, <2>1, ChainFacts DEF ToSet
  <2>3. i \in 1..len /\ len \in DOMAIN chain
    BY <1>2, <2>2
  <2>4. i = len \/ k < last
    BY <1>2, <2>2, <2>3, ChainFacts DEF Increasing
  <2>. QED BY <1>2, <2>2, <2>3, <2>4
<1>10. chain # <<>> => /\ last \in Nodes /\ Precedes(last, n, Departed)
                       /\ s \in [node : Nodes, succ : Nodes \cup {Nil}, epoch : Nat]
                       /\ MayConnect(s.node, s.succ, n, Departed)
  <2>. SUFFICES ASSUME chain # <<>>
       PROVE  /\ last \in Nodes /\ Precedes(last, n, Departed)
              /\ s \in [node : Nodes, succ : Nodes \cup {Nil}, epoch : Nat]
              /\ MayConnect(s.node, s.succ, n, Departed)
    OBVIOUS
  <2>1. last \in Nodes /\ last \in 1..joined
    BY <1>2
  <2>. HIDE DEF last
  <2>2. last \in Nat /\ last < n
    BY <1>2, <2>1
  <2>3. Between(last, n, Departed)
    <3>1. ASSUME NEW k \in Nodes, last < k, k < n PROVE k \in Departed
      <4>1. k \in Nat
        BY ChainFacts
      <4>. QED BY <1>7, <2>2, <3>1, <4>1
    <3>. QED BY <3>1 DEF Between
  <2>4. s \in [node : Nodes, succ : Nodes \cup {Nil}, epoch : Nat]
    BY <2>1, ChainFacts
  <2>5. s.node = last /\ s.succ = n /\ n # Nil
    BY <2>2 DEF Nil
  <2>. QED BY <1>2, <2>1, <2>2, <2>3, <2>4, <2>5 DEF Precedes, MayConnect
<1>. HIDE DEF last, len
<1>11. /\ predecessor' \in [Nodes -> Nodes \cup {Nil}]
       /\ \A k \in Nodes : k # n => predecessor'[k] = predecessor[k]
       /\ Precedes(predecessor'[n], n, Departed)
  <2>1. predecessor \in [Nodes -> Nodes \cup {Nil}]
    BY DEF IInv, ReconfigurationTypeOK, TypeOK
  <2>2. CASE chain = <<>>
    <3>1. Precedes(predecessor[n], n, Departed)
      <4>1. predecessor[n] = Nil
        BY <1>2 DEF IInv, AbsentInv
      <4>2. Between(Nil, n, Departed)
        BY <1>7, <2>2 DEF Between
      <4>. QED BY <1>1, <1>2, <4>1, <4>2 DEF Precedes, Nil
    <3>. QED BY <1>1, <2>1, <2>2, <3>1
  <2>3. CASE chain # <<>>
    <3>1. predecessor' = [predecessor EXCEPT ![n] = last]
      BY <1>1, <2>3
    <3>. QED BY <1>10, <2>1, <2>3, <3>1
  <2>. QED BY <2>2, <2>3
<1>12. /\ pendingSyncs' \subseteq
            [node : Nodes, succ : Nodes \cup {Nil}, epoch : Nat]
       /\ \A t \in pendingSyncs' : MayConnect(t.node, t.succ, n, Departed)
  <2>1. \A t \in pendingSyncs :
          /\ t \in [node : Nodes, succ : Nodes \cup {Nil}, epoch : Nat]
          /\ MayConnect(t.node, t.succ, joined, Departed)
    BY ConnectionsAreOK
  <2>2. \A t \in pendingSyncs : MayConnect(t.node, t.succ, n, Departed)
    <3>1. \A t \in pendingSyncs : t.succ # Nil => t.succ \in Nat
      BY <2>1, ChainFacts
    <3>. QED BY <1>2, <2>1, <3>1 DEF MayConnect
  <2>3. pendingSyncs' = pendingSyncs \/ (chain # <<>> /\ pendingSyncs' \subseteq pendingSyncs \cup {s})
    BY <1>1
  <2>. QED BY <1>10, <2>1, <2>2, <2>3
<1>13. ReconfigurationTypes'
  <2>1. joined' \in Initial..N
    <3>1. joined \in Initial..N /\ n \in 1..N /\ Initial \in Nat /\ N \in Nat
      BY ChainAssumption, ReconfigurationAssumption
      DEF Nodes, IInv, ReconfigurationTypeOK, ReconfigurationTypes
    <3>. QED BY <1>1, <3>1
  <2>. QED BY <1>1, <1>3, <1>12, <2>1
       DEF IInv, ReconfigurationTypeOK, ReconfigurationTypes
<1>14. WiringInv'
  <2>1. ASSUME NEW q \in 1..n PROVE Precedes(predecessor'[q], q, Departed)
    <3>1. CASE q = n
      BY <1>11, <3>1
    <3>2. CASE q # n
      <4>1. q \in 1..joined
        BY <1>1, <1>2, <3>2
      <4>2. N \in Nat /\ n \in 1..N
        BY ChainAssumption DEF Nodes
      <4>3. q \in Nodes
        BY <1>2, <4>2 DEF Nodes
      <4>. QED BY <1>11, <3>2, <4>1, <4>3 DEF IInv, WiringInv
    <3>. QED BY <3>1, <3>2
  <2>2. \A q \in Nodes \cup {Nil} : \A p :
          MayConnect(p, q, joined, Departed) => MayConnect(p, q, n, Departed)
    <3>1. \A q \in Nodes \cup {Nil} : q # Nil => q \in Nat
      BY ChainFacts
    <3>. QED BY <1>2, <3>1 DEF MayConnect
  <2>3. \A p \in Nodes : MayConnect(p, successor[p], n, Departed)
    <3>1. \A p \in Nodes : successor[p] \in Nodes \cup {Nil}
      BY DEF IInv, ReconfigurationTypeOK, TypeOK
    <3>. QED BY <2>2, <3>1 DEF IInv, WiringInv
  <2>4. \A j \in jobs : /\ MayConnect(j.pred, j.succ, n, Departed)
                        /\ j.pc \in {"pred", "stopping"} => j.succ # Nil
                        /\ j.pc = "succ" => j.pred # Nil
    BY <2>2, JobIsOK DEF JobState, JobOK
  <2>5. \A k \in Nodes : sync[k].pc # "idle" =>
                           MayConnect(k, sync[k].succ, n, Departed)
    BY <2>2, SyncStateIsOK DEF SyncState, SyncStateOK
  <2>. QED BY <1>1, <1>5, <1>12, <2>1, <2>3, <2>4, <2>5
       DEF WiringInv, MayConnect, Precedes, Between
<1>15. UNCHANGED <<nextEventSeq, eventQueue, replicator, outgoing, lateEvents,
                   lastConfirmed, nextAckSeq, ackQueue, ackProcessor, applied,
                   lateAcks>>
  BY <1>1 DEF eventVars, ackVars
<1>16. EventTypes' /\ SendInv' /\ OrderInv'
  BY <1>1, <1>5, <1>15
  DEF IInv, SendInv, OrderInv, ReconfigurationTypeOK, TypeOK, EventTypes
<1>17. AbsentInv'
  <2>1. \A k \in Nodes : k > n => k > joined /\ k # n
    BY <1>2, ChainFacts
  <2>. QED BY <1>1, <1>11, <1>15, <2>1 DEF IInv, AbsentInv
<1>18. AckTypes' /\ ConfirmInv' /\ LateAcksInv'
  BY <1>1, <1>5, <1>15 DEF IInv, ConfirmInv, LateAcksInv,
     ReconfigurationTypeOK, TypeOK, AckTypes
<1>19. ClientTypes' /\ HandlersInv'
  BY <1>1, <1>2, <1>5, ClientFrame DEF IInv, ReconfigurationTypeOK, TypeOK
<1>20. SyncInv'
  BY <1>1, <1>5, SyncFrame DEF IInv
<1>21. LifeInv'
  <2>1. \A k \in 1..n : k # n => k \in 1..joined
    BY <1>1, <1>2
  <2>. QED BY <1>1, <1>5, <2>1 DEF IInv, LifeInv
<1>. QED BY <1>1, <1>6, <1>11, <1>13, <1>14, <1>16, <1>17, <1>18, <1>19,
            <1>20, <1>21
     DEF IInv, ReconfigurationTypeOK, TypeOK

-----------------------------------------------------------------------------
LEMMA InitIInv == InitReconfiguration => IInv
<1>. SUFFICES ASSUME InitReconfiguration PROVE IInv
  OBVIOUS
<1>1. /\ predecessor = [n \in Nodes |-> IF n <= Initial THEN n - 1 ELSE Nil]
      /\ successor = [n \in Nodes |-> IF n < Initial THEN n + 1 ELSE Nil]
      /\ chain = [n \in 1..Initial |-> n]
      /\ joined = Initial /\ stopped = {} /\ jobs = {} /\ pendingSyncs = {}
      /\ sync = [n \in Nodes |-> NoSync]
      /\ down = Nodes \ 1..Initial
      /\ EmptyNodes /\ NoRequests(Nodes \ 1..Initial)
  BY DEF InitReconfiguration, NoRequests
<1>2. /\ N \in Nat /\ Initial \in Nat /\ Initial >= 1 /\ Initial <= N
      /\ Nodes = 1..N /\ 1..Initial \subseteq Nodes /\ Nodes \subseteq Nat
  BY ChainAssumption, ReconfigurationAssumption DEF Nodes
<1>3. TypeOK
  <2>1. EventTypes /\ AckTypes /\ ClientTypes
    BY <1>1, <1>2 DEF EmptyNodes, NoRequests, EventTypes, AckTypes, ClientTypes,
       ReplicatorStates, AckProcessorStates, HandlerStates, Event
  <2>2. /\ predecessor \in [Nodes -> Nodes \cup {Nil}]
        /\ successor \in [Nodes -> Nodes \cup {Nil}]
    BY <1>1, <1>2 DEF Nil
  <2>3. faults \in 0..MaxFaults /\ down \subseteq Nodes
    BY <1>1, ChainAssumption DEF NoRequests
  <2>. QED BY <2>1, <2>2, <2>3 DEF TypeOK
<1>4. chain \in Seq(Nodes) /\ Len(chain) = Initial /\ DOMAIN chain = 1..Initial
  BY <1>1, <1>2
<1>5. ReconfigurationTypes
  <2>1. sync \in [Nodes -> [pc : {"idle", "stopping", "query", "sync"},
                            succ : Nodes \cup {Nil},
                            ack : Nat, lastAck : Sequence,
                            event : Nat, lastEvent : Sequence]]
    BY <1>1 DEF NoSync, Sequence
  <2>2. joined \in Initial..N
    BY <1>1, <1>2
  <2>. QED BY <1>1, <1>4, <2>1, <2>2 DEF ReconfigurationTypes
<1>6. \A i \in DOMAIN chain : chain[i] = i
  BY <1>1, <1>4
<1>7. ChainInv
  <2>1. \A i \in DOMAIN chain : chain[i] <= joined
    BY <1>1, <1>2, <1>4, <1>6
  <2>2. \A i, j \in DOMAIN chain : i < j => chain[i] < chain[j]
    BY <1>6
  <2>. QED BY <1>1, <1>2, <1>4, <2>1, <2>2 DEF ChainInv
<1>8. WiringInv
  <2>1. \A q \in 1..joined : Precedes(predecessor[q], q, Departed)
    BY <1>1, <1>2 DEF Precedes, Between
  <2>2. \A p \in Nodes : MayConnect(p, successor[p], joined, Departed)
    BY <1>1, <1>2 DEF MayConnect, Precedes, Between, Nil
  <2>. QED BY <1>1, <2>1, <2>2 DEF WiringInv, NoSync
<1>9. SendInv /\ ConfirmInv /\ SyncInv
  BY <1>1 DEF EmptyNodes, NoSync, SendInv, ConfirmInv, SyncInv, Holds
<1>10. OrderInv /\ HandlersInv /\ LateAcksInv
  BY <1>1 DEF EmptyNodes, NoRequests, OrderInv, HandlersInv, LateAcksInv
<1>11. AbsentInv /\ LifeInv
  BY <1>1, <1>2 DEF EmptyNodes, NoRequests, AbsentInv, LifeInv
<1>. QED BY <1>3, <1>5, <1>7, <1>8, <1>9, <1>10, <1>11
     DEF IInv, ReconfigurationTypeOK

LEMMA StutterKeeps == ASSUME IInv, UNCHANGED allVars PROVE IInv'
<1>1. UNCHANGED <<neighbours, events, eventVars, ackVars, clientVars, faults,
                  down, chain, joined, stopped, jobs, pendingSyncs, sync>>
  BY DEF allVars, vars, reconfigurationVars, neighbours, eventVars, ackVars,
         clientVars
<1>2. Departed' = Departed /\ ChainInv'
  BY <1>1, MembersFrame DEF IInv
<1>3. ReconfigurationTypes' /\ down \subseteq Nodes
  BY <1>1 DEF IInv, ReconfigurationTypeOK, ReconfigurationTypes, TypeOK
<1>4. \A j \in jobs' : /\ MayConnect(j.pred, j.succ, joined, Departed')
                       /\ j.pc \in {"pred", "stopping"} => j.succ # Nil
                       /\ j.pc = "succ" => j.pred # Nil
  BY <1>1, <1>2 DEF IInv, WiringInv, MayConnect, Precedes, Between
<1>. QED BY <1>1, <1>2, <1>3, <1>4, MembersGo

LEMMA ReplicatorKeeps ==
  ASSUME IInv, NEW n \in Nodes, ReplicatorGoroutine(n) PROVE IInv'
BY TakeNextEventKeeps, ReplicatorWaitsKeeps, ReplicateAtTailKeeps,
   ReplicateToSuccessorKeeps DEF ReplicatorGoroutine, ReplicatorStep

LEMMA AckProcessorKeeps ==
  ASSUME IInv, NEW n \in Nodes, AckProcessorGoroutine(n) PROVE IInv'
BY TakeNextAckKeeps, ProcessorWaitsKeeps, ConfirmAckKeeps, ApplyKeeps,
   SignalAtHeadKeeps, AckToPredecessorKeeps
DEF AckProcessorGoroutine, AckProcessorStep

LEMMA ChainStepKeeps == ASSUME IInv, ChainStep PROVE IInv'
<1>1. UNCHANGED reconfigurationVars
  BY DEF ChainStep
<1>2. CASE \E n \in Nodes, w \in Writes : HandleWrite(n, w)
  BY <1>1, <1>2, HandleWriteKeeps
<1>3. CASE \E w \in Writes : HandlerStep(w)
  BY <1>1, <1>3, HandlerOnlyKeeps, BufferOwnEventKeeps DEF HandlerStep
<1>4. CASE Fault
  BY <1>1, <1>4, ReplicateTimesOutKeeps, AckTimesOutKeeps,
     DeliverLateEventKeeps, DeliverLateAckKeeps DEF Fault
<1>. QED BY <1>2, <1>3, <1>4 DEF ChainStep

LEMMA NextIInv == IInv /\ [NextReconfiguration]_allVars => IInv'
<1>. SUFFICES ASSUME IInv, [NextReconfiguration]_allVars PROVE IInv'
  OBVIOUS
<1>1. CASE ChainStep
  BY <1>1, ChainStepKeeps
<1>2. CASE \E n \in Nodes : ReplicatorGoroutine(n) \/ AckProcessorGoroutine(n)
  BY <1>2, ReplicatorKeeps, AckProcessorKeeps
<1>3. CASE \E n \in Nodes : SyncGoroutine(n)
  BY <1>3, BeginSyncKeeps, InstallSuccessorKeeps, QuerySuccessorKeeps,
     SyncAckKeeps, SyncEventKeeps, EndSyncKeeps DEF SyncGoroutine
<1>4. CASE \E p, s \in Nodes \cup {Nil} : JobStep(p, s)
  BY <1>4, BeginSetPredecessorKeeps, InstallPredecessorKeeps,
     SetPredecessorFailsKeeps, CallSetSuccessorKeeps DEF JobStep
<1>5. CASE Membership
  BY <1>5, CrashOrStopKeeps, LeaveKeeps, JoinKeeps, RemoveDeadKeeps
  DEF Membership, Monitor
<1>6. CASE UNCHANGED allVars
  BY <1>6, StutterKeeps
<1>. QED BY <1>1, <1>2, <1>3, <1>4, <1>5, <1>6 DEF NextReconfiguration

(* The inductive invariant holds. *)
LEMMA InductiveInvariant == ReconfigurationSpec => []IInv
BY InitIInv, NextIInv, PTL DEF ReconfigurationSpec

(* Every variable of the chain and of its reconfiguration keeps its type,  *)
(* so no buffer or queue is asked for what it cannot hold: the sequence    *)
(* numbers that synchronisations compute are numbers or -1.                *)
THEOREM ReconfigurationTypeCorrect == ReconfigurationSpec => []ReconfigurationTypeOK
<1>1. IInv => ReconfigurationTypeOK
  BY DEF IInv
<1>. QED BY <1>1, InductiveInvariant, PTL

(* No node of the chain dies unless it has crashed, for any number of      *)
(* nodes that crash, leave and join, however the reconnections overlap,    *)
(* and whatever RPCs time out and are handled late: the panics of AddEvent *)
(* and AcknowledgeEvent and the nil event of bufferAck are out of reach    *)
(* of every node the control plane still lists.                            *)
THEOREM MembersAlwaysSurvive == ReconfigurationSpec => []MembersSurvive
<1>1. IInv => MembersSurvive
  <2>. SUFFICES ASSUME IInv, NEW n \in ToSet(chain) \cap down PROVE n \in stopped
    BY DEF MembersSurvive
  <2>1. n \in 1..joined
    BY ChainFacts DEF ToSet
  <2>. QED BY <2>1 DEF IInv, LifeInv, Departed
<1>. QED BY <1>1, InductiveInvariant, PTL

-----------------------------------------------------------------------------
(* The HEAD stays.  Crashes, departures and arrivals behind it lose        *)
(* nothing and mix nothing up: every event anywhere is the one that the    *)
(* HEAD has at its number, and a number is acknowledged to a node only     *)
(* after all nodes behind it have the event.                               *)

HeadStays == 1 \notin MayCrash \cup MayLeave

HeadInv == 1 \notin Departed /\ stopped \subseteq down

(* e is what the log has at e's number. *)
OfLog(e, log) == e.seq < Len(log) /\ e.write = log[e.seq + 1]

(* All events are the HEAD's. *)
EventsInv ==
  /\ \A n \in Nodes :
       /\ \A i \in 1..Len(events[n]) : events[n][i] = events[1][i]
       /\ \A e \in eventQueue[n] \cup outgoing[n] : OfLog(e, events[1])
  /\ \A m \in lateEvents : OfLog(m.event, events[1])

Applies(pc) == pc \in {"confirm", "apply"}

(* A storage has the events up to the ACK processor's number, in order. *)
AppliedInv ==
  \A n \in Nodes :
    /\ Len(applied[n]) = IF Applies(ackProcessor[n]) THEN nextAckSeq[n] - 1
                                                     ELSE nextAckSeq[n]
    /\ \A i \in 1..Len(applied[n]) : applied[n][i] = events[1][i]

(* Of the nodes that the chain began with, those behind p that have not    *)
(* gone have event s in their buffers.                                     *)
HeldBehind(p, s, gone, buffers) ==
  \A q \in 1..Initial : p < q /\ q \notin gone => s < Len(buffers[q])

AckedInv ==
  /\ \A p \in Nodes :
       /\ HeldBehind(p, nextAckSeq[p] - 1, Departed, events)
       /\ \A s \in ackQueue[p] : HeldBehind(p, s, Departed, events)
       /\ sync[p].pc = "sync" =>
            HeldBehind(p, sync[p].lastAck, Departed, events)
  /\ \A m \in lateAcks : HeldBehind(m.to, m.seq, Departed, events)

(* A write is where its handler says; its result is there, or was, only    *)
(* when the HEAD's ACK processor has come to it.                           *)
AnswersInv ==
  \A w \in Writes :
    /\ handler[w].pc # "idle" => events[1][handler[w].seq + 1] = w
    /\ channel[w] # {} \/ handler[w].pc = "answered" =>
         handler[w].pc # "idle" /\ handler[w].seq < nextAckSeq[1]

HInv == HeadInv /\ EventsInv /\ AppliedInv /\ AckedInv /\ AnswersInv

LEMMA HeadFacts ==
  ASSUME IInv, HeadInv
  PROVE  /\ 1 \in Nodes /\ 1..Initial \subseteq Nodes
         /\ Initial \in Nat /\ joined \in Nat /\ 1 <= Initial /\ Initial <= joined
         /\ \A n \in Nodes : /\ n \in Nat /\ n >= 1
                             /\ events[n] \in Seq(Writes)
                             /\ Len(events[n]) \in Nat
                             /\ Len(events[n]) <= Len(events[1])
         /\ \A n \in 1..joined : predecessor[n] = Nil => n = 1
         /\ \A w \in Writes : handler[w].pc # "idle" =>
              /\ handler[w].node = 1 /\ handler[w].seq \in Nat
              /\ handler[w].seq < Len(events[1])
<1>1. /\ N \in Nat /\ Initial \in Nat /\ joined \in Nat
      /\ 1 <= Initial /\ Initial <= joined /\ joined <= N
  BY ChainAssumption, ReconfigurationAssumption
  DEF Nodes, IInv, ReconfigurationTypeOK, ReconfigurationTypes
<1>2. /\ 1 \in Nodes /\ 1..Initial \subseteq Nodes
      /\ \A n \in Nodes : n \in Nat /\ n >= 1
  BY <1>1 DEF Nodes
<1>3. \A n \in Nodes : events[n] \in Seq(Writes) /\ Len(events[n]) \in Nat
  BY NodeTypes DEF IInv, ReconfigurationTypeOK
<1>4. ASSUME NEW n \in Nodes PROVE Len(events[n]) <= Len(events[1])
  <2>1. CASE n = 1
    BY <1>2, <1>3, <2>1
  <2>2. CASE n # 1
    <3>1. 1 < n
      BY <1>2, <2>2
    <3>. QED BY <1>2, <3>1 DEF HeadInv, IInv, OrderInv
  <2>. QED BY <2>1, <2>2
<1>5. ASSUME NEW n \in 1..joined, Between(0, n, Departed) PROVE n = 1
  <2>1. ~(1 < n)
    BY <1>2, <1>5 DEF Between, HeadInv
  <2>. QED BY <1>1, <2>1
<1>6. \A n \in 1..joined : predecessor[n] = Nil => n = 1
  <2>1. \A n \in 1..joined : predecessor[n] = Nil => Between(0, n, Departed)
    BY DEF IInv, WiringInv, Precedes, Nil
  <2>. QED BY <1>5, <2>1
<1>7. ASSUME NEW w \in Writes, handler[w].pc # "idle"
      PROVE  /\ handler[w].node = 1 /\ handler[w].seq \in Nat
             /\ handler[w].seq < Len(events[1])
  <2>1. /\ handler[w].node \in 1..joined
        /\ Between(0, handler[w].node, Departed)
        /\ handler[w].seq < Len(events[handler[w].node])
    BY <1>7 DEF IInv, HandlersInv
  <2>2. handler[w].node = 1
    BY <1>5, <2>1
  <2>3. handler[w].seq \in Nat
    BY DEF IInv, ReconfigurationTypeOK, TypeOK, ClientTypes
  <2>. QED BY <2>1, <2>2, <2>3
<1>. QED BY <1>1, <1>2, <1>3, <1>4, <1>6, <1>7

-----------------------------------------------------------------------------
(* What the parts depend on. *)

LEMMA HeadRemains ==
  ASSUME HeadInv, UNCHANGED <<chain, joined, stopped>>, down \subseteq down'
  PROVE  HeadInv' /\ Departed' = Departed
BY DEF HeadInv, Departed

(* What is put into queues and hands is the HEAD's. *)
SendsOfHead ==
  /\ events' = events
  /\ \A n \in Nodes : \A e \in eventQueue'[n] \cup outgoing'[n] :
       e \in eventQueue[n] \cup outgoing[n] \/ OfLog(e, events[1])
  /\ \A m \in lateEvents' : m \in lateEvents \/ OfLog(m.event, events[1])

LEMMA EventsStay == ASSUME EventsInv, SendsOfHead PROVE EventsInv'
BY DEF EventsInv, SendsOfHead

(* ACK processors move on, but take no number and apply nothing. *)
LEMMA AppliedStays ==
  ASSUME AppliedInv, UNCHANGED <<applied, nextAckSeq>>, events'[1] = events[1],
         \A n \in Nodes : Applies(ackProcessor'[n]) <=> Applies(ackProcessor[n])
  PROVE  AppliedInv'
BY DEF AppliedInv

(* Numbers that are acknowledged are held behind. *)
AcksOfHeld ==
  /\ \A p \in Nodes : \A s \in ackQueue'[p] :
       s \in ackQueue[p] \/ HeldBehind(p, s, Departed, events)
  /\ \A m \in lateAcks' :
       m \in lateAcks \/ HeldBehind(m.to, m.seq, Departed, events)
  /\ \A p \in Nodes : sync'[p].pc = "sync" =>
       \/ sync[p].pc = "sync" /\ sync'[p].lastAck = sync[p].lastAck
       \/ HeldBehind(p, sync'[p].lastAck, Departed, events)

(* The nodes that have to hold a number become fewer, their buffers longer. *)
LEMMA HeldForGood ==
  ASSUME NEW p, NEW s \in Int, NEW gone, NEW gone2, gone \subseteq gone2,
         NEW buffers, NEW buffers2, HeldBehind(p, s, gone, buffers),
         \A q \in 1..Initial : /\ Len(buffers[q]) \in Nat
                               /\ Len(buffers2[q]) \in Nat
                               /\ Len(buffers[q]) <= Len(buffers2[q])
  PROVE  HeldBehind(p, s, gone2, buffers2)
<1>. SUFFICES ASSUME NEW q \in 1..Initial, p < q, q \notin gone2
     PROVE  s < Len(buffers2[q])
  BY DEF HeldBehind
<1>1. s < Len(buffers[q])
  BY DEF HeldBehind
<1>. QED BY <1>1

(* A node's number is acknowledged to its predecessor, old or new: nobody  *)
(* stands between the two.                                                 *)
LEMMA HeldToo ==
  ASSUME IInv, HInv, NEW p \in Nodes, NEW n \in Nodes, Precedes(p, n, Departed),
         NEW s \in Int, s < Len(events[n]), s <= nextAckSeq[n] - 1
  PROVE  HeldBehind(p, s, Departed, events)
<1>. SUFFICES ASSUME NEW q \in 1..Initial, p < q, q \notin Departed
     PROVE  s < Len(events[q])
  BY DEF HeldBehind
<1>1. /\ q \in Nodes /\ q \in Nat /\ n \in Nat /\ p \in Nat
      /\ Len(events[q]) \in Nat
  BY HeadFacts DEF HInv
<1>2. ~(q < n)
  BY <1>1 DEF Precedes, Between
<1>3. n < q => nextAckSeq[n] - 1 < Len(events[q])
  BY DEF HInv, AckedInv, HeldBehind
<1>4. nextAckSeq[n] \in Nat
  BY NodeTypes DEF IInv, ReconfigurationTypeOK
<1>. QED BY <1>1, <1>2, <1>3, <1>4

(* The numbers that the parts are about. *)
LEMMA AckNumbers ==
  ASSUME IInv
  PROVE  /\ \A p \in Nodes : /\ nextAckSeq[p] \in Nat /\ ackQueue[p] \subseteq Nat
                             /\ sync[p].lastAck \in Int
                             /\ Len(events[p]) \in Nat
         /\ \A m \in lateAcks : m.to \in Nodes /\ m.seq \in Nat
<1>1. \A p \in Nodes : /\ nextAckSeq[p] \in Nat /\ ackQueue[p] \subseteq Nat
                       /\ Len(events[p]) \in Nat
  BY NodeTypes DEF IInv, ReconfigurationTypeOK
<1>2. \A p \in Nodes : sync[p].lastAck \in Int
  BY DEF IInv, ReconfigurationTypeOK, ReconfigurationTypes, Sequence
<1>3. \A m \in lateAcks : m.to \in Nodes /\ m.seq \in Nat
  BY DEF IInv, ReconfigurationTypeOK, TypeOK, AckTypes
<1>. QED BY <1>1, <1>2, <1>3

LEMMA AckedStays ==
  ASSUME IInv, IInv', HInv, Departed \subseteq Departed',
         nextAckSeq' = nextAckSeq, AcksOfHeld,
         \A q \in Nodes : Len(events[q]) <= Len(events'[q])
  PROVE  AckedInv'
<1>1. /\ 1..Initial \subseteq Nodes
      /\ \A q \in Nodes : Len(events[q]) \in Nat /\ Len(events'[q]) \in Nat
  BY HeadFacts, AckNumbers DEF HInv
<1>2. ASSUME NEW p \in Nodes, NEW s \in Int, HeldBehind(p, s, Departed, events)
      PROVE  HeldBehind(p, s, Departed', events')
  BY <1>1, <1>2, HeldForGood
<1>3. ASSUME NEW p \in Nodes
      PROVE  /\ HeldBehind(p, nextAckSeq'[p] - 1, Departed', events')
             /\ \A s \in ackQueue'[p] : HeldBehind(p, s, Departed', events')
             /\ sync'[p].pc = "sync" =>
                  HeldBehind(p, sync'[p].lastAck, Departed', events')
  <2>1. HeldBehind(p, nextAckSeq'[p] - 1, Departed', events')
    <3>1. HeldBehind(p, nextAckSeq[p] - 1, Departed, events)
      BY DEF HInv, AckedInv
    <3>2. nextAckSeq[p] - 1 \in Int
      BY AckNumbers
    <3>. QED BY <1>2, <3>1, <3>2
  <2>2. ASSUME NEW s \in ackQueue'[p]
        PROVE  HeldBehind(p, s, Departed', events')
    <3>1. HeldBehind(p, s, Departed, events)
      BY DEF HInv, AckedInv, AcksOfHeld
    <3>2. s \in Int
      <4>1. ackQueue'[p] \subseteq Nat
        BY DEF IInv, ReconfigurationTypeOK, TypeOK, AckTypes
      <4>. QED BY <4>1
    <3>. QED BY <1>2, <3>1, <3>2
  <2>3. ASSUME sync'[p].pc = "sync"
        PROVE  HeldBehind(p, sync'[p].lastAck, Departed', events')
    <3>1. HeldBehind(p, sync'[p].lastAck, Departed, events)
      BY <2>3 DEF HInv, AckedInv, AcksOfHeld
    <3>2. sync'[p].lastAck \in Int
      BY DEF IInv, ReconfigurationTypeOK, ReconfigurationTypes, Sequence
    <3>. QED BY <1>2, <3>1, <3>2
  <2>. QED BY <2>1, <2>2, <2>3
<1>4. ASSUME NEW m \in lateAcks'
      PROVE  HeldBehind(m.to, m.seq, Departed', events')
  <2>1. HeldBehind(m.to, m.seq, Departed, events)
    BY DEF HInv, AckedInv, AcksOfHeld
  <2>2. m.to \in Nodes /\ m.seq \in Int
    BY DEF IInv, ReconfigurationTypeOK, TypeOK, AckTypes
  <2>. QED BY <1>2, <2>1, <2>2
<1>. QED BY <1>3, <1>4 DEF AckedInv

LEMMA AnswersStay ==
  ASSUME AnswersInv, UNCHANGED <<handler, channel, nextAckSeq>>,
         events'[1] = events[1]
  PROVE  AnswersInv'
BY DEF AnswersInv

(* A step of the goroutines that adds no event to a buffer, takes no       *)
(* number, applies nothing and answers nobody.                             *)
LEMMA GoroutineStep ==
  ASSUME IInv, IInv', HInv,
         UNCHANGED <<chain, joined, stopped, nextAckSeq, applied, handler,
                     channel>>,
         down \subseteq down',
         SendsOfHead, AcksOfHeld,
         \A n \in Nodes : Applies(ackProcessor'[n]) <=> Applies(ackProcessor[n])
  PROVE  HInv'
<1>1. HeadInv' /\ Departed' = Departed
  BY HeadRemains DEF HInv
<1>2. events' = events
  BY DEF SendsOfHead
<1>3. \A q \in Nodes : Len(events[q]) <= Len(events'[q])
  BY <1>2, AckNumbers
<1>4. EventsInv' /\ AppliedInv' /\ AnswersInv'
  BY <1>2, EventsStay, AppliedStays, AnswersStay DEF HInv
<1>5. AckedInv'
  BY <1>1, <1>3, AckedStays
<1>. QED BY <1>1, <1>4, <1>5 DEF HInv

-----------------------------------------------------------------------------
(* Events. *)

LEMMA QueuedEvents ==
  ASSUME IInv, NEW m \in Nodes, NEW e, NEW states, BufferEvent(m, e, states)
  PROVE  \A n \in Nodes : \A f \in eventQueue'[n] : f \in eventQueue[n] \/ f = e
<1>1. eventQueue \in [Nodes -> SUBSET Event]
  BY DEF IInv, ReconfigurationTypeOK, TypeOK, EventTypes
<1>2. CASE eventQueue' = eventQueue
  BY <1>2
<1>3. CASE eventQueue' = [eventQueue EXCEPT
                            ![m] = {f \in @ : f.seq # e.seq} \cup {e}]
  BY <1>1, <1>3
<1>. QED BY <1>2, <1>3 DEF BufferEvent

(* A step that leaves everything about ACKs, clients and the chain alone.  *)
LEMMA EventOnlyStep ==
  ASSUME IInv, IInv', HInv,
         UNCHANGED <<ackVars, handler, channel, down, reconfigurationVars>>,
         SendsOfHead
  PROVE  HInv'
<1>1. UNCHANGED <<nextAckSeq, applied, ackProcessor, ackQueue, lateAcks,
                  chain, joined, stopped, sync>>
  BY DEF ackVars, reconfigurationVars
<1>2. AcksOfHeld
  BY <1>1 DEF AcksOfHeld
<1>. QED BY <1>1, <1>2, GoroutineStep

LEMMA HandleWriteOfHead ==
  ASSUME IInv, IInv', HInv, NEW n \in Nodes, NEW w \in Writes,
         HandleWrite(n, w), UNCHANGED reconfigurationVars
  PROVE  HInv'
<1>. PICK h : h = [pc |-> "created", node |-> n, seq |-> Len(events[n])]
  OBVIOUS
<1>1. /\ n \notin down /\ predecessor[n] = Nil /\ handler[w].pc = "idle"
      /\ events' = [events EXCEPT ![n] = Append(@, w)]
      /\ handler' = [handler EXCEPT ![w] = h]
      /\ UNCHANGED <<eventQueue, outgoing, lateEvents, nextAckSeq, ackQueue,
                     ackProcessor, applied, lateAcks, channel, down, chain,
                     joined, stopped, sync>>
  BY DEF HandleWrite, IsHead, eventVars, ackVars, reconfigurationVars
<1>2. n = 1
  BY <1>1, RunningHasJoined, HeadFacts DEF HInv
<1>3. /\ events \in [Nodes -> Seq(Writes)] /\ 1 \in Nodes
      /\ \A k \in Nodes : /\ Len(events[k]) \in Nat
                          /\ Len(events[k]) <= Len(events[1])
  BY HeadFacts DEF HInv, IInv, ReconfigurationTypeOK, TypeOK, EventTypes
<1>4. /\ events'[1] = Append(events[1], w)
      /\ \A k \in Nodes : k # 1 => events'[k] = events[k]
  BY <1>1, <1>2, <1>3
<1>5. /\ Len(events'[1]) = Len(events[1]) + 1
      /\ \A i \in 1..Len(events[1]) : events'[1][i] = events[1][i]
      /\ events'[1][Len(events[1]) + 1] = w
  BY <1>3, <1>4
<1>6. HeadInv' /\ Departed' = Departed
  BY <1>1, HeadRemains DEF HInv
<1>7. EventsInv'
  <2>1. ASSUME NEW k \in Nodes, NEW i \in 1..Len(events'[k])
        PROVE  events'[k][i] = events'[1][i]
    <3>1. CASE k = 1
      BY <3>1
    <3>2. CASE k # 1
      <4>1. i \in 1..Len(events[k]) /\ i \in 1..Len(events[1])
        BY <1>3, <1>4, <2>1, <3>2
      <4>2. events[k][i] = events[1][i]
        BY <4>1 DEF HInv, EventsInv
      <4>. QED BY <1>4, <1>5, <3>2, <4>1, <4>2
    <3>. QED BY <3>1, <3>2
  <2>2. ASSUME NEW e \in Event, OfLog(e, events[1]) PROVE OfLog(e, events'[1])
    <3>1. e.seq \in Nat /\ e.seq < Len(events[1])
      BY <2>2 DEF Event, OfLog
    <3>2. e.seq + 1 \in 1..Len(events[1]) /\ e.seq < Len(events'[1])
      BY <1>3, <1>5, <3>1
    <3>. QED BY <1>5, <2>2, <3>2 DEF OfLog
  <2>3. /\ \A k \in Nodes : eventQueue[k] \cup outgoing[k] \subseteq Event
        /\ \A m \in lateEvents : m.event \in Event
    BY DEF IInv, ReconfigurationTypeOK, TypeOK, EventTypes
  <2>4. /\ \A k \in Nodes : \A e \in eventQueue[k] \cup outgoing[k] :
             OfLog(e, events'[1])
        /\ \A m \in lateEvents : OfLog(m.event, events'[1])
    BY <2>2, <2>3 DEF HInv, EventsInv
  <2>. QED BY <1>1, <2>1, <2>4 DEF EventsInv
<1>8. AppliedInv'
  <2>1. ASSUME NEW k \in Nodes, NEW i \in 1..Len(applied[k])
        PROVE  applied[k][i] = events'[1][i]
    <3>1. /\ applied[k] \in Seq(Writes) /\ nextAckSeq[k] \in Nat
          /\ lastConfirmed[k] \in Nat \cup {-1}
      BY NodeTypes DEF IInv, ReconfigurationTypeOK
    <3>2. /\ lastConfirmed[k] < Len(events[k])
          /\ lastConfirmed[k] = IF ackProcessor[k] = "confirm"
                                THEN nextAckSeq[k] - 2 ELSE nextAckSeq[k] - 1
          /\ Len(applied[k]) = IF Applies(ackProcessor[k])
                               THEN nextAckSeq[k] - 1 ELSE nextAckSeq[k]
      BY DEF IInv, ConfirmInv, HInv, AppliedInv
    <3>3. Len(applied[k]) <= Len(events[k]) /\ Len(applied[k]) \in Nat
      BY <1>3, <3>1, <3>2 DEF Applies
    <3>4. i \in 1..Len(events[1])
      BY <1>3, <3>3
    <3>. QED BY <1>5, <3>4 DEF HInv, AppliedInv
  <2>. QED BY <1>1, <2>1 DEF HInv, AppliedInv
<1>9. AckedInv'
  <2>1. AcksOfHeld
    BY <1>1 DEF AcksOfHeld
  <2>2. ASSUME NEW q \in Nodes PROVE Len(events[q]) <= Len(events'[q])
    <3>1. CASE q = 1
      BY <1>3, <1>5, <3>1
    <3>2. CASE q # 1
      BY <1>3, <1>4, <3>2
    <3>. QED BY <3>1, <3>2
  <2>. QED BY <1>1, <1>6, <2>1, <2>2, AckedStays
<1>10. AnswersInv'
  <2>. SUFFICES ASSUME NEW v \in Writes
       PROVE  /\ handler'[v].pc # "idle" => events'[1][handler'[v].seq + 1] = v
              /\ channel[v] # {} \/ handler'[v].pc = "answered" =>
                   handler'[v].pc # "idle" /\ handler'[v].seq < nextAckSeq[1]
    BY <1>1 DEF AnswersInv
  <2>1. handler \in [Writes -> [pc : HandlerStates,
                                node : Nodes \cup {Nil}, seq : Nat]]
    BY DEF IInv, ReconfigurationTypeOK, TypeOK, ClientTypes
  <2>2. CASE v = w
    <3>1. handler'[v] = h /\ channel[v] = {}
      BY <1>1, <2>1, <2>2 DEF HInv, AnswersInv
    <3>. QED BY <1>2, <1>5, <2>2, <3>1
  <2>3. CASE v # w
    <3>1. handler'[v] = handler[v]
      BY <1>1, <2>1, <2>3
    <3>2. handler[v].pc # "idle" =>
            /\ events[1][handler[v].seq + 1] = v
            /\ handler[v].seq + 1 \in 1..Len(events[1])
      <4>1. handler[v].pc # "idle" =>
              handler[v].seq \in Nat /\ handler[v].seq < Len(events[1])
        BY HeadFacts DEF HInv
      <4>. QED BY <1>3, <4>1 DEF HInv, AnswersInv
    <3>. QED BY <1>5, <3>1, <3>2 DEF HInv, AnswersInv
  <2>. QED BY <2>2, <2>3
<1>. QED BY <1>6, <1>7, <1>8, <1>9, <1>10 DEF HInv

LEMMA HandlerOfHead ==
  ASSUME IInv, IInv', HInv, NEW w \in Writes, HandlerStep(w),
         UNCHANGED reconfigurationVars
  PROVE  HInv'
<1>1. handler \in [Writes -> [pc : HandlerStates,
                              node : Nodes \cup {Nil}, seq : Nat]]
  BY DEF IInv, ReconfigurationTypeOK, TypeOK, ClientTypes
<1>2. /\ handler[w].pc # "idle"
      /\ \E pc \in HandlerStates : /\ handler' = [handler EXCEPT ![w].pc = pc]
                                   /\ pc # "idle"
                                   /\ pc = "answered" => channel[w] # {}
      /\ UNCHANGED <<events, outgoing, lateEvents, nextAckSeq, ackQueue,
                     ackProcessor, applied, lateAcks, channel, down, chain,
                     joined, stopped, sync>>
  BY DEF HandlerStep, OpenAckChannel, BufferOwnEvent, ReceiveResult,
         HandlerStates, eventVars, ackVars, reconfigurationVars
<1>3. HeadInv' /\ Departed' = Departed
  BY <1>2, HeadRemains DEF HInv
<1>4. SendsOfHead
  <2>1. CASE OpenAckChannel(w) \/ ReceiveResult(w)
    <3>1. UNCHANGED eventQueue
      BY <2>1 DEF OpenAckChannel, ReceiveResult, eventVars
    <3>. QED BY <1>2, <3>1 DEF SendsOfHead
  <2>2. CASE BufferOwnEvent(w)
    <3>. PICK e : e = [seq |-> handler[w].seq, write |-> w]
      OBVIOUS
    <3>1. /\ handler[w].node = 1 /\ handler[w].seq < Len(events[1])
          /\ 1 \in Nodes
      BY <1>2, HeadFacts DEF HInv
    <3>2. BufferEvent(1, e, replicator)
      BY <2>2, <3>1 DEF BufferOwnEvent
    <3>3. OfLog(e, events[1])
      BY <1>2, <3>1 DEF OfLog, HInv, AnswersInv
    <3>. QED BY <1>2, <3>1, <3>2, <3>3, QueuedEvents DEF SendsOfHead
  <2>. QED BY <2>1, <2>2 DEF HandlerStep
<1>5. EventsInv' /\ AppliedInv'
  BY <1>2, <1>4, EventsStay, AppliedStays DEF HInv
<1>6. AckedInv'
  <2>1. AcksOfHeld
    BY <1>2 DEF AcksOfHeld
  <2>2. \A q \in Nodes : Len(events[q]) <= Len(events'[q])
    BY <1>2, AckNumbers
  <2>. QED BY <1>2, <1>3, <2>1, <2>2, AckedStays
<1>7. AnswersInv'
  <2>1. \A v \in Writes :
          /\ handler'[v].seq = handler[v].seq
          /\ handler'[v].pc # "idle" => handler[v].pc # "idle"
          /\ handler[v].pc # "idle" => handler'[v].pc # "idle"
          /\ handler'[v].pc = "answered" =>
               handler[v].pc = "answered" \/ channel[v] # {}
    BY <1>1, <1>2
  <2>. QED BY <1>2, <2>1 DEF HInv, AnswersInv
<1>. QED BY <1>3, <1>5, <1>6, <1>7 DEF HInv

LEMMA TakeNextEventOfHead ==
  ASSUME IInv, IInv', HInv, NEW n \in Nodes, TakeNextEvent(n),
         UNCHANGED reconfigurationVars
  PROVE  HInv'
<1>. PICK e \in eventQueue[n] :
       /\ eventQueue' = [eventQueue EXCEPT ![n] = @ \ {e}]
       /\ outgoing' = [outgoing EXCEPT ![n] = {e}]
       /\ events' = IF e.seq = Len(events[n])
                    THEN [events EXCEPT ![n] = Append(@, e.write)] ELSE events
       /\ down \subseteq down'
  BY DEF TakeNextEvent, NextEvents
<1>1. UNCHANGED <<lateEvents, nextAckSeq, ackQueue, ackProcessor, applied,
                  lateAcks, handler, channel, chain, joined, stopped, sync>>
  BY DEF TakeNextEvent, ackVars, clientVars, reconfigurationVars
<1>2. /\ OfLog(e, events[1]) /\ events \in [Nodes -> Seq(Writes)]
      /\ eventQueue \in [Nodes -> SUBSET Event]
      /\ outgoing \in [Nodes -> SUBSET Event]
      /\ 1 \in Nodes /\ Len(events[1]) \in Nat /\ Len(events[n]) \in Nat
  BY HeadFacts DEF HInv, EventsInv, IInv, ReconfigurationTypeOK, TypeOK, EventTypes
<1>3. HeadInv' /\ Departed' = Departed
  BY <1>1, HeadRemains DEF HInv
<1>4. /\ events'[1] = events[1]
      /\ \A k \in Nodes : Len(events[k]) <= Len(events'[k])
      /\ \A k \in Nodes : \A i \in 1..Len(events'[k]) : events'[k][i] = events[1][i]
  <2>1. \A k \in Nodes : \A i \in 1..Len(events[k]) : events[k][i] = events[1][i]
    BY DEF HInv, EventsInv
  <2>2. CASE events' = events
    BY <2>1, <2>2, HeadFacts DEF HInv
  <2>3. CASE /\ e.seq = Len(events[n])
             /\ events' = [events EXCEPT ![n] = Append(@, e.write)]
    <3>1. n # 1 /\ e.write = events[1][Len(events[n]) + 1]
      BY <1>2, <2>3 DEF OfLog
    <3>2. /\ events'[n] = Append(events[n], e.write)
          /\ \A k \in Nodes : k # n => events'[k] = events[k]
      BY <1>2, <2>3
    <3>3. /\ Len(events'[n]) = Len(events[n]) + 1
          /\ \A i \in 1..Len(events[n]) : events'[n][i] = events[n][i]
          /\ events'[n][Len(events[n]) + 1] = e.write
      <4>1. events[n] \in Seq(Writes)
        BY <1>2
      <4>. QED BY <3>2, <4>1
    <3>4. \A i \in 1..Len(events'[n]) :
            i \in 1..Len(events[n]) \/ i = Len(events[n]) + 1
      BY <1>2, <3>3
    <3>5. \A i \in 1..Len(events'[n]) : events'[n][i] = events[1][i]
      BY <2>1, <3>1, <3>3, <3>4
    <3>6. \A k \in Nodes : Len(events[k]) <= Len(events'[k])
      BY <1>2, <3>2, <3>3, HeadFacts DEF HInv
    <3>. QED BY <1>2, <2>1, <3>1, <3>2, <3>5, <3>6
  <2>. QED BY <2>2, <2>3
<1>5. EventsInv'
  <2>1. \A k \in Nodes : /\ eventQueue'[k] \subseteq eventQueue[k]
                         /\ outgoing'[k] \subseteq outgoing[k] \cup {e}
    BY <1>2
  <2>2. \A k \in Nodes : \A f \in eventQueue'[k] \cup outgoing'[k] :
          OfLog(f, events[1])
    BY <1>2, <2>1 DEF HInv, EventsInv
  <2>3. \A m \in lateEvents' : OfLog(m.event, events[1])
    BY <1>1 DEF HInv, EventsInv
  <2>4. ASSUME NEW k \in Nodes, NEW i \in 1..Len(events'[k])
        PROVE  events'[k][i] = events'[1][i]
    <3>1. events'[k][i] = events[1][i]
      BY <1>4
    <3>. QED BY <1>4, <3>1
  <2>5. \A f : OfLog(f, events'[1]) <=> OfLog(f, events[1])
    BY <1>4
  <2>. QED BY <2>2, <2>3, <2>4, <2>5 DEF EventsInv
<1>6. AppliedInv' /\ AnswersInv'
  BY <1>1, <1>4, AppliedStays, AnswersStay DEF HInv
<1>7. AckedInv'
  <2>1. AcksOfHeld
    BY <1>1 DEF AcksOfHeld
  <2>. QED BY <1>1, <1>3, <1>4, <2>1, AckedStays
<1>. QED BY <1>3, <1>5, <1>6, <1>7 DEF HInv

LEMMA ReplicatorWaitsOfHead ==
  ASSUME IInv, IInv', HInv, NEW n \in Nodes,
         \/ FindNoEvent(n) /\ UNCHANGED reconfigurationVars
         \/ BlockReplicator(n) /\ UNCHANGED reconfigurationVars
         \/ ReplicateToDead(n)
         \/ StopReplicator(n)
  PROVE  HInv'
<1>1. /\ outgoing' = outgoing \/ outgoing' = [outgoing EXCEPT ![n] = {}]
      /\ UNCHANGED <<events, eventQueue, lateEvents, ackVars, handler, channel,
                     down, reconfigurationVars>>
  BY DEF FindNoEvent, BlockReplicator, ReplicateToDead, StopReplicator,
         clientVars
<1>2. outgoing \in [Nodes -> SUBSET Event]
  BY DEF IInv, ReconfigurationTypeOK, TypeOK, EventTypes
<1>3. SendsOfHead
  BY <1>1, <1>2 DEF SendsOfHead
<1>. QED BY <1>1, <1>3, EventOnlyStep

LEMMA ReplicateToSuccessorOfHead ==
  ASSUME IInv, IInv', HInv, NEW n \in Nodes, ReplicateToSuccessor(n),
         UNCHANGED reconfigurationVars
  PROVE  HInv'
<1>. DEFINE m == successor[n]
            states == [replicator EXCEPT ![n] = "scan"]
<1>. PICK e \in outgoing[n] : BufferEvent(m, e, states)
  BY DEF ReplicateToSuccessor
<1>1. /\ outgoing' = [outgoing EXCEPT ![n] = {}]
      /\ UNCHANGED <<events, lateEvents, ackVars, handler, channel, down>>
  BY DEF ReplicateToSuccessor, clientVars
<1>2. m \in Nodes
  BY DEF ReplicateToSuccessor, IsTail, IInv, ReconfigurationTypeOK, TypeOK
<1>3. outgoing \in [Nodes -> SUBSET Event] /\ OfLog(e, events[1])
  BY DEF IInv, ReconfigurationTypeOK, TypeOK, EventTypes, HInv, EventsInv
<1>. HIDE DEF m, states
<1>4. \A k \in Nodes : \A f \in eventQueue'[k] : f \in eventQueue[k] \/ f = e
  BY <1>2, QueuedEvents
<1>5. SendsOfHead
  BY <1>1, <1>3, <1>4 DEF SendsOfHead
<1>. QED BY <1>1, <1>5, EventOnlyStep

LEMMA ReplicateTimesOutOfHead ==
  ASSUME IInv, IInv', HInv, NEW n \in Nodes, ReplicateTimesOut(n),
         UNCHANGED reconfigurationVars
  PROVE  HInv'
<1>1. /\ outgoing' = [outgoing EXCEPT ![n] = {}]
      /\ lateEvents' = lateEvents \cup
                       {[to |-> successor[n], event |-> e] : e \in outgoing[n]}
      /\ UNCHANGED <<events, eventQueue, ackVars, handler, channel, down>>
  BY DEF ReplicateTimesOut, clientVars
<1>2. /\ outgoing \in [Nodes -> SUBSET Event]
      /\ \A e \in outgoing[n] : OfLog(e, events[1])
  BY DEF IInv, ReconfigurationTypeOK, TypeOK, EventTypes, HInv, EventsInv
<1>3. SendsOfHead
  BY <1>1, <1>2 DEF SendsOfHead
<1>. QED BY <1>1, <1>3, EventOnlyStep

LEMMA DeliverLateEventOfHead ==
  ASSUME IInv, IInv', HInv, NEW m \in lateEvents, DeliverLateEvent(m),
         UNCHANGED reconfigurationVars
  PROVE  HInv'
<1>1. /\ lateEvents' = lateEvents \ {m}
      /\ BufferEvent(m.to, m.event, replicator)
      /\ UNCHANGED <<events, outgoing, ackVars, handler, channel, down>>
  BY DEF DeliverLateEvent, clientVars
<1>2. m.to \in Nodes /\ OfLog(m.event, events[1])
  BY DEF IInv, ReconfigurationTypeOK, TypeOK, EventTypes, HInv, EventsInv
<1>3. \A k \in Nodes : \A f \in eventQueue'[k] :
        f \in eventQueue[k] \/ f = m.event
  BY <1>1, <1>2, QueuedEvents
<1>4. SendsOfHead
  BY <1>1, <1>2, <1>3 DEF SendsOfHead
<1>. QED BY <1>1, <1>4, EventOnlyStep

-----------------------------------------------------------------------------
(* ACKs. *)

(* Behind a node without a successor nobody has to hold anything.  *)
LEMMA TailHolds ==
  ASSUME IInv, NEW p \in Nodes, MayConnect(p, Nil, joined, Departed), NEW s
  PROVE  HeldBehind(p, s, Departed, events)
<1>. SUFFICES ASSUME NEW q \in 1..Initial, p < q, q \notin Departed PROVE FALSE
  BY DEF HeldBehind
<1>1. q \in Nodes /\ q < Initial + 1
  BY ChainAssumption, ReconfigurationAssumption DEF Nodes
<1>. QED BY <1>1 DEF MayConnect, Between

(* bufferAck of a number that the nodes behind m hold. *)
LEMMA AckQueued ==
  ASSUME IInv, IInv', HInv, NEW m \in Nodes, NEW seq \in Nat,
         HeldBehind(m, seq, Departed, events),
         NEW states \in [Nodes -> AckProcessorStates],
         \A k \in Nodes : Applies(states[k]) <=> Applies(ackProcessor[k]),
         BufferAck(m, seq, states),
         UNCHANGED <<events, eventQueue, lateEvents, nextAckSeq, applied, handler,
                     channel, chain, joined, stopped>>,
         \A k \in Nodes : outgoing'[k] \subseteq outgoing[k],
         lateAcks' \subseteq lateAcks,
         \A k \in Nodes : /\ sync'[k].pc = sync[k].pc
                          /\ sync'[k].lastAck = sync[k].lastAck
  PROVE  HInv'
<1>1. ackQueue \in [Nodes -> SUBSET Nat]
  BY DEF IInv, ReconfigurationTypeOK, TypeOK, AckTypes
<1>2. /\ down \subseteq down'
      /\ ackQueue' = ackQueue \/ ackQueue' = [ackQueue EXCEPT ![m] = @ \cup {seq}]
      /\ ackProcessor' = states \/ ackProcessor' = [states EXCEPT ![m] = Woken(@)]
  BY DEF BufferAck
<1>3. \A k \in Nodes : Applies(ackProcessor'[k]) <=> Applies(ackProcessor[k])
  BY <1>2 DEF Applies, Woken
<1>4. \A p \in Nodes : \A s \in ackQueue'[p] :
        s \in ackQueue[p] \/ HeldBehind(p, s, Departed, events)
  BY <1>1, <1>2
<1>5. AcksOfHeld
  BY <1>4 DEF AcksOfHeld
<1>6. SendsOfHead
  BY DEF SendsOfHead
<1>. QED BY <1>2, <1>3, <1>5, <1>6, GoroutineStep

LEMMA ReplicateAtTailOfHead ==
  ASSUME IInv, IInv', HInv, NEW n \in Nodes, ReplicateAtTail(n),
         UNCHANGED reconfigurationVars
  PROVE  HInv'
<1>. PICK e \in outgoing[n] : BufferAck(n, e.seq, ackProcessor)
  BY DEF ReplicateAtTail
<1>1. /\ successor[n] = Nil
      /\ outgoing' = [outgoing EXCEPT ![n] = {}]
      /\ UNCHANGED <<events, eventQueue, lateEvents, nextAckSeq, applied, handler,
                     channel, chain, joined, stopped, lateAcks, sync>>
  BY DEF ReplicateAtTail, IsTail, clientVars, reconfigurationVars
<1>2. /\ outgoing \in [Nodes -> SUBSET Event] /\ e.seq \in Nat
      /\ ackProcessor \in [Nodes -> AckProcessorStates]
  BY DEF IInv, ReconfigurationTypeOK, TypeOK, EventTypes, AckTypes, Event
<1>3. HeldBehind(n, e.seq, Departed, events)
  BY <1>1, TailHolds DEF IInv, WiringInv
<1>4. \A k \in Nodes : outgoing'[k] \subseteq outgoing[k]
  BY <1>1, <1>2
<1>. QED BY <1>1, <1>2, <1>3, <1>4, AckQueued

LEMMA ProcessorWaitsOfHead ==
  ASSUME IInv, IInv', HInv, NEW n \in Nodes,
         \/ FindNoAck(n) /\ UNCHANGED reconfigurationVars
         \/ BlockAckProcessor(n) /\ UNCHANGED reconfigurationVars
         \/ ConfirmAck(n) /\ UNCHANGED reconfigurationVars
         \/ AckToDead(n)
         \/ StopAckProcessor(n)
  PROVE  HInv'
<1>1. /\ \E pc \in AckProcessorStates :
           /\ Applies(pc) <=> Applies(ackProcessor[n])
           /\ ackProcessor' = [ackProcessor EXCEPT ![n] = pc]
      /\ down \subseteq down'
      /\ UNCHANGED <<events, eventQueue, outgoing, lateEvents, nextAckSeq,
                     ackQueue, applied, lateAcks, handler, channel, chain,
                     joined, stopped, sync>>
  BY DEF FindNoAck, BlockAckProcessor, ConfirmAck, AckToDead, StopAckProcessor,
         AckProcessorStates, Applies, eventVars, clientVars, reconfigurationVars
<1>2. ackProcessor \in [Nodes -> AckProcessorStates]
  BY DEF IInv, ReconfigurationTypeOK, TypeOK, AckTypes
<1>3. \A k \in Nodes : Applies(ackProcessor'[k]) <=> Applies(ackProcessor[k])
  BY <1>1, <1>2
<1>4. SendsOfHead /\ AcksOfHeld
  BY <1>1 DEF SendsOfHead, AcksOfHeld
<1>. QED BY <1>1, <1>3, <1>4, GoroutineStep

LEMMA TakeNextAckOfHead ==
  ASSUME IInv, IInv', HInv, NEW n \in Nodes, TakeNextAck(n),
         UNCHANGED reconfigurationVars
  PROVE  HInv'
<1>1. /\ ackProcessor[n] = "scan" /\ nextAckSeq[n] \in ackQueue[n]
      /\ ackQueue' = [ackQueue EXCEPT ![n] = @ \ {nextAckSeq[n]}]
      /\ nextAckSeq' = [nextAckSeq EXCEPT ![n] = @ + 1]
      /\ ackProcessor' = [ackProcessor EXCEPT ![n] = "confirm"]
      /\ UNCHANGED <<events, eventQueue, outgoing, lateEvents, applied, lateAcks,
                     handler, channel, down, chain, joined, stopped, sync>>
  BY DEF TakeNextAck, eventVars, clientVars, reconfigurationVars
<1>2. /\ ackQueue \in [Nodes -> SUBSET Nat] /\ nextAckSeq \in [Nodes -> Nat]
      /\ ackProcessor \in [Nodes -> AckProcessorStates]
  BY DEF IInv, ReconfigurationTypeOK, TypeOK, AckTypes
<1>3. HeadInv' /\ Departed' = Departed
  BY <1>1, HeadRemains DEF HInv
<1>4. /\ nextAckSeq'[n] = nextAckSeq[n] + 1 /\ nextAckSeq[n] \in Nat
      /\ ackProcessor'[n] = "confirm"
      /\ \A k \in Nodes : k # n => /\ nextAckSeq'[k] = nextAckSeq[k]
                                   /\ ackProcessor'[k] = ackProcessor[k]
      /\ \A k \in Nodes : ackQueue'[k] \subseteq ackQueue[k]
  BY <1>1, <1>2
<1>5. EventsInv'
  BY <1>1 DEF HInv, EventsInv
<1>6. AppliedInv'
  <2>1. ASSUME NEW k \in Nodes
        PROVE  Len(applied[k]) = IF Applies(ackProcessor'[k])
                                 THEN nextAckSeq'[k] - 1 ELSE nextAckSeq'[k]
    <3>1. CASE k = n
      <4>1. Len(applied[n]) = nextAckSeq[n]
        BY <1>1 DEF HInv, AppliedInv, Applies
      <4>. QED BY <1>4, <3>1, <4>1 DEF Applies
    <3>2. CASE k # n
      BY <1>4, <3>2 DEF HInv, AppliedInv
    <3>. QED BY <3>1, <3>2
  <2>. QED BY <1>1, <2>1 DEF HInv, AppliedInv
<1>7. AckedInv'
  <2>1. ASSUME NEW p \in Nodes
        PROVE  HeldBehind(p, nextAckSeq'[p] - 1, Departed, events)
    <3>1. CASE p = n
      <4>1. HeldBehind(n, nextAckSeq[n], Departed, events)
        BY <1>1 DEF HInv, AckedInv
      <4>2. nextAckSeq'[n] - 1 = nextAckSeq[n]
        BY <1>4
      <4>. QED BY <3>1, <4>1, <4>2
    <3>2. CASE p # n
      BY <1>4, <3>2 DEF HInv, AckedInv
    <3>. QED BY <3>1, <3>2
  <2>2. \A p \in Nodes : \A s \in ackQueue'[p] :
          HeldBehind(p, s, Departed, events)
    BY <1>4 DEF HInv, AckedInv
  <2>. QED BY <1>1, <1>3, <2>1, <2>2 DEF HInv, AckedInv
<1>8. AnswersInv'
  <2>1. nextAckSeq[1] \in Nat /\ nextAckSeq'[1] \in Nat
        /\ nextAckSeq[1] <= nextAckSeq'[1]
    <3>1. 1 \in Nodes
      BY HeadFacts DEF HInv
    <3>. QED BY <1>2, <1>4, <3>1
  <2>2. \A w \in Writes : handler[w].seq \in Nat
    BY DEF IInv, ReconfigurationTypeOK, TypeOK, ClientTypes
  <2>. QED BY <1>1, <2>1, <2>2 DEF HInv, AnswersInv
<1>. QED BY <1>3, <1>5, <1>6, <1>7, <1>8 DEF HInv

LEMMA ApplyOfHead ==
  ASSUME IInv, IInv', HInv, NEW n \in Nodes, Apply(n),
         UNCHANGED reconfigurationVars
  PROVE  HInv'
<1>. DEFINE e == events[n][AckSeq(n) + 1]
<1>1. /\ ackProcessor[n] = "apply"
      /\ applied' = [applied EXCEPT ![n] = Append(@, e)]
      /\ ackProcessor' = [ackProcessor EXCEPT ![n] = "send"]
      /\ UNCHANGED <<events, eventQueue, outgoing, lateEvents, nextAckSeq,
                     ackQueue, lateAcks, handler, channel, down, chain, joined,
                     stopped, sync>>
  BY DEF Apply, eventVars, clientVars, reconfigurationVars
<1>2. /\ applied \in [Nodes -> Seq(Writes)] /\ nextAckSeq[n] \in Nat
      /\ ackProcessor \in [Nodes -> AckProcessorStates]
  BY DEF IInv, ReconfigurationTypeOK, TypeOK, AckTypes
<1>3. /\ e = events[1][nextAckSeq[n]]
      /\ Len(applied[n]) = nextAckSeq[n] - 1
  <2>1. nextAckSeq[n] \in 1..Len(events[n]) /\ AckSeq(n) + 1 = nextAckSeq[n]
    BY <1>1, <1>2 DEF IInv, ConfirmInv, Holds, AckSeq
  <2>2. Len(applied[n]) = nextAckSeq[n] - 1
    BY <1>1 DEF HInv, AppliedInv, Applies
  <2>. QED BY <2>1, <2>2 DEF HInv, EventsInv
<1>. HIDE DEF e
<1>4. /\ applied'[n] = Append(applied[n], e) /\ applied[n] \in Seq(Writes)
      /\ ackProcessor'[n] = "send"
      /\ \A k \in Nodes : k # n => /\ applied'[k] = applied[k]
                                   /\ ackProcessor'[k] = ackProcessor[k]
  BY <1>1, <1>2
<1>5. AppliedInv'
  <2>1. ASSUME NEW k \in Nodes
        PROVE  /\ Len(applied'[k]) = IF Applies(ackProcessor'[k])
                                     THEN nextAckSeq[k] - 1 ELSE nextAckSeq[k]
               /\ \A i \in 1..Len(applied'[k]) : applied'[k][i] = events[1][i]
    <3>1. CASE k = n
      <4>1. Len(applied'[n]) = nextAckSeq[n]
        BY <1>2, <1>3, <1>4
      <4>2. ASSUME NEW i \in 1..nextAckSeq[n] PROVE applied'[n][i] = events[1][i]
        <5>1. CASE i = nextAckSeq[n]
          <6>1. applied'[n][Len(applied[n]) + 1] = e
            BY <1>4
          <6>2. Len(applied[n]) + 1 = nextAckSeq[n]
            BY <1>2, <1>3
          <6>. QED BY <1>3, <5>1, <6>1, <6>2
        <5>2. CASE i # nextAckSeq[n]
          <6>1. i \in 1..Len(applied[n])
            BY <1>2, <1>3, <5>2
          <6>2. applied'[n][i] = applied[n][i]
            BY <1>4, <6>1
          <6>. QED BY <6>1, <6>2 DEF HInv, AppliedInv
        <5>. QED BY <5>1, <5>2
      <4>. QED BY <1>4, <3>1, <4>1, <4>2 DEF Applies
    <3>2. CASE k # n
      BY <1>4, <3>2 DEF HInv, AppliedInv
    <3>. QED BY <3>1, <3>2
  <2>. QED BY <1>1, <2>1 DEF AppliedInv
<1>6. HeadInv' /\ Departed' = Departed
  BY <1>1, HeadRemains DEF HInv
<1>7. EventsInv' /\ AckedInv' /\ AnswersInv'
  BY <1>1, <1>6 DEF HInv, EventsInv, AckedInv, AnswersInv
<1>. QED BY <1>5, <1>6, <1>7 DEF HInv

LEMMA SignalOfHead ==
  ASSUME IInv, IInv', HInv, NEW n \in Nodes, SignalAtHead(n),
         UNCHANGED reconfigurationVars
  PROVE  HInv'
<1>1. /\ n \notin down /\ predecessor[n] = Nil /\ ackProcessor[n] = "send"
      /\ \A w \in Writes : w \notin AckedHandler(n) => channel'[w] = channel[w]
      /\ ackProcessor' = [ackProcessor EXCEPT ![n] = "scan"]
      /\ UNCHANGED <<events, eventQueue, outgoing, lateEvents, nextAckSeq,
                     ackQueue, applied, lateAcks, handler, down, chain, joined,
                     stopped, sync>>
  BY DEF SignalAtHead, IsHead, eventVars, reconfigurationVars
<1>2. n = 1
  BY <1>1, RunningHasJoined, HeadFacts DEF HInv
<1>3. /\ ackProcessor \in [Nodes -> AckProcessorStates] /\ nextAckSeq[1] \in Nat
  BY HeadFacts DEF HInv, IInv, ReconfigurationTypeOK, TypeOK, AckTypes
<1>4. HeadInv' /\ Departed' = Departed
  BY <1>1, HeadRemains DEF HInv
<1>5. AppliedInv'
  <2>1. \A k \in Nodes : Applies(ackProcessor'[k]) <=> Applies(ackProcessor[k])
    BY <1>1, <1>3 DEF Applies
  <2>. QED BY <1>1, <2>1, AppliedStays DEF HInv
<1>6. EventsInv' /\ AckedInv'
  BY <1>1, <1>4 DEF HInv, EventsInv, AckedInv
<1>7. AnswersInv'
  <2>1. \A w \in AckedHandler(n) :
          handler[w].pc # "idle" /\ handler[w].seq < nextAckSeq[1]
    BY <1>2, <1>3 DEF AckedHandler, AckSeq
  <2>. QED BY <1>1, <2>1 DEF HInv, AnswersInv
<1>. QED BY <1>4, <1>5, <1>6, <1>7 DEF HInv

LEMMA HeldByThoseBehind ==
  ASSUME IInv, HInv, NEW n \in Nodes, n \notin down, predecessor[n] # Nil,
         Holds(ackProcessor[n])
  PROVE  /\ predecessor[n] \in Nodes /\ AckSeq(n) \in Nat
         /\ HeldBehind(predecessor[n], AckSeq(n), Departed, events)
<1>1. n \in 1..joined
  BY RunningHasJoined
<1>2. predecessor[n] \in Nodes /\ Precedes(predecessor[n], n, Departed)
  BY <1>1 DEF IInv, WiringInv, ReconfigurationTypeOK, TypeOK
<1>3. /\ AckSeq(n) \in Nat /\ AckSeq(n) < Len(events[n])
      /\ AckSeq(n) <= nextAckSeq[n] - 1
  BY HeldNumber, AckNumbers DEF AckSeq
<1>. QED BY <1>2, <1>3, HeldToo

LEMMA AckToPredecessorOfHead ==
  ASSUME IInv, IInv', HInv, NEW n \in Nodes, AckToPredecessor(n),
         UNCHANGED reconfigurationVars
  PROVE  HInv'
<1>. DEFINE m == predecessor[n]
            seq == AckSeq(n)
            states == [ackProcessor EXCEPT ![n] = "scan"]
<1>1. /\ n \notin down /\ m # Nil /\ ackProcessor[n] = "send"
      /\ BufferAck(m, seq, states)
      /\ UNCHANGED <<events, eventQueue, outgoing, lateEvents, nextAckSeq, applied,
                     handler, channel, chain, joined, stopped, lateAcks, sync>>
  BY DEF AckToPredecessor, IsHead, eventVars, clientVars, reconfigurationVars
<1>2. m \in Nodes /\ seq \in Nat /\ HeldBehind(m, seq, Departed, events)
  BY <1>1, HeldByThoseBehind DEF Holds
<1>3. /\ states \in [Nodes -> AckProcessorStates]
      /\ \A k \in Nodes : Applies(states[k]) <=> Applies(ackProcessor[k])
  BY <1>1 DEF IInv, ReconfigurationTypeOK, TypeOK, AckTypes, AckProcessorStates,
              Applies
<1>. HIDE DEF m, seq, states
<1>. QED BY <1>1, <1>2, <1>3, AckQueued

LEMMA AckTimesOutOfHead ==
  ASSUME IInv, IInv', HInv, NEW n \in Nodes, AckTimesOut(n),
         UNCHANGED reconfigurationVars
  PROVE  HInv'
<1>. PICK a : a = [to |-> predecessor[n], seq |-> AckSeq(n)]
  OBVIOUS
<1>1. /\ n \notin down /\ predecessor[n] # Nil /\ ackProcessor[n] = "send"
      /\ lateAcks' = lateAcks \cup {a}
      /\ ackProcessor' = [ackProcessor EXCEPT ![n] = "scan"]
      /\ UNCHANGED <<events, eventQueue, outgoing, lateEvents, nextAckSeq,
                     ackQueue, applied, handler, channel, down, chain, joined,
                     stopped, sync>>
  BY DEF AckTimesOut, IsHead, eventVars, clientVars, reconfigurationVars
<1>2. HeldBehind(a.to, a.seq, Departed, events)
  BY <1>1, HeldByThoseBehind DEF Holds
<1>3. \A k \in Nodes : Applies(ackProcessor'[k]) <=> Applies(ackProcessor[k])
  BY <1>1 DEF IInv, ReconfigurationTypeOK, TypeOK, AckTypes, Applies
<1>4. AcksOfHeld /\ SendsOfHead
  BY <1>1, <1>2 DEF AcksOfHeld, SendsOfHead
<1>. QED BY <1>1, <1>3, <1>4, GoroutineStep

LEMMA DeliverLateAckOfHead ==
  ASSUME IInv, IInv', HInv, NEW m \in lateAcks, DeliverLateAck(m),
         UNCHANGED reconfigurationVars
  PROVE  HInv'
<1>1. /\ lateAcks' = lateAcks \ {m}
      /\ BufferAck(m.to, m.seq, ackProcessor)
      /\ UNCHANGED <<events, eventQueue, outgoing, lateEvents, nextAckSeq, applied,
                     handler, channel, chain, joined, stopped, sync>>
  BY DEF DeliverLateAck, eventVars, clientVars, reconfigurationVars
<1>2. /\ m.to \in Nodes /\ m.seq \in Nat
      /\ HeldBehind(m.to, m.seq, Departed, events)
      /\ ackProcessor \in [Nodes -> AckProcessorStates]
  BY AckNumbers
  DEF HInv, AckedInv, IInv, ReconfigurationTypeOK, TypeOK, AckTypes
<1>. QED BY <1>1, <1>2, AckQueued

-----------------------------------------------------------------------------
(* Synchronisations and the control plane. *)

(* The SetSuccessor goroutine of a node, where it sends nothing. *)
LEMMA SyncOnlyStep ==
  ASSUME IInv, IInv', HInv, NEW n \in Nodes, NEW r,
         sync' = [sync EXCEPT ![n] = r],
         r.pc = "sync" => HeldBehind(n, r.lastAck, Departed, events),
         UNCHANGED <<events, eventQueue, outgoing, lateEvents, ackVars, handler,
                     channel, down, chain, joined, stopped>>
  PROVE  HInv'
<1>1. sync \in [Nodes -> SyncState]
  BY DEF SyncState, IInv, ReconfigurationTypeOK, ReconfigurationTypes
<1>2. UNCHANGED <<nextAckSeq, ackQueue, ackProcessor, applied, lateAcks>>
  BY DEF ackVars
<1>3. AcksOfHeld /\ SendsOfHead
  BY <1>1, <1>2 DEF AcksOfHeld, SendsOfHead
<1>. QED BY <1>2, <1>3, GoroutineStep

LEMMA SyncBeginsOrEndsOfHead ==
  ASSUME IInv, IInv', HInv,
         \/ \E s \in pendingSyncs : BeginSync(s)
         \/ \E n \in Nodes : EndSync(n)
  PROVE  HInv'
<1>1. \A s \in pendingSyncs : s.node \in Nodes
  BY DEF IInv, ReconfigurationTypeOK, ReconfigurationTypes
<1>2. /\ \E n \in Nodes : \E r : r.pc # "sync" /\ sync' = [sync EXCEPT ![n] = r]
      /\ UNCHANGED <<events, eventQueue, outgoing, lateEvents, ackVars, handler,
                     channel, down, chain, joined, stopped>>
  <2>1. CASE \E s \in pendingSyncs : BeginSync(s)
    <3>. PICK s \in pendingSyncs : BeginSync(s)
      BY <2>1
    <3>. PICK r : r = [NoSync EXCEPT !.pc = "stopping", !.succ = s.succ]
      OBVIOUS
    <3>1. r.pc # "sync"
      BY DEF NoSync
    <3>2. sync' = [sync EXCEPT ![s.node] = r]
      BY DEF BeginSync
    <3>. QED BY <1>1, <3>1, <3>2 DEF BeginSync, clientVars
  <2>2. CASE \E n \in Nodes : EndSync(n)
    <3>1. NoSync.pc # "sync"
      BY DEF NoSync
    <3>. QED BY <2>2, <3>1 DEF EndSync, clientVars
  <2>. QED BY <2>1, <2>2
<1>. QED BY <1>2, SyncOnlyStep

LEMMA InstallSuccessorOfHead ==
  ASSUME IInv, IInv', HInv, NEW n \in Nodes, InstallSuccessor(n)
  PROVE  HInv'
<1>. DEFINE s == sync[n]
<1>. PICK r : r = IF s.succ # Nil
                  THEN [s EXCEPT !.pc = "query"]
                  ELSE [s EXCEPT !.pc = "sync", !.ack = lastConfirmed[n] + 1,
                                 !.lastAck = Len(events[n]) - 1]
  OBVIOUS
<1>1. /\ s.pc = "stopping" /\ sync' = [sync EXCEPT ![n] = r]
      /\ UNCHANGED <<events, eventQueue, outgoing, lateEvents, ackVars, handler,
                     channel, down, chain, joined, stopped>>
  BY SyncStateIsOK
  DEF InstallSuccessor, eventVars, clientVars, SyncState, IInv,
      ReconfigurationTypeOK, ReconfigurationTypes
<1>2. s \in SyncState
  BY SyncStateIsOK
<1>3. r.pc = "sync" => s.succ = Nil
  BY <1>2 DEF SyncState
<1>4. s.succ = Nil => MayConnect(n, Nil, joined, Departed)
  BY <1>1 DEF IInv, WiringInv
<1>. HIDE DEF s
<1>5. r.pc = "sync" => HeldBehind(n, r.lastAck, Departed, events)
  BY <1>3, <1>4, TailHolds
<1>. QED BY <1>1, <1>5, SyncOnlyStep

LEMMA QuerySuccessorOfHead ==
  ASSUME IInv, IInv', HInv, NEW n \in Nodes, QuerySuccessor(n)
  PROVE  HInv'
<1>. DEFINE s == sync[n]
            m == s.succ
<1>. PICK r : r = [s EXCEPT !.pc = "sync",
                     !.ack = lastConfirmed[n] + 1, !.lastAck = lastConfirmed[m],
                     !.event = Len(events[m]), !.lastEvent = Len(events[n]) - 1]
  OBVIOUS
<1>1. s.pc = "query" /\ UNCHANGED <<vars, chain, joined, stopped>>
  BY DEF QuerySuccessor
<1>2. s \in SyncState /\ SyncStateOK(n, s)
  BY SyncStateIsOK
<1>3. sync' = [sync EXCEPT ![n] = r]
  BY SyncStateIsOK DEF QuerySuccessor
<1>4. m \in Nodes /\ Precedes(n, m, Departed)
  <2>1. m \in Nodes \cup {Nil} /\ m # Nil /\ MayConnect(n, m, joined, Departed)
    BY <1>1, <1>2 DEF SyncState, SyncStateOK
  <2>. QED BY <2>1 DEF MayConnect
<1>5. r.lastAck = lastConfirmed[m]
  BY <1>2 DEF SyncState
<1>. HIDE DEF s, m
<1>6. /\ lastConfirmed[m] \in Int /\ lastConfirmed[m] < Len(events[m])
      /\ lastConfirmed[m] <= nextAckSeq[m] - 1
  <2>1. nextAckSeq[m] \in Nat /\ lastConfirmed[m] \in Int
    BY <1>4, NodeTypes DEF IInv, ReconfigurationTypeOK
  <2>. QED BY <1>4, <2>1 DEF IInv, ConfirmInv
<1>7. HeldBehind(n, r.lastAck, Departed, events)
  BY <1>4, <1>5, <1>6, HeldToo
<1>8. UNCHANGED <<events, eventQueue, outgoing, lateEvents, ackVars, handler,
                  channel, down, chain, joined, stopped>>
  BY <1>1 DEF vars, ackVars
<1>. QED BY <1>3, <1>7, <1>8, SyncOnlyStep

LEMMA SyncAckOfHead ==
  ASSUME IInv, IInv', HInv, NEW n \in Nodes, SyncAck(n)
  PROVE  HInv'
<1>. DEFINE seq == sync[n].ack
<1>1. /\ sync[n].pc = "sync" /\ seq <= sync[n].lastAck
      /\ BufferAck(n, seq, ackProcessor)
      /\ sync' = [sync EXCEPT ![n].ack = @ + 1]
      /\ UNCHANGED <<events, eventQueue, outgoing, lateEvents, nextAckSeq,
                     applied, lateAcks, handler, channel, chain, joined, stopped>>
  BY DEF SyncAck, eventVars, clientVars
<1>2. /\ sync \in [Nodes -> SyncState] /\ seq \in Nat /\ sync[n].lastAck \in Int
      /\ ackProcessor \in [Nodes -> AckProcessorStates]
  BY AckNumbers DEF SyncState, IInv, ReconfigurationTypeOK, ReconfigurationTypes,
     TypeOK, AckTypes
<1>3. \A k \in Nodes : /\ sync'[k].pc = sync[k].pc
                       /\ sync'[k].lastAck = sync[k].lastAck
  BY <1>1, <1>2 DEF SyncState
<1>4. HeldBehind(n, seq, Departed, events)
  <2>1. HeldBehind(n, sync[n].lastAck, Departed, events)
    BY <1>1 DEF HInv, AckedInv
  <2>2. \A q \in 1..Initial : Len(events[q]) \in Int
    BY HeadFacts DEF HInv
  <2>. HIDE DEF seq
  <2>. QED BY <1>1, <1>2, <2>1, <2>2 DEF HeldBehind
<1>. HIDE DEF seq
<1>. QED BY <1>1, <1>2, <1>3, <1>4, AckQueued

LEMMA SyncEventOfHead ==
  ASSUME IInv, IInv', HInv, NEW n \in Nodes, SyncEvent(n)
  PROVE  HInv'
<1>. DEFINE s == sync[n]
            m == s.succ
            seq == s.event
<1>. PICK e : e = [seq |-> seq, write |-> events[n][seq + 1]]
  OBVIOUS
<1>1. /\ s.pc = "sync" /\ seq <= s.lastEvent
      /\ IF m \in down THEN UNCHANGED eventQueue
         ELSE BufferEvent(m, e, replicator)
      /\ sync' = [sync EXCEPT ![n].event = @ + 1]
      /\ UNCHANGED <<events, outgoing, lateEvents, ackVars, handler, channel, down,
                     chain, joined, stopped>>
  BY DEF SyncEvent, clientVars
<1>2. s \in SyncState /\ SyncStateOK(n, s) /\ sync \in [Nodes -> SyncState]
  BY SyncStateIsOK
  DEF SyncState, IInv, ReconfigurationTypeOK, ReconfigurationTypes
<1>3. /\ seq \in Nat /\ s.lastEvent \in Int /\ s.lastEvent < Len(events[n])
      /\ m \in Nodes
  <2>1. /\ seq \in Nat /\ s.lastEvent \in Int /\ m \in Nodes \cup {Nil}
        /\ Len(events[n]) \in Nat
    BY <1>2, NodeTypes DEF SyncState, Sequence, IInv, ReconfigurationTypeOK
  <2>. QED BY <1>1, <1>2, <2>1 DEF SyncStateOK
<1>4. \A k \in Nodes : /\ sync'[k].pc = sync[k].pc
                       /\ sync'[k].lastAck = sync[k].lastAck
  BY <1>1, <1>2 DEF SyncState
<1>. HIDE DEF s, m, seq
<1>5. OfLog(e, events[1])
  <2>1. Len(events[n]) \in Nat /\ Len(events[1]) \in Nat
        /\ Len(events[n]) <= Len(events[1])
    BY HeadFacts DEF HInv
  <2>2. seq < Len(events[1]) /\ seq + 1 \in 1..Len(events[n])
    BY <1>1, <1>3, <2>1
  <2>. QED BY <2>2 DEF OfLog, HInv, EventsInv
<1>6. \A k \in Nodes : \A f \in eventQueue'[k] : f \in eventQueue[k] \/ f = e
  BY <1>1, <1>3, QueuedEvents
<1>7. SendsOfHead
  BY <1>1, <1>5, <1>6 DEF SendsOfHead
<1>8. UNCHANGED <<nextAckSeq, ackQueue, ackProcessor, applied, lateAcks>>
  BY <1>1 DEF ackVars
<1>9. AcksOfHeld
  BY <1>4, <1>8 DEF AcksOfHeld
<1>. QED BY <1>1, <1>7, <1>8, <1>9, GoroutineStep

LEMMA JobOfHead ==
  ASSUME IInv, IInv', HInv, NEW j \in jobs,
         \/ BeginSetPredecessor(j) \/ InstallPredecessor(j)
         \/ SetPredecessorFails(j) \/ CallSetSuccessor(j)
  PROVE  HInv'
<1>1. /\ ackProcessor \in [Nodes -> AckProcessorStates]
      /\ eventQueue \in [Nodes -> SUBSET Event]
  BY ConnectionsAreOK
<1>2. /\ UNCHANGED <<events, outgoing, lateEvents, nextAckSeq, ackQueue, applied,
                     lateAcks, handler, channel, down, chain, joined, stopped,
                     sync>>
      /\ \A k \in Nodes :
           /\ eventQueue'[k] \subseteq eventQueue[k]
           /\ Applies(ackProcessor'[k]) <=> Applies(ackProcessor[k])
  <2>1. CASE BeginSetPredecessor(j)
    BY <1>1, <2>1 DEF BeginSetPredecessor, Applies, eventVars, clientVars
  <2>2. CASE InstallPredecessor(j)
    BY <1>1, <2>2 DEF InstallPredecessor, Applies, clientVars
  <2>3. CASE SetPredecessorFails(j) \/ CallSetSuccessor(j)
    BY <2>3 DEF SetPredecessorFails, CallSetSuccessor, vars
  <2>. QED BY <2>1, <2>2, <2>3
<1>3. AcksOfHeld /\ SendsOfHead
  BY <1>2 DEF AcksOfHeld, SendsOfHead
<1>. QED BY <1>2, <1>3, GoroutineStep

(* Nodes come and go behind the HEAD, and what they hold does not change.  *)
LEMMA MembershipStep ==
  ASSUME IInv, IInv', HInv, HeadInv', Departed \subseteq Departed',
         UNCHANGED <<events, eventQueue, outgoing, lateEvents, nextAckSeq,
                     ackQueue, ackProcessor, applied, lateAcks, handler, channel,
                     sync>>
  PROVE  HInv'
<1>1. EventsInv' /\ AppliedInv' /\ AnswersInv'
  BY DEF HInv, EventsInv, AppliedInv, AnswersInv
<1>2. AckedInv'
  <2>1. AcksOfHeld
    BY DEF AcksOfHeld
  <2>2. \A q \in Nodes : Len(events[q]) <= Len(events'[q])
    BY AckNumbers
  <2>. QED BY <2>1, <2>2, AckedStays
<1>. QED BY <1>1, <1>2 DEF HInv

LEMMA CrashOrStopOfHead ==
  ASSUME HeadStays, IInv, IInv', HInv, NEW n \in Nodes, Crash(n) \/ Stop(n)
  PROVE  HInv'
<1>1. /\ down' = down \cup {n} /\ stopped' = stopped \cup {n}
      /\ UNCHANGED <<events, eventQueue, outgoing, lateEvents, nextAckSeq,
                     ackQueue, ackProcessor, applied, lateAcks, handler, channel,
                     chain, joined, sync>>
  BY DEF Crash, Stop, eventVars, ackVars, clientVars
<1>2. n # 1
  <2>1. CASE Crash(n)
    BY <2>1 DEF Crash, HeadStays
  <2>2. CASE Stop(n)
    <3>1. 1 \in 1..joined /\ 1 \notin Departed
      BY HeadFacts DEF HInv, HeadInv
    <3>2. 1 \in ToSet(chain)
      BY <3>1 DEF Departed
    <3>. QED BY <2>2, <3>2 DEF Stop
  <2>. QED BY <2>1, <2>2
<1>3. Departed' = Departed \cup {n}
  BY <1>1 DEF Departed
<1>4. HeadInv'
  BY <1>1, <1>2, <1>3 DEF HInv, HeadInv
<1>. QED BY <1>1, <1>3, <1>4, MembershipStep

LEMMA LeaveOfHead ==
  ASSUME HeadStays, IInv, IInv', HInv, NEW n \in Nodes, Leave(n)
  PROVE  HInv'
<1>1. /\ n \in MayLeave /\ UNCHANGED <<vars, joined, stopped, sync>>
      /\ \E i \in DOMAIN chain : chain[i] = n /\ chain' = RemoveAt(chain, i)
  <2>. DEFINE j == CHOOSE k \in DOMAIN chain : chain[k] = n
  <2>1. j \in DOMAIN chain /\ chain[j] = n
    BY DEF Leave, ToSet
  <2>. QED BY <2>1 DEF Leave
<1>2. ToSet(chain') = ToSet(chain) \ {n}
  BY <1>1, ChainFacts, RemoveAtProperties
<1>3. Departed \subseteq Departed' /\ Departed' \subseteq Departed \cup {n}
  BY <1>1, <1>2 DEF Departed
<1>4. HeadInv'
  BY <1>1, <1>3 DEF HeadStays, HInv, HeadInv, vars
<1>. QED BY <1>1, <1>3, <1>4, MembershipStep DEF vars

LEMMA RemoveDeadOfHead ==
  ASSUME IInv, IInv', HInv, NEW dead \in SUBSET (stopped \cap ToSet(chain)),
         RemoveDead(dead)
  PROVE  HInv'
<1>1. chain' = Without(chain, dead) /\ UNCHANGED <<vars, joined, stopped, sync>>
  BY DEF RemoveDead
<1>2. ToSet(chain') = ToSet(chain) \ dead
  BY <1>1, ChainFacts, WithoutProperties
<1>3. Departed' = Departed
  BY <1>1, <1>2 DEF Departed
<1>4. HeadInv'
  BY <1>1, <1>3 DEF HInv, HeadInv, vars
<1>. QED BY <1>1, <1>3, <1>4, MembershipStep DEF vars

LEMMA JoinOfHead ==
  ASSUME IInv, IInv', HInv, NEW n \in Nodes, Join(n)
  PROVE  HInv'
<1>1. /\ n = joined + 1 /\ joined' = n /\ chain' = Append(chain, n)
      /\ down' = down \ {n}
      /\ UNCHANGED <<events, eventQueue, outgoing, lateEvents, nextAckSeq,
                     ackQueue, ackProcessor, applied, lateAcks, handler, channel,
                     stopped, sync>>
  BY DEF Join, eventVars, ackVars, clientVars
<1>2. /\ joined \in Nat /\ chain \in Seq(Nodes)
      /\ stopped \subseteq 1..joined
  BY ChainFacts DEF IInv, ChainInv
<1>3. ToSet(chain') = ToSet(chain) \cup {n}
  BY <1>1, <1>2, AppendedToSet
<1>4. Departed' = Departed
  <2>1. 1..n = 1..joined \cup {n} /\ n \notin 1..joined
    BY <1>1, <1>2
  <2>2. n \notin ToSet(chain)
    BY <2>1, ChainFacts DEF ToSet
  <2>. QED BY <1>1, <1>3, <2>1, <2>2 DEF Departed
<1>5. HeadInv'
  <2>1. n \notin stopped
    BY <1>1, <1>2
  <2>. QED BY <1>1, <1>4, <2>1 DEF HInv, HeadInv
<1>. QED BY <1>1, <1>4, <1>5, MembershipStep

-----------------------------------------------------------------------------
LEMMA InitHInv == InitReconfiguration => HInv
<1>. SUFFICES ASSUME InitReconfiguration PROVE HInv
  OBVIOUS
<1>1. /\ chain = [n \in 1..Initial |-> n] /\ joined = Initial /\ stopped = {}
      /\ sync = [n \in Nodes |-> NoSync]
      /\ EmptyNodes /\ NoRequests(Nodes \ 1..Initial)
  BY DEF InitReconfiguration
<1>2. HeadInv
  <2>1. \A k \in 1..Initial : k \in ToSet(chain)
    BY <1>1 DEF ToSet
  <2>. QED BY <1>1, <2>1 DEF HeadInv, Departed
<1>3. EventsInv /\ AppliedInv /\ AnswersInv
  BY <1>1 DEF EmptyNodes, NoRequests, EventsInv, AppliedInv, AnswersInv, Applies
<1>4. AckedInv
  <2>1. 1..Initial \subseteq Nodes /\ 0 \in Nat
    BY ChainAssumption, ReconfigurationAssumption DEF Nodes
  <2>. QED BY <1>1, <2>1 DEF EmptyNodes, NoRequests, AckedInv, HeldBehind, NoSync
<1>. QED BY <1>2, <1>3, <1>4 DEF HInv

LEMMA NextHInv ==
  ASSUME HeadStays
  PROVE  IInv /\ HInv /\ [NextReconfiguration]_allVars => HInv'
<1>. SUFFICES ASSUME IInv, HInv, [NextReconfiguration]_allVars PROVE HInv'
  OBVIOUS
<1>. IInv'
  BY NextIInv
<1>1. CASE ChainStep
  <2>1. UNCHANGED reconfigurationVars
    BY <1>1 DEF ChainStep
  <2>2. CASE \E n \in Nodes, w \in Writes : HandleWrite(n, w)
    BY <2>1, <2>2, HandleWriteOfHead
  <2>3. CASE \E w \in Writes : HandlerStep(w)
    BY <2>1, <2>3, HandlerOfHead
  <2>4. CASE Fault
    BY <2>1, <2>4, ReplicateTimesOutOfHead, AckTimesOutOfHead,
       DeliverLateEventOfHead, DeliverLateAckOfHead DEF Fault
  <2>. QED BY <1>1, <2>2, <2>3, <2>4 DEF ChainStep
<1>2. CASE \E n \in Nodes : ReplicatorGoroutine(n)
  BY <1>2, TakeNextEventOfHead, ReplicatorWaitsOfHead, ReplicateAtTailOfHead,
     ReplicateToSuccessorOfHead DEF ReplicatorGoroutine, ReplicatorStep
<1>3. CASE \E n \in Nodes : AckProcessorGoroutine(n)
  BY <1>3, TakeNextAckOfHead, ProcessorWaitsOfHead, ApplyOfHead, SignalOfHead,
     AckToPredecessorOfHead DEF AckProcessorGoroutine, AckProcessorStep
<1>4. CASE \E n \in Nodes : SyncGoroutine(n)
  BY <1>4, SyncBeginsOrEndsOfHead, InstallSuccessorOfHead, QuerySuccessorOfHead,
     SyncAckOfHead, SyncEventOfHead DEF SyncGoroutine
<1>5. CASE \E p, s \in Nodes \cup {Nil} : JobStep(p, s)
  BY <1>5, JobOfHead DEF JobStep
<1>6. CASE Membership
  BY <1>6, CrashOrStopOfHead, LeaveOfHead, JoinOfHead, RemoveDeadOfHead
  DEF Membership, Monitor
<1>7. CASE UNCHANGED allVars
  <2>1. HeadInv'
    BY <1>7 DEF HInv, HeadInv, Departed, allVars, vars, reconfigurationVars
  <2>2. Departed' = Departed
    BY <1>7 DEF Departed, allVars, reconfigurationVars
  <2>. QED BY <1>7, <2>1, <2>2, MembershipStep
       DEF allVars, vars, reconfigurationVars
<1>. QED BY <1>1, <1>2, <1>3, <1>4, <1>5, <1>6, <1>7 DEF NextReconfiguration

LEMMA HeadInvariant ==
  ASSUME HeadStays
  PROVE  ReconfigurationSpec => [](IInv /\ HInv)
<1>1. IInv /\ HInv /\ [NextReconfiguration]_allVars => (IInv /\ HInv)'
  BY NextIInv, NextHInv
<1>. QED BY <1>1, InitIInv, InitHInv, PTL DEF ReconfigurationSpec

LEMMA PrefixByElements ==
  ASSUME NEW S, NEW s \in Seq(S), NEW t \in Seq(S), Len(s) <= Len(t),
         \A i \in 1..Len(s) : s[i] = t[i]
  PROVE  IsPrefix(s, t)
<1>1. /\ SubSeq(s, 1, Len(s)) \in Seq(S) /\ SubSeq(t, 1, Len(s)) \in Seq(S)
      /\ Len(SubSeq(s, 1, Len(s))) = Len(s) /\ Len(SubSeq(t, 1, Len(s))) = Len(s)
  OBVIOUS
<1>2. \A i \in 1..Len(s) : SubSeq(s, 1, Len(s))[i] = s[i] /\ SubSeq(t, 1, Len(s))[i] = t[i]
  OBVIOUS
<1>3. SubSeq(s, 1, Len(s)) = SubSeq(t, 1, Len(s))
  BY <1>1, <1>2
<1>. QED BY <1>3 DEF IsPrefix

(* A client that has its answer keeps it, as long as the HEAD neither      *)
(* crashes nor leaves: whichever nodes behind it do, however many, and     *)
(* however the repairs of the chain overlap, every live node that the      *)
(* chain began with has the write at its place.  (When the HEAD goes too,  *)
(* what its successor accepts and what the HEAD still had on the way get   *)
(* the same number.)                                                       *)
THEOREM AnswersSurviveRepairs ==
  ASSUME HeadStays
  PROVE  ReconfigurationSpec => []AnsweredSurvives
<1>1. ASSUME IInv, HInv PROVE AnsweredSurvives
  <2>. SUFFICES ASSUME NEW w \in Writes, handler[w].pc = "answered",
                       NEW n \in Live \cap ToSet(chain) \cap 1..Initial
       PROVE  /\ handler[w].seq < Len(events[n])
              /\ events[n][handler[w].seq + 1] = w
    BY DEF AnsweredSurvives
  <2>. DEFINE seq == handler[w].seq
  <2>1. /\ n \in Nodes /\ n \in Nat /\ n >= 1 /\ 1 \in Nodes
        /\ Len(events[n]) \in Nat
        /\ seq \in Nat /\ seq < Len(events[1])
    BY <1>1, HeadFacts DEF HInv, Live
  <2>2. events[1][seq + 1] = w /\ seq < nextAckSeq[1]
    BY <1>1 DEF HInv, AnswersInv
  <2>3. seq < Len(events[n])
    <3>1. CASE n = 1
      BY <2>1, <3>1
    <3>2. CASE n # 1
      <4>1. n \notin Departed
        BY <1>1 DEF HInv, HeadInv, Departed, Live
      <4>2. nextAckSeq[1] - 1 < Len(events[n])
        BY <1>1, <2>1, <3>2, <4>1 DEF HInv, AckedInv, HeldBehind
      <4>3. nextAckSeq[1] \in Nat
        BY <1>1, <2>1, AckNumbers
      <4>. HIDE DEF seq
      <4>. QED BY <2>1, <2>2, <4>2, <4>3
    <3>. QED BY <3>1, <3>2
  <2>4. events[n][seq + 1] = events[1][seq + 1]
    <3>. HIDE DEF seq
    <3>1. seq + 1 \in 1..Len(events[n])
      BY <2>1, <2>3
    <3>. QED BY <1>1, <2>1, <3>1 DEF HInv, EventsInv
  <2>. QED BY <2>2, <2>3, <2>4
<1>. QED BY <1>1, HeadInvariant, PTL

(* The storages of all nodes, dead or alive, in the chain or out of it,    *)
(* are stages of one history as long as the HEAD neither crashes nor       *)
(* leaves: no event is applied twice, skipped or taken out of its order,   *)
(* although synchronisations send and acknowledge events again.            *)
THEOREM StoragesAlwaysAgree ==
  ASSUME HeadStays
  PROVE  ReconfigurationSpec => []StoragesAgree
<1>1. ASSUME IInv, HInv PROVE StoragesAgree
  <2>1. \A n \in Nodes : applied[n] \in Seq(Writes) /\ Len(applied[n]) \in Nat
    BY <1>1 DEF IInv, ReconfigurationTypeOK, TypeOK, AckTypes
  <2>2. ASSUME NEW m \in Nodes, NEW n \in Nodes, Len(applied[m]) <= Len(applied[n])
        PROVE  IsPrefix(applied[m], applied[n])
    <3>1. \A i \in 1..Len(applied[m]) : applied[m][i] = applied[n][i]
      BY <1>1, <2>1, <2>2 DEF HInv, AppliedInv
    <3>. QED BY <2>1, <2>2, <3>1, PrefixByElements
  <2>3. \A m, n \in Nodes :
          Len(applied[m]) <= Len(applied[n]) \/ Len(applied[n]) <= Len(applied[m])
    BY <2>1
  <2>. QED BY <2>2, <2>3 DEF StoragesAgree, Live
<1>. QED BY <1>1, HeadInvariant, PTL

-----------------------------------------------------------------------------
(* Which steps move connections and members. *)

(* The nodes at work: the chain, and what is known of it, stay. *)
NodesOnly ==
  /\ UNCHANGED <<neighbours, chain, joined, stopped, jobs, pendingSyncs>>
  /\ down \subseteq down'
  /\ \A n \in Nodes : /\ sync'[n].succ = sync[n].succ
                      /\ \A pc \in {"idle", "stopping"} :
                           sync'[n].pc = pc <=> sync[n].pc = pc

(* A synchronisation begins, connects its node, or ends. *)
SyncConnects ==
  \/ \E s \in pendingSyncs : BeginSync(s)
  \/ \E n \in Nodes : InstallSuccessor(n) \/ EndSync(n)

(* The control plane's calls. *)
JobCalls ==
  \E j \in jobs : \/ BeginSetPredecessor(j)
                  \/ InstallPredecessor(j)
                  \/ SetPredecessorFails(j)
                  \/ CallSetSuccessor(j)

LEMMA NodesOnlyFrame ==
  ASSUME UNCHANGED <<neighbours, reconfigurationVars>>, down \subseteq down'
  PROVE  NodesOnly
BY DEF NodesOnly, reconfigurationVars

LEMMA ChainStepMoves ==
  ASSUME ChainStep PROVE NodesOnly
<1>1. UNCHANGED reconfigurationVars
  BY DEF ChainStep
<1>2. UNCHANGED neighbours /\ down \subseteq down'
  <2>1. CASE \E n \in Nodes, w \in Writes : HandleWrite(n, w)
    BY <2>1 DEF HandleWrite
  <2>2. CASE \E w \in Writes : HandlerStep(w)
    BY <2>2 DEF HandlerStep, OpenAckChannel, BufferOwnEvent, ReceiveResult
  <2>3. CASE Fault
    BY <2>3 DEF Fault, ReplicateTimesOut, AckTimesOut, DeliverLateEvent,
                DeliverLateAck, BufferAck
  <2>. QED BY <2>1, <2>2, <2>3 DEF ChainStep
<1>. QED BY <1>1, <1>2, NodesOnlyFrame

LEMMA GoroutineMoves ==
  ASSUME NEW n \in Nodes, ReplicatorGoroutine(n) \/ AckProcessorGoroutine(n)
  PROVE  NodesOnly
<1>1. CASE ReplicatorGoroutine(n)
  <2>1. UNCHANGED <<neighbours, reconfigurationVars>> /\ down \subseteq down'
    BY <1>1 DEF ReplicatorGoroutine, ReplicatorStep, ReplicateToDead,
       StopReplicator, TakeNextEvent, FindNoEvent, BlockReplicator,
       ReplicateAtTail, ReplicateToSuccessor, BufferAck
  <2>. QED BY <2>1, NodesOnlyFrame
<1>2. CASE AckProcessorGoroutine(n)
  <2>1. UNCHANGED <<neighbours, reconfigurationVars>> /\ down \subseteq down'
    BY <1>2 DEF AckProcessorGoroutine, AckProcessorStep, AckToDead,
       StopAckProcessor, TakeNextAck, FindNoAck, BlockAckProcessor, ConfirmAck,
       Apply, SignalAtHead, AckToPredecessor, BufferAck
  <2>. QED BY <2>1, NodesOnlyFrame
<1>. QED BY <1>1, <1>2

LEMMA SyncMoves ==
  ASSUME IInv, NEW n \in Nodes, SyncGoroutine(n)
  PROVE  NodesOnly \/ SyncConnects
<1>1. sync \in [Nodes -> SyncState]
  BY DEF SyncState, IInv, ReconfigurationTypeOK, ReconfigurationTypes
<1>2. CASE QuerySuccessor(n)
  <2>1. /\ UNCHANGED <<neighbours, chain, joined, stopped, jobs, pendingSyncs, down>>
        /\ sync[n].pc = "query"
        /\ sync'[n].pc = "sync" /\ sync'[n].succ = sync[n].succ
        /\ \A k \in Nodes : k # n => sync'[k] = sync[k]
    BY <1>1, <1>2 DEF QuerySuccessor, vars, neighbours, SyncState
  <2>. QED BY <2>1 DEF NodesOnly
<1>3. CASE SyncAck(n)
  <2>1. /\ UNCHANGED <<neighbours, chain, joined, stopped, jobs, pendingSyncs>>
        /\ down \subseteq down'
        /\ sync'[n].pc = sync[n].pc /\ sync'[n].succ = sync[n].succ
        /\ \A k \in Nodes : k # n => sync'[k] = sync[k]
    BY <1>1, <1>3 DEF SyncAck, BufferAck, SyncState
  <2>. QED BY <2>1 DEF NodesOnly
<1>4. CASE SyncEvent(n)
  <2>1. /\ UNCHANGED <<neighbours, chain, joined, stopped, jobs, pendingSyncs, down>>
        /\ sync'[n].pc = sync[n].pc /\ sync'[n].succ = sync[n].succ
        /\ \A k \in Nodes : k # n => sync'[k] = sync[k]
    BY <1>1, <1>4 DEF SyncEvent, SyncState
  <2>. QED BY <2>1 DEF NodesOnly
<1>. QED BY <1>2, <1>3, <1>4 DEF SyncGoroutine, SyncConnects

LEMMA StepMoves ==
  ASSUME IInv, NextReconfiguration
  PROVE  NodesOnly \/ SyncConnects \/ JobCalls \/ Membership
<1>1. CASE ChainStep
  BY <1>1, ChainStepMoves
<1>2. CASE \E n \in Nodes : \/ ReplicatorGoroutine(n)
                            \/ AckProcessorGoroutine(n)
                            \/ SyncGoroutine(n)
  BY <1>2, GoroutineMoves, SyncMoves
<1>3. CASE \E p, s \in Nodes \cup {Nil} : JobStep(p, s)
  BY <1>3 DEF JobStep, JobCalls
<1>. QED BY <1>1, <1>2, <1>3 DEF NextReconfiguration

-----------------------------------------------------------------------------
(* Nobody leaves.  Then only nodes that have stopped are out of the chain. *)

LeftBehindInv == 1..joined \subseteq stopped \cup ToSet(chain) /\ stopped \subseteq down

LEMMA NextLeftBehind ==
  ASSUME MayLeave = {}, IInv, LeftBehindInv, [NextReconfiguration]_allVars
  PROVE  LeftBehindInv'
<1>1. CASE UNCHANGED <<chain, joined, stopped>> /\ down \subseteq down'
  BY <1>1 DEF LeftBehindInv
<1>2. CASE Membership
  <2>1. ASSUME NEW n \in Nodes, Crash(n) \/ Stop(n) PROVE LeftBehindInv'
    BY <2>1 DEF Crash, Stop, LeftBehindInv
  <2>2. ASSUME NEW n \in Nodes, Join(n) PROVE LeftBehindInv'
    <3>1. /\ n = joined + 1 /\ joined' = n /\ chain' = Append(chain, n)
          /\ down' = down \ {n} /\ stopped' = stopped
      BY <2>2 DEF Join
    <3>2. joined \in Nat /\ chain \in Seq(Nodes) /\ stopped \subseteq 1..joined
      BY ChainFacts DEF IInv, ChainInv
    <3>3. ToSet(chain') = ToSet(chain) \cup {n}
      BY <3>1, <3>2, AppendedToSet
    <3>4. 1..n = 1..joined \cup {n} /\ n \notin 1..joined
      BY <3>1, <3>2
    <3>. QED BY <3>1, <3>2, <3>3, <3>4 DEF LeftBehindInv
  <2>3. ASSUME NEW dead \in SUBSET (stopped \cap ToSet(chain)), RemoveDead(dead)
        PROVE  LeftBehindInv'
    <3>1. ToSet(chain') = ToSet(chain) \ dead
      BY <2>3, ChainFacts, WithoutProperties DEF RemoveDead
    <3>. QED BY <2>3, <3>1 DEF RemoveDead, LeftBehindInv, vars
  <2>4. \A n \in Nodes : ~Leave(n)
    BY DEF Leave
  <2>. QED BY <1>2, <2>1, <2>2, <2>3, <2>4 DEF Membership, Monitor
<1>3. CASE NodesOnly
  BY <1>1, <1>3 DEF NodesOnly
<1>4. CASE SyncConnects
  BY <1>1, <1>4 DEF SyncConnects, BeginSync, InstallSuccessor, EndSync
<1>5. CASE JobCalls
  BY <1>1, <1>5 DEF JobCalls, BeginSetPredecessor, InstallPredecessor,
     SetPredecessorFails, CallSetSuccessor, vars
<1>6. CASE UNCHANGED allVars
  BY <1>1, <1>6 DEF allVars, vars, reconfigurationVars
<1>. QED BY <1>2, <1>3, <1>4, <1>5, <1>6, StepMoves

(* When nodes only crash and join, however many and in whatever order, no  *)
(* node dies that has not crashed, in the chain or out of it.  (A node     *)
(* that leaves is not spared by overlapping reconnections.)                *)
THEOREM CrashesAloneKill ==
  ASSUME MayLeave = {}
  PROVE  ReconfigurationSpec => []OnlyCrashesKill
<1>1. InitReconfiguration => LeftBehindInv
  <2>. SUFFICES ASSUME InitReconfiguration PROVE LeftBehindInv
    OBVIOUS
  <2>1. chain = [n \in 1..Initial |-> n] /\ joined = Initial /\ stopped = {}
    BY DEF InitReconfiguration
  <2>2. 1..Initial \subseteq ToSet(chain)
    BY <2>1 DEF ToSet
  <2>. QED BY <2>1, <2>2 DEF LeftBehindInv
<1>2. ASSUME IInv, LeftBehindInv PROVE OnlyCrashesKill
  <2>1. down \subseteq Nodes /\ stopped \subseteq 1..joined /\ joined \in Nat
    BY <1>2, ChainFacts DEF IInv, ChainInv, ReconfigurationTypeOK, TypeOK
  <2>2. Departed = stopped \cup (1..joined \ ToSet(chain))
    BY DEF Departed
  <2>3. down \cap 1..joined \subseteq stopped
    BY <1>2, <2>2 DEF IInv, LifeInv, LeftBehindInv
  <2>4. \A n \in Nodes : n \notin 1..joined => n > joined
    <3>1. \A n \in Nodes : n \in Nat /\ n >= 1
      BY ChainAssumption DEF Nodes
    <3>. QED BY <2>1, <3>1
  <2>. QED BY <1>2, <2>1, <2>3, <2>4
       DEF OnlyCrashesKill, LeftBehindInv, IInv, AbsentInv
<1>3. IInv /\ LeftBehindInv /\ [NextReconfiguration]_allVars => LeftBehindInv'
  BY NextLeftBehind
<1>. QED BY <1>1, <1>2, <1>3, InitIInv, NextIInv, PTL DEF ReconfigurationSpec

-----------------------------------------------------------------------------
(* One node crashes, leaves or joins.  Every connection that is on its way *)
(* is one between neighbours of the chain as it is, and every connection   *)
(* that the chain needs is there or on its way.                            *)

OneChange == MaxChanges <= 1

(* q follows p among members; Nil precedes the first, and follows the last. *)
Adjacent(p, q, members) ==
  /\ p \in members \cup {Nil} /\ q \in members \cup {Nil}
  /\ p # Nil \/ q # Nil
  /\ q # Nil => p < q
  /\ \A k \in members : k <= p \/ (q # Nil /\ q <= k)

PendingInv ==
  /\ \A j \in jobs : Adjacent(j.pred, j.succ, ToSet(chain))
  /\ \A s \in pendingSyncs : Adjacent(s.node, s.succ, ToSet(chain))
  /\ \A n \in Nodes : sync[n].pc # "idle" =>
                        Adjacent(n, sync[n].succ, ToSet(chain))

WillPrecede(p, q) ==
  \/ predecessor[q] = p
  \/ \E j \in jobs : j.pc # "succ" /\ j.pred = p /\ j.succ = q

WillSucceed(p, q) ==
  \/ successor[p] = q
  \/ \E j \in jobs : j.pred = p /\ j.succ = q
  \/ \E s \in pendingSyncs : s.node = p /\ s.succ = q
  \/ sync[p].pc = "stopping" /\ sync[p].succ = q

RepairInv ==
  \A p, q \in Nodes \cup {Nil} : Adjacent(p, q, ToSet(chain)) =>
    /\ q # Nil => WillPrecede(p, q)
    /\ p # Nil => WillSucceed(p, q)

(* Before the change, up to the crash of a node that nobody has noticed.   *)
Untouched ==
  /\ joined = Initial /\ ToSet(chain) = 1..Initial
  /\ jobs = {} /\ pendingSyncs = {}
  /\ \A n \in Nodes : sync[n].pc = "idle"
  /\ \A n \in Nodes : n > joined => successor[n] = Nil
  /\ \E c \in Nodes : stopped \subseteq {c}

(* After it, when every node of the chain is alive. *)
Changed ==
  /\ Departed # {} \/ joined # Initial
  /\ stopped \cap ToSet(chain) = {}

WiredInv == PendingInv /\ RepairInv /\ (Untouched \/ Changed)

LEMMA MembersAreNumbers ==
  ASSUME IInv
  PROVE  /\ ToSet(chain) \subseteq Nodes
         /\ \A n \in Nodes : n \in Nat /\ n >= 1 /\ n # Nil
<1>1. \A n \in Nodes : n \in Nat /\ n >= 1 /\ n # Nil
  BY ChainAssumption DEF Nodes, Nil
<1>. QED BY <1>1, ChainFacts DEF ToSet

LEMMA AdjacentUnique ==
  ASSUME NEW members \in SUBSET Nat, 0 \notin members,
         NEW p, NEW q, Adjacent(p, q, members)
  PROVE  \A r : /\ Adjacent(p, r, members) => r = q
                /\ Adjacent(r, q, members) => r = p
<1>1. p \in Nat /\ q \in Nat
  BY DEF Adjacent, Nil
<1>2. ASSUME NEW r, Adjacent(p, r, members) PROVE r = q
  <2>1. r \in Nat
    BY <1>2 DEF Adjacent, Nil
  <2>. QED BY <1>1, <1>2, <2>1 DEF Adjacent, Nil
<1>3. ASSUME NEW r, Adjacent(r, q, members) PROVE r = p
  <2>1. r \in Nat
    BY <1>3 DEF Adjacent, Nil
  <2>. QED BY <1>1, <1>3, <2>1 DEF Adjacent, Nil
<1>. QED BY <1>2, <1>3

(* A change is the first. *)
LEMMA FirstChange ==
  ASSUME OneChange, IInv, WiredInv, MayChange
  PROVE  Untouched /\ stopped = {} /\ Departed = {}
<1>1. joined \in Nat /\ Initial \in Nat /\ joined >= Initial
  BY ChainAssumption, ReconfigurationAssumption
  DEF Nodes, IInv, ReconfigurationTypeOK, ReconfigurationTypes
<1>2. IsFiniteSet(Departed)
  <2>1. Departed \subseteq 1..joined
    BY ChainFacts DEF Departed, IInv, ChainInv
  <2>2. IsFiniteSet(1..joined)
    BY <1>1, FS_Interval
  <2>. QED BY <2>1, <2>2, FS_Subset
<1>3. Cardinality(Departed) = 0 /\ joined = Initial
  <2>1. Cardinality(Departed) \in Nat
    BY <1>2, FS_CardinalityType
  <2>2. MaxChanges \in Nat
    BY ReconfigurationAssumption
  <2>. QED BY <1>1, <2>1, <2>2 DEF MayChange, OneChange
<1>4. Departed = {}
  BY <1>2, <1>3, FS_EmptySet
<1>5. stopped = {}
  BY <1>4 DEF Departed
<1>. QED BY <1>3, <1>4, <1>5 DEF WiredInv, Changed

LEMMA NodesOnlyWired ==
  ASSUME IInv, WiredInv, NodesOnly
  PROVE  WiredInv'
<1>1. UNCHANGED <<predecessor, successor, chain, joined, stopped, jobs, pendingSyncs>>
  BY DEF NodesOnly, neighbours
<1>2. PendingInv'
  BY <1>1 DEF NodesOnly, WiredInv, PendingInv
<1>3. RepairInv'
  <2>. SUFFICES ASSUME NEW p \in Nodes \cup {Nil}, NEW q \in Nodes \cup {Nil},
                       Adjacent(p, q, ToSet(chain))
       PROVE  /\ q # Nil => WillPrecede(p, q)'
              /\ p # Nil => WillSucceed(p, q)'
    BY <1>1 DEF RepairInv
  <2>1. /\ q # Nil => WillPrecede(p, q)
        /\ p # Nil => WillSucceed(p, q)
    BY DEF WiredInv, RepairInv
  <2>. QED BY <1>1, <2>1 DEF NodesOnly, WillPrecede, WillSucceed
<1>4. Untouched => Untouched'
  BY <1>1 DEF NodesOnly, Untouched
<1>5. Changed => Changed'
  BY <1>1 DEF Changed, Departed
<1>. QED BY <1>2, <1>3, <1>4, <1>5 DEF WiredInv

(* What is on its way is for neighbours, so there is one for each place.   *)
LEMMA PendingUnique ==
  ASSUME IInv, NEW p, NEW q, Adjacent(p, q, ToSet(chain))
  PROVE  \A r : /\ Adjacent(p, r, ToSet(chain)) => r = q
                /\ Adjacent(r, q, ToSet(chain)) => r = p
<1>1. ToSet(chain) \in SUBSET Nat /\ 0 \notin ToSet(chain)
  BY MembersAreNumbers
<1>. HIDE DEF Adjacent
<1>. QED BY <1>1, AdjacentUnique

LEMMA MembersAlive ==
  ASSUME IInv, Changed
  PROVE  ToSet(chain) \cap down = {}
<1>. SUFFICES ASSUME NEW n \in ToSet(chain) \cap down PROVE FALSE
  OBVIOUS
<1>1. n \in 1..joined
  BY ChainFacts DEF ToSet
<1>. QED BY <1>1 DEF IInv, LifeInv, Departed, Changed

LEMMA BeginSyncWired ==
  ASSUME IInv, WiredInv, NEW s \in pendingSyncs, BeginSync(s)
  PROVE  WiredInv'
<1>1. s.node \in Nodes /\ sync \in [Nodes -> SyncState]
  BY DEF SyncState, IInv, ReconfigurationTypeOK, ReconfigurationTypes
<1>2. /\ UNCHANGED <<predecessor, successor, chain, joined, stopped, jobs>>
      /\ pendingSyncs' = pendingSyncs \ {s}
      /\ sync[s.node].pc = "idle"
      /\ sync'[s.node].pc = "stopping" /\ sync'[s.node].succ = s.succ
      /\ \A n \in Nodes : n # s.node => sync'[n] = sync[n]
  BY <1>1 DEF BeginSync, neighbours, NoSync
<1>3. PendingInv'
  BY <1>2 DEF WiredInv, PendingInv
<1>4. RepairInv'
  <2>. SUFFICES ASSUME NEW p \in Nodes \cup {Nil}, NEW q \in Nodes \cup {Nil},
                       Adjacent(p, q, ToSet(chain))
       PROVE  /\ q # Nil => WillPrecede(p, q)'
              /\ p # Nil => WillSucceed(p, q)'
    BY <1>2 DEF RepairInv
  <2>1. /\ q # Nil => WillPrecede(p, q)
        /\ p # Nil => WillSucceed(p, q)
    BY DEF WiredInv, RepairInv
  <2>2. q # Nil => WillPrecede(p, q)'
    BY <1>2, <2>1 DEF WillPrecede
  <2>3. p # Nil => WillSucceed(p, q)'
    BY <1>2, <2>1 DEF WillSucceed
  <2>. QED BY <2>2, <2>3
<1>5. Changed'
  BY <1>2 DEF WiredInv, Untouched, Changed, Departed
<1>. QED BY <1>3, <1>4, <1>5 DEF WiredInv

LEMMA InstallSuccessorWired ==
  ASSUME IInv, WiredInv, NEW n \in Nodes, InstallSuccessor(n)
  PROVE  WiredInv'
<1>1. /\ sync \in [Nodes -> SyncState]
      /\ successor \in [Nodes -> Nodes \cup {Nil}]
  BY DEF SyncState, IInv, ReconfigurationTypeOK, ReconfigurationTypes, TypeOK
<1>2. /\ UNCHANGED <<predecessor, chain, joined, stopped, jobs, pendingSyncs>>
      /\ sync[n].pc = "stopping"
      /\ sync'[n].pc \in {"query", "sync"} /\ sync'[n].succ = sync[n].succ
      /\ successor'[n] = sync[n].succ
      /\ \A k \in Nodes : k # n => sync'[k] = sync[k] /\ successor'[k] = successor[k]
  BY <1>1 DEF InstallSuccessor, SyncState
<1>3. PendingInv'
  BY <1>2 DEF WiredInv, PendingInv
<1>4. RepairInv'
  <2>. SUFFICES ASSUME NEW p \in Nodes \cup {Nil}, NEW q \in Nodes \cup {Nil},
                       Adjacent(p, q, ToSet(chain))
       PROVE  /\ q # Nil => WillPrecede(p, q)'
              /\ p # Nil => WillSucceed(p, q)'
    BY <1>2 DEF RepairInv
  <2>1. /\ q # Nil => WillPrecede(p, q)
        /\ p # Nil => WillSucceed(p, q)
    BY DEF WiredInv, RepairInv
  <2>2. q # Nil => WillPrecede(p, q)'
    BY <1>2, <2>1 DEF WillPrecede
  <2>3. CASE p = n
    <3>1. Adjacent(n, sync[n].succ, ToSet(chain))
      BY <1>2 DEF WiredInv, PendingInv
    <3>2. sync[n].succ = q
      BY <2>3, <3>1, PendingUnique
    <3>. QED BY <1>2, <2>2, <2>3, <3>2 DEF WillSucceed
  <2>4. CASE p # n
    BY <1>2, <2>1, <2>2, <2>4 DEF WillSucceed
  <2>. QED BY <2>3, <2>4
<1>5. Changed'
  BY <1>2 DEF WiredInv, Untouched, Changed, Departed
<1>. QED BY <1>3, <1>4, <1>5 DEF WiredInv

LEMMA EndSyncWired ==
  ASSUME IInv, WiredInv, NEW n \in Nodes, EndSync(n)
  PROVE  WiredInv'
<1>1. sync \in [Nodes -> SyncState]
  BY DEF SyncState, IInv, ReconfigurationTypeOK, ReconfigurationTypes
<1>2. /\ UNCHANGED <<predecessor, successor, chain, joined, stopped, jobs,
                     pendingSyncs>>
      /\ sync[n].pc \in {"query", "sync"} /\ sync'[n].pc = "idle"
      /\ \A k \in Nodes : k # n => sync'[k] = sync[k]
  BY <1>1 DEF EndSync, neighbours, NoSync
<1>3. PendingInv'
  BY <1>2 DEF WiredInv, PendingInv
<1>4. RepairInv'
  <2>. SUFFICES ASSUME NEW p \in Nodes \cup {Nil}, NEW q \in Nodes \cup {Nil},
                       Adjacent(p, q, ToSet(chain))
       PROVE  /\ q # Nil => WillPrecede(p, q)'
              /\ p # Nil => WillSucceed(p, q)'
    BY <1>2 DEF RepairInv
  <2>1. /\ q # Nil => WillPrecede(p, q)
        /\ p # Nil => WillSucceed(p, q)
    BY DEF WiredInv, RepairInv
  <2>. QED BY <1>2, <2>1 DEF WillPrecede, WillSucceed
<1>5. Changed'
  BY <1>2 DEF WiredInv, Untouched, Changed, Departed
<1>. QED BY <1>3, <1>4, <1>5 DEF WiredInv

LEMMA BeginSetPredecessorWired ==
  ASSUME IInv, WiredInv, NEW j \in jobs, BeginSetPredecessor(j)
  PROVE  WiredInv'
<1>. PICK i : i = [j EXCEPT !.pc = "stopping"]
  OBVIOUS
<1>1. j \in JobState
  BY JobIsOK
<1>2. /\ UNCHANGED <<predecessor, successor, chain, joined, stopped,
                     pendingSyncs, sync>>
      /\ jobs' = (jobs \ {j}) \cup {i}
      /\ i.pred = j.pred /\ i.succ = j.succ /\ i.pc = "stopping"
  BY <1>1 DEF BeginSetPredecessor, MoveJob, neighbours, JobState
<1>3. PendingInv'
  BY <1>2 DEF WiredInv, PendingInv
<1>4. RepairInv'
  <2>. SUFFICES ASSUME NEW p \in Nodes \cup {Nil}, NEW q \in Nodes \cup {Nil},
                       Adjacent(p, q, ToSet(chain))
       PROVE  /\ q # Nil => WillPrecede(p, q)'
              /\ p # Nil => WillSucceed(p, q)'
    BY <1>2 DEF RepairInv
  <2>1. /\ q # Nil => WillPrecede(p, q)
        /\ p # Nil => WillSucceed(p, q)
    BY DEF WiredInv, RepairInv
  <2>2. q # Nil => WillPrecede(p, q)'
    BY <1>2, <2>1 DEF WillPrecede
  <2>3. p # Nil => WillSucceed(p, q)'
    BY <1>2, <2>1 DEF WillSucceed
  <2>. QED BY <2>2, <2>3
<1>5. Changed'
  BY <1>2 DEF WiredInv, Untouched, Changed, Departed
<1>. QED BY <1>3, <1>4, <1>5 DEF WiredInv

LEMMA InstallPredecessorWired ==
  ASSUME IInv, WiredInv, NEW j \in jobs, InstallPredecessor(j)
  PROVE  WiredInv'
<1>. PICK i : i = [j EXCEPT !.pc = "succ"]
  OBVIOUS
<1>1. /\ j \in JobState /\ j.pc = "stopping" /\ j.succ # Nil
      /\ predecessor \in [Nodes -> Nodes \cup {Nil}]
  BY JobIsOK DEF JobOK, InstallPredecessor, IInv, ReconfigurationTypeOK, TypeOK
<1>2. /\ UNCHANGED <<successor, chain, joined, stopped, pendingSyncs, sync>>
      /\ predecessor'[j.succ] = j.pred
      /\ \A k \in Nodes : k # j.succ => predecessor'[k] = predecessor[k]
      /\ jobs' = IF j.pred = Nil THEN jobs \ {j} ELSE (jobs \ {j}) \cup {i}
      /\ i.pred = j.pred /\ i.succ = j.succ /\ i.pc = "succ"
  BY <1>1 DEF InstallPredecessor, MoveJob, JobState
<1>3. PendingInv'
  BY <1>2 DEF WiredInv, PendingInv
<1>4. RepairInv'
  <2>. SUFFICES ASSUME NEW p \in Nodes \cup {Nil}, NEW q \in Nodes \cup {Nil},
                       Adjacent(p, q, ToSet(chain))
       PROVE  /\ q # Nil => WillPrecede(p, q)'
              /\ p # Nil => WillSucceed(p, q)'
    BY <1>2 DEF RepairInv
  <2>1. /\ q # Nil => WillPrecede(p, q)
        /\ p # Nil => WillSucceed(p, q)
    BY DEF WiredInv, RepairInv
  <2>2. q # Nil => WillPrecede(p, q)'
    <3>1. CASE q = j.succ
      <4>1. Adjacent(j.pred, j.succ, ToSet(chain))
        BY DEF WiredInv, PendingInv
      <4>2. p = j.pred
        BY <3>1, <4>1, PendingUnique
      <4>. QED BY <1>2, <3>1, <4>2 DEF WillPrecede
    <3>2. CASE q # j.succ
      BY <1>2, <2>1, <3>2 DEF WillPrecede
    <3>. QED BY <3>1, <3>2
  <2>3. p # Nil => WillSucceed(p, q)'
    BY <1>2, <2>1 DEF WillSucceed
  <2>. QED BY <2>2, <2>3
<1>5. Changed'
  BY <1>2 DEF WiredInv, Untouched, Changed, Departed
<1>. QED BY <1>3, <1>4, <1>5 DEF WiredInv

LEMMA CallSetSuccessorWired ==
  ASSUME IInv, WiredInv, NEW j \in jobs, CallSetSuccessor(j)
  PROVE  WiredInv'
<1>. PICK s : s = [node |-> j.pred, succ |-> j.succ, epoch |-> j.epoch]
  OBVIOUS
<1>1. /\ j.pc = "succ" /\ j.pred # Nil /\ j.pred \notin down
      /\ Adjacent(j.pred, j.succ, ToSet(chain))
  <2>1. Changed
    BY DEF WiredInv, Untouched
  <2>2. j.pc = "succ" /\ j.pred # Nil
    BY JobIsOK DEF JobOK, CallSetSuccessor
  <2>3. Adjacent(j.pred, j.succ, ToSet(chain))
    BY DEF WiredInv, PendingInv
  <2>. QED BY <2>1, <2>2, <2>3, MembersAlive DEF Adjacent
<1>2. /\ UNCHANGED <<predecessor, successor, chain, joined, stopped, sync>>
      /\ jobs' = jobs \ {j}
      /\ pendingSyncs' = pendingSyncs \cup {s}
      /\ s.node = j.pred /\ s.succ = j.succ
  BY <1>1 DEF CallSetSuccessor, vars
<1>3. PendingInv'
  BY <1>1, <1>2 DEF WiredInv, PendingInv
<1>4. RepairInv'
  <2>. SUFFICES ASSUME NEW p \in Nodes \cup {Nil}, NEW q \in Nodes \cup {Nil},
                       Adjacent(p, q, ToSet(chain))
       PROVE  /\ q # Nil => WillPrecede(p, q)'
              /\ p # Nil => WillSucceed(p, q)'
    BY <1>2 DEF RepairInv
  <2>1. /\ q # Nil => WillPrecede(p, q)
        /\ p # Nil => WillSucceed(p, q)
    BY DEF WiredInv, RepairInv
  <2>2. q # Nil => WillPrecede(p, q)'
    BY <1>1, <1>2, <2>1 DEF WillPrecede
  <2>3. p # Nil => WillSucceed(p, q)'
    BY <1>2, <2>1 DEF WillSucceed
  <2>. QED BY <2>2, <2>3
<1>5. Changed'
  BY <1>2 DEF WiredInv, Untouched, Changed, Departed
<1>. QED BY <1>3, <1>4, <1>5 DEF WiredInv

LEMMA SetPredecessorSucceeds ==
  ASSUME IInv, WiredInv, NEW j \in jobs
  PROVE  ~SetPredecessorFails(j)
<1>. SUFFICES ASSUME SetPredecessorFails(j) PROVE FALSE
  OBVIOUS
<1>1. Changed
  BY DEF WiredInv, Untouched
<1>2. j.succ # Nil /\ j.succ \in down
  BY JobIsOK DEF JobOK, SetPredecessorFails
<1>3. Adjacent(j.pred, j.succ, ToSet(chain))
  BY DEF WiredInv, PendingInv
<1>. QED BY <1>1, <1>2, <1>3, MembersAlive DEF Adjacent

LEMMA CrashOrStopWired ==
  ASSUME OneChange, IInv, WiredInv, NEW n \in Nodes, Crash(n) \/ Stop(n)
  PROVE  WiredInv'
<1>1. UNCHANGED <<predecessor, successor, chain, joined, jobs, pendingSyncs, sync>>
  BY DEF Crash, Stop, neighbours
<1>2. PendingInv'
  BY <1>1 DEF WiredInv, PendingInv
<1>3. RepairInv'
  <2>. SUFFICES ASSUME NEW p \in Nodes \cup {Nil}, NEW q \in Nodes \cup {Nil},
                       Adjacent(p, q, ToSet(chain))
       PROVE  /\ q # Nil => WillPrecede(p, q)'
              /\ p # Nil => WillSucceed(p, q)'
    BY <1>1 DEF RepairInv
  <2>1. /\ q # Nil => WillPrecede(p, q)
        /\ p # Nil => WillSucceed(p, q)
    BY DEF WiredInv, RepairInv
  <2>. QED BY <1>1, <2>1 DEF WillPrecede, WillSucceed
<1>4. CASE Crash(n)
  <2>1. Untouched /\ stopped = {}
    BY <1>4, FirstChange DEF Crash
  <2>2. stopped' = {n}
    BY <1>4, <2>1 DEF Crash
  <2>. QED BY <1>1, <1>2, <1>3, <2>1, <2>2 DEF WiredInv, Untouched
<1>5. CASE Stop(n)
  <2>1. n \notin ToSet(chain) /\ n \notin down /\ stopped' = stopped \cup {n}
    BY <1>5 DEF Stop
  <2>2. n \in 1..joined
    BY <2>1, RunningHasJoined
  <2>3. Changed
    BY <2>1, <2>2 DEF WiredInv, Untouched
  <2>. QED BY <1>1, <1>2, <1>3, <2>1, <2>3 DEF WiredInv, Changed, Departed
<1>. QED BY <1>4, <1>5

(* Places of the chain are in the order of its nodes.                      *)
LEMMA PlacesInOrder ==
  ASSUME IInv
  PROVE  /\ \A a \in DOMAIN chain : /\ a \in 1..Len(chain) /\ a \in Nat
                                    /\ chain[a] \in Nodes /\ chain[a] \in Nat
                                    /\ chain[a] # Nil
         /\ \A a, b \in DOMAIN chain : a < b <=> chain[a] < chain[b]
<1>1. \A a \in DOMAIN chain : /\ a \in 1..Len(chain) /\ a \in Nat
                              /\ chain[a] \in Nodes /\ chain[a] \in Nat
                              /\ chain[a] # Nil
  BY ChainFacts, MembersAreNumbers
<1>2. ASSUME NEW a \in DOMAIN chain, NEW b \in DOMAIN chain
      PROVE  a < b <=> chain[a] < chain[b]
  <2>1. a < b \/ a = b \/ b < a
    BY <1>1
  <2>2. /\ a < b => chain[a] < chain[b]
        /\ b < a => chain[b] < chain[a]
    BY ChainFacts DEF Increasing
  <2>. QED BY <1>1, <2>1, <2>2
<1>. QED BY <1>1, <1>2

(* The places next to each other in the chain are those of neighbours.     *)
LEMMA PlacesAreAdjacent ==
  ASSUME IInv, NEW i \in DOMAIN chain
  PROVE  /\ i # 1 => i - 1 \in DOMAIN chain
                     /\ Adjacent(chain[i - 1], chain[i], ToSet(chain))
         /\ i # Len(chain) => i + 1 \in DOMAIN chain
                     /\ Adjacent(chain[i], chain[i + 1], ToSet(chain))
         /\ i = 1 => Adjacent(Nil, chain[i], ToSet(chain))
         /\ i = Len(chain) => Adjacent(chain[i], Nil, ToSet(chain))
<1>1. /\ i \in 1..Len(chain) /\ Len(chain) \in Nat /\ DOMAIN chain = 1..Len(chain)
      /\ \A a \in DOMAIN chain : chain[a] \in Nodes /\ chain[a] \in ToSet(chain)
      /\ \A a \in DOMAIN chain : chain[a] \in Nat /\ chain[a] >= 1 /\ chain[a] # Nil
  BY ChainFacts, MembersAreNumbers DEF ToSet
<1>2. \A a, b \in DOMAIN chain : /\ a < b => chain[a] < chain[b]
                                 /\ a <= b => chain[a] <= chain[b]
  BY <1>1, PlacesInOrder
<1>3. ASSUME i = 1 PROVE Adjacent(Nil, chain[i], ToSet(chain))
  <2>1. \A k \in ToSet(chain) : chain[i] <= k
    <3>1. \A a \in DOMAIN chain : i <= a
      BY <1>1, <1>3
    <3>. QED BY <1>2, <3>1 DEF ToSet
  <2>. QED BY <1>1, <1>3, <2>1 DEF Adjacent, Nil
<1>4. ASSUME i = Len(chain) PROVE Adjacent(chain[i], Nil, ToSet(chain))
  <2>1. \A k \in ToSet(chain) : k <= chain[i]
    BY <1>1, <1>2, <1>4 DEF ToSet
  <2>. QED BY <1>1, <1>4, <2>1 DEF Adjacent
<1>5. ASSUME NEW a \in DOMAIN chain, NEW b \in DOMAIN chain, b = a + 1
      PROVE  Adjacent(chain[a], chain[b], ToSet(chain))
  <2>1. \A k \in ToSet(chain) : k <= chain[a] \/ chain[b] <= k
    <3>1. \A c \in DOMAIN chain : c <= a \/ b <= c
      BY <1>1, <1>5
    <3>. QED BY <1>2, <3>1 DEF ToSet
  <2>2. chain[a] < chain[b]
    BY <1>1, <1>2, <1>5
  <2>. QED BY <1>1, <2>1, <2>2 DEF Adjacent
<1>6. /\ i # 1 => i - 1 \in DOMAIN chain /\ i = (i - 1) + 1
      /\ i # Len(chain) => i + 1 \in DOMAIN chain
  BY <1>1
<1>7. i # 1 => Adjacent(chain[i - 1], chain[i], ToSet(chain))
  BY <1>5, <1>6
<1>8. i # Len(chain) => Adjacent(chain[i], chain[i + 1], ToSet(chain))
  BY <1>5, <1>6
<1>. QED BY <1>3, <1>4, <1>6, <1>7, <1>8

(* The chain loses members, and its neighbours' connections begin.         *)
LEMMA RepairBegins ==
  ASSUME IInv, WiredInv, Untouched, ToSet(chain') \subseteq ToSet(chain),
         NEW new, jobs' = jobs \cup new,
         \A j \in new : Adjacent(j.pred, j.succ, ToSet(chain')),
         \A p, q \in Nodes \cup {Nil} : Adjacent(p, q, ToSet(chain')) =>
           \/ Adjacent(p, q, ToSet(chain))
           \/ \E j \in new : /\ j.pred = p /\ j.succ = q
                             /\ q # Nil => j.pc # "succ",
         UNCHANGED <<vars, pendingSyncs, sync>>
  PROVE  PendingInv' /\ RepairInv'
<1>1. UNCHANGED <<predecessor, successor>> /\ jobs' = new
  BY DEF vars, neighbours, Untouched
<1>2. PendingInv'
  BY <1>1 DEF Untouched, PendingInv
<1>3. RepairInv'
  <2>. SUFFICES ASSUME NEW p \in Nodes \cup {Nil}, NEW q \in Nodes \cup {Nil},
                       Adjacent(p, q, ToSet(chain'))
       PROVE  /\ q # Nil => WillPrecede(p, q)'
              /\ p # Nil => WillSucceed(p, q)'
    BY DEF RepairInv
  <2>1. CASE Adjacent(p, q, ToSet(chain))
    <3>1. /\ q # Nil => WillPrecede(p, q)
          /\ p # Nil => WillSucceed(p, q)
      BY <2>1 DEF WiredInv, RepairInv
    <3>2. /\ q # Nil => predecessor[q] = p
          /\ p # Nil => successor[p] = q
      BY <3>1 DEF WillPrecede, WillSucceed, Untouched
    <3>. QED BY <1>1, <3>2 DEF WillPrecede, WillSucceed
  <2>2. CASE \E j \in new : /\ j.pred = p /\ j.succ = q
                            /\ q # Nil => j.pc # "succ"
    BY <1>1, <2>2 DEF WillPrecede, WillSucceed
  <2>. QED BY <2>1, <2>2
<1>. QED BY <1>2, <1>3

LEMMA LeaveWired ==
  ASSUME OneChange, IInv, WiredInv, NEW n \in Nodes, Leave(n)
  PROVE  WiredInv'
<1>a. PICK i \in DOMAIN chain :
       /\ chain[i] = n
       /\ chain' = RemoveAt(chain, i)
       /\ LET pred == IF i = 1 THEN Nil ELSE chain[i - 1]
              succ == IF i = Len(chain) THEN Nil ELSE chain[i + 1]
          IN  jobs' = IF pred = Nil /\ succ = Nil THEN jobs
                      ELSE jobs \cup {Job(pred, succ)}
  <2>. DEFINE j == CHOOSE k \in DOMAIN chain : chain[k] = n
  <2>1. j \in DOMAIN chain /\ chain[j] = n
    BY DEF Leave, ToSet
  <2>. QED BY <2>1 DEF Leave
<1>b. PICK pred : pred = IF i = 1 THEN Nil ELSE chain[i - 1]
  OBVIOUS
<1>c. PICK succ : succ = IF i = Len(chain) THEN Nil ELSE chain[i + 1]
  OBVIOUS
<1>d. PICK new : new = IF pred = Nil /\ succ = Nil THEN {} ELSE {Job(pred, succ)}
  OBVIOUS
<1>1. /\ jobs' = jobs \cup new
      /\ MayChange /\ UNCHANGED <<vars, joined, stopped, pendingSyncs, sync>>
  BY <1>a, <1>b, <1>c, <1>d DEF Leave
<1>2. Untouched /\ stopped = {}
  BY <1>1, FirstChange
<1>3. ToSet(chain') = ToSet(chain) \ {n} /\ n \in ToSet(chain)
  BY <1>a, ChainFacts, RemoveAtProperties DEF ToSet
<1>4. i \in 1..Len(chain) /\ Len(chain) \in Nat /\ DOMAIN chain = 1..Len(chain)
  BY ChainFacts
<1>5. /\ pred = Nil \/ (pred \in ToSet(chain') /\ pred < n)
      /\ succ = Nil \/ (succ \in ToSet(chain') /\ n < succ)
      /\ \A k \in ToSet(chain') : k <= pred \/ (succ # Nil /\ succ <= k)
  <2>1. i # 1 => i - 1 \in DOMAIN chain /\ i - 1 < i
    BY <1>4
  <2>2. i # Len(chain) => i + 1 \in DOMAIN chain /\ i < i + 1
    BY <1>4
  <2>3. pred = Nil \/ (pred \in ToSet(chain') /\ pred < n)
    <3>1. i # 1 => chain[i - 1] \in ToSet(chain) /\ chain[i - 1] < n
      BY <1>a, <2>1, PlacesInOrder DEF ToSet
    <3>2. n \in Nat /\ (i # 1 => chain[i - 1] # n)
      BY <1>a, <3>1, <2>1, PlacesInOrder
    <3>. QED BY <1>b, <1>3, <3>1, <3>2
  <2>4. succ = Nil \/ (succ \in ToSet(chain') /\ n < succ)
    <3>1. i # Len(chain) => chain[i + 1] \in ToSet(chain) /\ n < chain[i + 1]
      BY <1>a, <2>2, PlacesInOrder DEF ToSet
    <3>2. n \in Nat /\ (i # Len(chain) => chain[i + 1] # n)
      BY <1>a, <3>1, <2>2, PlacesInOrder
    <3>. QED BY <1>c, <1>3, <3>1, <3>2
  <2>5. ASSUME NEW k \in ToSet(chain')
        PROVE  k <= pred \/ (succ # Nil /\ succ <= k)
    <3>1. PICK l \in DOMAIN chain : k = chain[l]
      BY <1>3 DEF ToSet
    <3>2. l # i /\ l \in 1..Len(chain)
      BY <1>a, <1>3, <1>4, <3>1
    <3>3. CASE l < i
      <4>1. i # 1 /\ ~(i - 1 < l)
        BY <1>4, <3>2, <3>3
      <4>2. ~(chain[i - 1] < chain[l]) /\ chain[i - 1] \in Nat /\ chain[l] \in Nat
        BY <2>1, <4>1, PlacesInOrder
      <4>. QED BY <1>b, <3>1, <4>1, <4>2
    <3>4. CASE i < l
      <4>1. i # Len(chain) /\ ~(l < i + 1)
        BY <1>4, <3>2, <3>4
      <4>2. ~(chain[l] < chain[i + 1]) /\ chain[i + 1] \in Nat /\ chain[l] \in Nat
            /\ chain[i + 1] # Nil
        BY <2>2, <4>1, PlacesInOrder
      <4>. QED BY <1>c, <3>1, <4>1, <4>2
    <3>. QED BY <1>4, <3>2, <3>3, <3>4
  <2>. QED BY <2>3, <2>4, <2>5
<1>6. ToSet(chain') \subseteq Nat /\ 0 \notin ToSet(chain') /\ n \in Nat /\ n > 0
  BY <1>3, MembersAreNumbers
<1>7. Job(pred, succ).pred = pred /\ Job(pred, succ).succ = succ
      /\ (succ # Nil => Job(pred, succ).pc # "succ")
  BY DEF Job
<1>8. \A j \in new : Adjacent(j.pred, j.succ, ToSet(chain'))
  <2>1. \A j \in new : j.pred = pred /\ j.succ = succ /\ (pred # Nil \/ succ # Nil)
    BY <1>d, <1>7
  <2>2. succ # Nil => pred < succ
    BY <1>5, <1>6 DEF Nil
  <2>. QED BY <1>5, <2>1, <2>2 DEF Adjacent
<1>9. ASSUME NEW p, NEW q, Adjacent(p, q, ToSet(chain'))
      PROVE  \/ Adjacent(p, q, ToSet(chain))
             \/ \E j \in new : /\ j.pred = p /\ j.succ = q
                               /\ q # Nil => j.pc # "succ"
  <2>1. CASE p < n /\ (q = Nil \/ n < q)
    <3>1. p \in Nat /\ q \in Nat /\ pred \in Nat /\ succ \in Nat
      BY <1>5, <1>6, <1>9 DEF Adjacent, Nil
    <3>2. p = pred /\ q = succ
      BY <1>5, <1>6, <1>9, <2>1, <3>1 DEF Adjacent, Nil
    <3>3. new = {Job(p, q)}
      BY <1>d, <1>9, <3>2 DEF Adjacent
    <3>. QED BY <1>7, <3>2, <3>3
  <2>2. CASE ~(p < n /\ (q = Nil \/ n < q))
    <3>1. p \in Nat /\ q \in Nat /\ p # n /\ q # n
      BY <1>3, <1>6, <1>9 DEF Adjacent, Nil
    <3>2. n <= p \/ (q # Nil /\ q <= n)
      BY <1>6, <2>2, <3>1
    <3>. QED BY <1>3, <1>9, <3>2 DEF Adjacent
  <2>. QED BY <2>1, <2>2
<1>10. PendingInv' /\ RepairInv'
  <2>1. UNCHANGED <<vars, pendingSyncs, sync>> /\ jobs' = jobs \cup new
    BY <1>1
  <2>2. ToSet(chain') \subseteq ToSet(chain)
    BY <1>3
  <2>. QED BY <1>2, <1>8, <1>9, <2>1, <2>2, RepairBegins
<1>11. Changed'
  <2>1. n \in Departed'
    <3>1. n \in 1..joined
      BY <1>3, <1>2, MembersAreNumbers DEF Untouched
    <3>. QED BY <1>1, <1>3, <3>1 DEF Departed
  <2>. QED BY <1>1, <1>2, <2>1 DEF Changed
<1>. QED BY <1>10, <1>11 DEF WiredInv

LEMMA RemoveDeadWired ==
  ASSUME IInv, WiredInv, NEW dead \in SUBSET (stopped \cap ToSet(chain)),
         RemoveDead(dead)
  PROVE  WiredInv'
<1>a. PICK new : new = Reconnections(chain, dead)
  OBVIOUS
<1>b. PICK live : live = {i \in DOMAIN chain : chain[i] \notin dead}
  OBVIOUS
<1>1. /\ dead # {} /\ jobs' = jobs \cup new
      /\ UNCHANGED <<vars, joined, stopped, pendingSyncs, sync>>
  BY <1>a DEF RemoveDead
<1>2. Untouched /\ stopped = dead
  <2>1. Untouched
    BY <1>1 DEF WiredInv, Changed
  <2>. QED BY <1>1, <2>1 DEF Untouched
<1>3. ToSet(chain') = ToSet(chain) \ dead
  BY ChainFacts, WithoutProperties DEF RemoveDead
<1>4. ToSet(chain') \subseteq Nat /\ 0 \notin ToSet(chain')
  BY <1>3, MembersAreNumbers
<1>5. /\ \A i \in live : /\ i \in DOMAIN chain /\ i \in 1..Len(chain)
                         /\ chain[i] \in ToSet(chain') /\ chain[i] # Nil
                         /\ chain[i] \in Nodes
      /\ \A i \in DOMAIN chain : i \notin live => chain[i] \in dead
      /\ \A k \in ToSet(chain') : \E i \in live : k = chain[i]
      /\ Len(chain) \in Nat /\ DOMAIN chain = 1..Len(chain)
  BY <1>b, <1>3, PlacesInOrder, ChainFacts DEF ToSet
<1>6. \A a, b \in DOMAIN chain : /\ a < b <=> chain[a] < chain[b]
                                 /\ a <= b <=> chain[a] <= chain[b]
  BY PlacesInOrder
<1>7. \A p, s : /\ Job(p, s).pred = p /\ Job(p, s).succ = s
                /\ s # Nil => Job(p, s).pc # "succ"
  BY DEF Job
<1>8. ASSUME NEW j \in new PROVE Adjacent(j.pred, j.succ, ToSet(chain'))
  <2>1. \/ \E p \in live \X live :
             /\ j = Job(chain[p[1]], chain[p[2]])
             /\ p[1] < p[2] /\ \A k \in live : k <= p[1] \/ p[2] <= k
        \/ \E i \in live : j = Job(chain[i], Nil) /\ \A k \in live : k <= i
        \/ \E i \in live : j = Job(Nil, chain[i]) /\ \A k \in live : i <= k
    BY <1>a, <1>b, <1>8 DEF Reconnections
  <2>2. CASE \E p \in live \X live :
               /\ j = Job(chain[p[1]], chain[p[2]])
               /\ p[1] < p[2] /\ \A k \in live : k <= p[1] \/ p[2] <= k
    <3>1. PICK p \in live \X live :
               /\ j = Job(chain[p[1]], chain[p[2]])
               /\ p[1] < p[2] /\ \A k \in live : k <= p[1] \/ p[2] <= k
      BY <2>2
    <3>2. PICK a : a = p[1]
      OBVIOUS
    <3>3. PICK b : b = p[2]
      OBVIOUS
    <3>4. /\ a \in live /\ b \in live /\ j = Job(chain[a], chain[b])
          /\ a < b /\ \A k \in live : k <= a \/ b <= k
      BY <3>1, <3>2, <3>3
    <3>5. /\ j.pred = chain[a] /\ j.succ = chain[b]
          /\ chain[a] < chain[b]
          /\ \A k \in ToSet(chain') : k <= chain[a] \/ chain[b] <= k
      BY <1>5, <1>6, <1>7, <3>4
    <3>. QED BY <1>5, <3>4, <3>5 DEF Adjacent
  <2>3. CASE \E i \in live : j = Job(chain[i], Nil) /\ \A k \in live : k <= i
    <3>1. PICK a \in live : j = Job(chain[a], Nil) /\ \A k \in live : k <= a
      BY <2>3
    <3>2. /\ j.pred = chain[a] /\ j.succ = Nil
          /\ \A k \in ToSet(chain') : k <= chain[a]
      BY <1>5, <1>6, <1>7, <3>1
    <3>. QED BY <1>5, <3>1, <3>2 DEF Adjacent
  <2>4. CASE \E i \in live : j = Job(Nil, chain[i]) /\ \A k \in live : i <= k
    <3>1. PICK b \in live : j = Job(Nil, chain[b]) /\ \A k \in live : b <= k
      BY <2>4
    <3>2. /\ j.pred = Nil /\ j.succ = chain[b]
          /\ \A k \in ToSet(chain') : chain[b] <= k
      BY <1>5, <1>6, <1>7, <3>1
    <3>3. chain[b] \in Nat /\ Nil < chain[b]
      BY <1>5, MembersAreNumbers DEF Nil
    <3>. QED BY <1>5, <3>1, <3>2, <3>3 DEF Adjacent
  <2>. QED BY <2>1, <2>2, <2>3, <2>4
<1>9. ASSUME NEW p, NEW q, Adjacent(p, q, ToSet(chain')),
             ~Adjacent(p, q, ToSet(chain))
      PROVE  Job(p, q) \in new
  <2>1. PICK c \in DOMAIN chain : /\ chain[c] \in dead
                                  /\ p < chain[c]
                                  /\ q = Nil \/ chain[c] < q
    <3>1. \E k \in ToSet(chain) : ~(k <= p \/ (q # Nil /\ q <= k))
      BY <1>3, <1>9 DEF Adjacent
    <3>2. PICK k \in ToSet(chain) : ~(k <= p \/ (q # Nil /\ q <= k))
      BY <3>1
    <3>3. k \in dead
      BY <1>3, <1>9, <3>2 DEF Adjacent
    <3>4. k \in Nat /\ p \in Nat /\ q \in Nat
      BY <1>4, <1>9, MembersAreNumbers DEF Adjacent, Nil
    <3>5. p < k /\ (q = Nil \/ k < q)
      BY <3>2, <3>4
    <3>6. \E c \in DOMAIN chain : k = chain[c]
      BY DEF ToSet
    <3>. QED BY <3>3, <3>5, <3>6
  <2>2. c \notin live
    BY <1>b, <2>1
  <2>3. c \in 1..Len(chain) /\ \A i \in live : i \in Nat /\ i >= 1 /\ i # c
    BY <1>5, <2>2
  <2>4. CASE p # Nil /\ q # Nil
    <3>1. PICK a \in live : p = chain[a]
      BY <1>5, <1>9, <2>4 DEF Adjacent
    <3>2. PICK b \in live : q = chain[b]
      BY <1>5, <1>9, <2>4 DEF Adjacent
    <3>3. a < c /\ c < b /\ a < b
      BY <1>5, <1>6, <1>9, <2>1, <2>4, <3>1, <3>2 DEF Adjacent
    <3>4. \A k \in live : k <= a \/ b <= k
      BY <1>5, <1>6, <1>9, <2>4, <3>1, <3>2 DEF Adjacent
    <3>5. c \in a + 1..b - 1
      BY <2>3, <3>3
    <3>6. /\ <<a, b>> \in live \X live
          /\ <<a, b>>[1] = a /\ <<a, b>>[2] = b
      OBVIOUS
    <3>. QED BY <1>a, <1>b, <2>2, <3>1, <3>2, <3>3, <3>4, <3>5, <3>6
         DEF Reconnections
  <2>5. CASE p # Nil /\ q = Nil
    <3>1. PICK a \in live : p = chain[a]
      BY <1>5, <1>9, <2>5 DEF Adjacent
    <3>2. a < c
      BY <1>5, <1>6, <2>1, <3>1
    <3>3. \A k \in live : k <= a
      BY <1>5, <1>6, <1>9, <2>5, <3>1 DEF Adjacent
    <3>4. c \in a + 1..(Len(chain) + 1) - 1
      BY <1>5, <2>3, <3>2
    <3>. QED BY <1>a, <1>b, <2>2, <2>5, <3>1, <3>3, <3>4 DEF Reconnections
  <2>6. CASE p = Nil /\ q # Nil
    <3>1. PICK b \in live : q = chain[b]
      BY <1>5, <1>9, <2>6 DEF Adjacent
    <3>2. c < b
      BY <1>5, <1>6, <2>1, <2>6, <3>1
    <3>3. \A k \in live : b <= k
      <4>1. \A k \in live : chain[k] \in ToSet(chain') /\ ~(chain[k] <= Nil)
        BY <1>5, MembersAreNumbers DEF Nil
      <4>2. \A k \in live : chain[b] <= chain[k]
        BY <1>9, <2>6, <3>1, <4>1 DEF Adjacent
      <4>. QED BY <1>5, <1>6, <4>2
    <3>4. 1 \notin live
      BY <2>3, <3>2, <3>3
    <3>. QED BY <1>a, <1>b, <2>6, <3>1, <3>3, <3>4 DEF Reconnections
  <2>. QED BY <1>9, <2>4, <2>5, <2>6 DEF Adjacent
<1>10. PendingInv' /\ RepairInv'
  <2>1. UNCHANGED <<vars, pendingSyncs, sync>> /\ jobs' = jobs \cup new
    BY <1>1
  <2>2. ToSet(chain') \subseteq ToSet(chain)
    BY <1>3
  <2>3. \A p, q \in Nodes \cup {Nil} : Adjacent(p, q, ToSet(chain')) =>
          \/ Adjacent(p, q, ToSet(chain))
          \/ \E j \in new : /\ j.pred = p /\ j.succ = q
                            /\ q # Nil => j.pc # "succ"
    BY <1>7, <1>9
  <2>. QED BY <1>2, <1>8, <2>1, <2>2, <2>3, RepairBegins
<1>11. Changed'
  BY <1>1, <1>2, <1>3 DEF Changed, Departed
<1>. QED BY <1>10, <1>11 DEF WiredInv

LEMMA JoinWired ==
  ASSUME OneChange, IInv, WiredInv, NEW n \in Nodes, Join(n)
  PROVE  WiredInv'
<1>a. PICK last : last = Last(chain)
  OBVIOUS
<1>b. PICK s : s = [node |-> last, succ |-> n, epoch |-> Epoch]
  OBVIOUS
<1>1. Untouched /\ stopped = {} /\ Departed = {}
  BY FirstChange DEF Join
<1>2. /\ n = joined + 1 /\ joined' = n /\ chain' = Append(chain, n)
      /\ UNCHANGED <<successor, stopped, jobs, sync>>
  BY DEF Join
<1>3. /\ joined \in Nat /\ chain \in Seq(Nodes) /\ joined = Initial
      /\ ToSet(chain) = 1..joined /\ joined >= 1 /\ 1..joined \subseteq Nodes
      /\ Len(chain) \in Nat /\ DOMAIN chain = 1..Len(chain)
  BY <1>1, ChainFacts, ReconfigurationAssumption DEF Untouched, ToSet
<1>4. chain # <<>> /\ last = joined /\ last \notin down
  <2>1. PICK i \in DOMAIN chain : chain[i] = joined
    BY <1>3 DEF ToSet
  <2>2. i \in 1..Len(chain) /\ Len(chain) \in DOMAIN chain
    BY <1>3, <2>1
  <2>3. chain[Len(chain)] \in Nat /\ chain[Len(chain)] <= joined
    BY <2>2, ChainFacts
  <2>4. ~(chain[Len(chain)] < chain[i])
    BY <2>2, PlacesInOrder
  <2>5. chain # <<>> /\ last = joined
    BY <1>3, <1>a, <2>1, <2>2, <2>3, <2>4 DEF Last
  <2>. QED BY <1>1, <1>3, <2>5 DEF IInv, LifeInv
<1>5. /\ predecessor' = [predecessor EXCEPT ![n] = last]
      /\ pendingSyncs' = pendingSyncs \cup {s}
      /\ s.node = last /\ s.succ = n
  BY <1>4, <1>a, <1>b DEF Join
<1>6. ToSet(chain') = ToSet(chain) \cup {n}
  BY <1>2, <1>3, AppendedToSet
<1>7. n \in Nat /\ last \in Nat /\ last < n /\ last # Nil /\ n # Nil
      /\ \A k \in ToSet(chain) : k \in Nat /\ k >= 1 /\ k <= last
  BY <1>2, <1>3, <1>4 DEF Nil
<1>8. Adjacent(last, n, ToSet(chain'))
  BY <1>3, <1>4, <1>6, <1>7 DEF Adjacent
<1>9. PendingInv'
  <2>1. jobs' = {} /\ pendingSyncs' = {s} /\ sync' = sync
    BY <1>1, <1>2, <1>5 DEF Untouched
  <2>. QED BY <1>1, <1>5, <1>8, <2>1 DEF PendingInv, Untouched
<1>10. RepairInv'
  <2>. SUFFICES ASSUME NEW p \in Nodes \cup {Nil}, NEW q \in Nodes \cup {Nil},
                       Adjacent(p, q, ToSet(chain'))
       PROVE  /\ q # Nil => WillPrecede(p, q)'
              /\ p # Nil => WillSucceed(p, q)'
    BY DEF RepairInv
  <2>0. ToSet(chain') \in SUBSET Nat /\ 0 \notin ToSet(chain')
    BY <1>6, <1>7
  <2>1. CASE q = n
    <3>1. p = last
      BY <1>8, <2>0, <2>1, AdjacentUnique
    <3>2. predecessor'[n] = last
      BY <1>5 DEF IInv, ReconfigurationTypeOK, TypeOK
    <3>. QED BY <1>5, <2>1, <3>1, <3>2 DEF WillPrecede, WillSucceed
  <2>2. CASE q # n /\ p = n
    <3>1. q = Nil
      <4>1. q \in ToSet(chain') => ~(n < q)
        BY <1>6, <1>7
      <4>. QED BY <2>2, <4>1 DEF Adjacent
    <3>2. successor[n] = Nil
      BY <1>1, <1>2, <1>3 DEF Untouched
    <3>. QED BY <1>2, <2>2, <3>1, <3>2 DEF WillPrecede, WillSucceed
  <2>3. CASE q # n /\ p # n
    <3>1. q # Nil
      <4>1. SUFFICES ASSUME q = Nil PROVE FALSE
        OBVIOUS
      <4>2. n <= p
        BY <1>6, <4>1 DEF Adjacent
      <4>3. p \in ToSet(chain)
        BY <1>6, <2>3, <4>1 DEF Adjacent
      <4>. QED BY <1>7, <4>2, <4>3
    <3>2. Adjacent(p, q, ToSet(chain))
      BY <1>6, <2>3, <3>1 DEF Adjacent
    <3>3. /\ q # Nil => WillPrecede(p, q)
          /\ p # Nil => WillSucceed(p, q)
      BY <3>2 DEF WiredInv, RepairInv
    <3>4. predecessor'[q] = predecessor[q]
      BY <1>5, <2>3, <3>1 DEF IInv, ReconfigurationTypeOK, TypeOK
    <3>. QED BY <1>2, <1>5, <3>3, <3>4 DEF WillPrecede, WillSucceed
  <2>. QED BY <2>1, <2>2, <2>3
<1>11. Changed'
  BY <1>1, <1>2, <1>3 DEF Changed
<1>. QED BY <1>9, <1>10, <1>11 DEF WiredInv

LEMMA InitWiredInv == InitReconfiguration => WiredInv
<1>. SUFFICES ASSUME InitReconfiguration PROVE WiredInv
  OBVIOUS
<1>1. /\ predecessor = [n \in Nodes |-> IF n <= Initial THEN n - 1 ELSE Nil]
      /\ successor = [n \in Nodes |-> IF n < Initial THEN n + 1 ELSE Nil]
      /\ chain = [n \in 1..Initial |-> n] /\ joined = Initial /\ stopped = {}
      /\ jobs = {} /\ pendingSyncs = {} /\ sync = [n \in Nodes |-> NoSync]
  BY DEF InitReconfiguration
<1>2. /\ ToSet(chain) = 1..Initial /\ Initial \in Nat /\ Initial >= 1
      /\ 1..Initial \subseteq Nodes
      /\ \A n \in Nodes : n \in Nat /\ n >= 1
  BY <1>1, ChainAssumption, ReconfigurationAssumption DEF ToSet, Nodes
<1>3. Untouched
  BY <1>1, <1>2 DEF Untouched, NoSync
<1>4. PendingInv
  BY <1>3 DEF Untouched, PendingInv
<1>5. RepairInv
  <2>. SUFFICES ASSUME NEW p \in Nodes \cup {Nil}, NEW q \in Nodes \cup {Nil},
                       Adjacent(p, q, ToSet(chain))
       PROVE  /\ q # Nil => predecessor[q] = p
              /\ p # Nil => successor[p] = q
    BY DEF RepairInv, WillPrecede, WillSucceed
  <2>1. /\ p \in 0..Initial /\ q \in 0..Initial /\ (p # 0 \/ q # 0)
        /\ q # 0 => p < q
        /\ \A k \in 1..Initial : k <= p \/ (q # 0 /\ q <= k)
    BY <1>2 DEF Adjacent, Nil
  <2>2. q # 0 => p = q - 1
    <3>1. q # 0 => q - 1 \in 0..Initial /\ q - 1 < q
      BY <1>2, <2>1
    <3>2. q # 0 => (q - 1 = 0 \/ q - 1 <= p)
      BY <1>2, <2>1, <3>1
    <3>. QED BY <1>2, <2>1, <3>2
  <2>3. q = 0 => p = Initial
    BY <1>2, <2>1
  <2>. QED BY <1>1, <1>2, <2>1, <2>2, <2>3 DEF Nil
<1>. QED BY <1>3, <1>4, <1>5 DEF WiredInv

LEMMA NextWiredInv ==
  ASSUME OneChange
  PROVE  IInv /\ WiredInv /\ [NextReconfiguration]_allVars => WiredInv'
<1>. SUFFICES ASSUME IInv, WiredInv, [NextReconfiguration]_allVars PROVE WiredInv'
  OBVIOUS
<1>1. CASE NodesOnly
  BY <1>1, NodesOnlyWired
<1>2. CASE SyncConnects
  BY <1>2, BeginSyncWired, InstallSuccessorWired, EndSyncWired DEF SyncConnects
<1>3. CASE JobCalls
  BY <1>3, BeginSetPredecessorWired, InstallPredecessorWired,
     SetPredecessorSucceeds, CallSetSuccessorWired DEF JobCalls
<1>4. CASE Membership
  BY <1>4, CrashOrStopWired, LeaveWired, RemoveDeadWired, JoinWired
  DEF Membership, Monitor
<1>5. CASE UNCHANGED allVars
  BY <1>1, <1>5 DEF NodesOnly, neighbours, allVars, vars, reconfigurationVars
<1>. QED BY <1>1, <1>2, <1>3, <1>4, <1>5, StepMoves

(* After one crash, departure or arrival anywhere in a chain of any        *)
(* length, noticed or not, with requests under way, the calls that repair  *)
(* the chain leave every node with its neighbours in the control plane's   *)
(* chain, whatever the order in which they are carried out.                *)
THEOREM OneRepairRewires ==
  ASSUME OneChange
  PROVE  ReconfigurationSpec => []WiredAsChain
<1>1. ASSUME IInv, WiredInv PROVE WiredAsChain
  <2>. SUFFICES ASSUME Settled, NEW i \in DOMAIN chain
       PROVE  /\ predecessor[chain[i]] = IF i = 1 THEN Nil ELSE chain[i - 1]
              /\ successor[chain[i]] = IF i = Len(chain) THEN Nil ELSE chain[i + 1]
    BY DEF WiredAsChain
  <2>1. ASSUME NEW p \in Nodes \cup {Nil}, NEW q \in Nodes \cup {Nil},
               Adjacent(p, q, ToSet(chain))
        PROVE  /\ q # Nil => predecessor[q] = p
               /\ p # Nil => successor[p] = q
    <3>1. /\ q # Nil => WillPrecede(p, q)
          /\ p # Nil => WillSucceed(p, q)
      BY <1>1, <2>1 DEF WiredInv, RepairInv
    <3>. QED BY <3>1 DEF WillPrecede, WillSucceed, Settled
  <2>2. /\ i \in 1..Len(chain) /\ Len(chain) \in Nat /\ DOMAIN chain = 1..Len(chain)
        /\ \A a \in DOMAIN chain : chain[a] \in Nodes /\ chain[a] \in ToSet(chain)
        /\ \A a \in DOMAIN chain : chain[a] \in Nat /\ chain[a] >= 1 /\ chain[a] # Nil
    BY <1>1, ChainFacts, MembersAreNumbers DEF ToSet
  <2>3. Adjacent(IF i = 1 THEN Nil ELSE chain[i - 1], chain[i], ToSet(chain))
    BY <1>1, PlacesAreAdjacent
  <2>4. Adjacent(chain[i], IF i = Len(chain) THEN Nil ELSE chain[i + 1], ToSet(chain))
    BY <1>1, PlacesAreAdjacent
  <2>5. /\ i # 1 => chain[i - 1] \in Nodes
        /\ i # Len(chain) => chain[i + 1] \in Nodes
    BY <2>2
  <2>6. predecessor[chain[i]] = IF i = 1 THEN Nil ELSE chain[i - 1]
    <3>1. PICK p \in Nodes \cup {Nil} : p = IF i = 1 THEN Nil ELSE chain[i - 1]
      BY <2>5
    <3>. QED BY <2>1, <2>2, <2>3, <3>1
  <2>7. successor[chain[i]] = IF i = Len(chain) THEN Nil ELSE chain[i + 1]
    <3>1. PICK q \in Nodes \cup {Nil} :
            q = IF i = Len(chain) THEN Nil ELSE chain[i + 1]
      BY <2>5
    <3>. QED BY <2>1, <2>2, <2>4, <3>1
  <2>. QED BY <2>6, <2>7
<1>2. IInv /\ WiredInv /\ [NextReconfiguration]_allVars => WiredInv'
  BY NextWiredInv
<1>. QED BY <1>1, <1>2, InitIInv, InitWiredInv, NextIInv, PTL DEF ReconfigurationSpec

-----------------------------------------------------------------------------
(* When only one change is made, a node that leaves is spared, too.  Until *)
(* its successor is told of its new predecessor, all that the successor    *)
(* gets, and will acknowledge, comes from the node that leaves.            *)

Leaving(c) == c \in 1..joined \ (ToSet(chain) \cup stopped)

(* c has all that q has or is sent. *)
CoveredBy(c, q) ==
  /\ Len(events[q]) <= Len(events[c])
  /\ \A e \in eventQueue[q] : e.seq < Len(events[c])
  /\ \A m \in lateEvents : m.to = q => m.event.seq < Len(events[c])

(* Nobody but c sends events to q, or will before q has been told. *)
OnlyFrom(c, q) ==
  /\ \A p \in Nodes : /\ successor[p] = q => p = c
                      /\ sync[p].pc # "idle" => sync[p].succ # q
  /\ \A j \in jobs : j.succ = q => j.pc # "succ"
  /\ \A s \in pendingSyncs : s.succ # q

(* What is acknowledged to c, which is alive, c has. *)
Spared(c) ==
  /\ c \notin down
  /\ \A m \in lateAcks : m.to = c => m.seq < Len(events[c])
  /\ \A q \in Nodes : predecessor[q] = c => CoveredBy(c, q)

LeavingInv ==
  /\ stopped \subseteq down
  /\ \A c \in Nodes : Leaving(c) =>
       /\ Spared(c)
       /\ \A q \in Nodes : predecessor[q] = c => OnlyFrom(c, q)

(* A node that leaves is none of the chain's, so it synchronises with      *)
(* nobody any more.                                                        *)
LEMMA LeavingFacts ==
  ASSUME IInv, WiredInv, LeavingInv, NEW c \in Nodes, Leaving(c)
  PROVE  /\ Spared(c) /\ c # Nil /\ Len(events[c]) \in Nat
         /\ sync[c].pc = "idle"
         /\ \A q \in Nodes : predecessor[q] = c => OnlyFrom(c, q)
<1>1. c # Nil /\ Len(events[c]) \in Nat
  BY MembersAreNumbers, NodeTypes DEF IInv, ReconfigurationTypeOK
<1>2. sync[c].pc = "idle"
  <2>1. ~Adjacent(c, sync[c].succ, ToSet(chain))
    BY <1>1 DEF Adjacent, Leaving
  <2>. QED BY <2>1 DEF WiredInv, PendingInv
<1>. QED BY <1>1, <1>2 DEF LeavingInv

(* A step of the nodes that queues nothing at all.                         *)
LEMMA SparedQuietly ==
  ASSUME NEW c \in Nodes, Spared(c),
         UNCHANGED <<predecessor, events, eventQueue, lateEvents, lateAcks, down>>
  PROVE  Spared(c)'
BY DEF Spared, CoveredBy

(* bufferEvent at m of an event that c has when m's predecessor is c.      *)
LEMMA SparedEventQueued ==
  ASSUME IInv, NEW c \in Nodes, Spared(c), NEW m \in Nodes, NEW e,
         predecessor[m] = c => e.seq < Len(events[c]),
         NEW states, BufferEvent(m, e, states), lateEvents' \subseteq lateEvents,
         UNCHANGED <<predecessor, events, lateAcks, down>>
  PROVE  Spared(c)'
<1>1. eventQueue \in [Nodes -> SUBSET Event]
  BY DEF IInv, ReconfigurationTypeOK, TypeOK, EventTypes
<1>2. \A k \in Nodes : \A f \in eventQueue'[k] :
        f \in eventQueue[k] \/ (k = m /\ f = e)
  <2>1. CASE eventQueue' = eventQueue
    BY <2>1
  <2>2. CASE eventQueue' = [eventQueue EXCEPT
                              ![m] = {f \in @ : f.seq # e.seq} \cup {e}]
    BY <1>1, <2>2
  <2>. QED BY <2>1, <2>2 DEF BufferEvent
<1>. QED BY <1>2 DEF Spared, CoveredBy

(* bufferAck at m of a number that m has.                                  *)
LEMMA SparedAckQueued ==
  ASSUME NEW c \in Nodes, Spared(c), NEW m, NEW seq,
         m = c => ~(seq >= Len(events[c])),
         NEW states, BufferAck(m, seq, states), lateAcks' \subseteq lateAcks,
         UNCHANGED <<predecessor, events, eventQueue, lateEvents>>
  PROVE  Spared(c)'
<1>1. c \notin down'
  BY DEF BufferAck, Spared
<1>. QED BY <1>1 DEF Spared, CoveredBy

LEMMA HandlerSpares ==
  ASSUME IInv, NEW c \in Nodes, Spared(c), c # Nil, Len(events[c]) \in Nat,
         ChainStep, ~Fault
  PROVE  Spared(c)'
<1>1. ASSUME NEW n \in Nodes, NEW w \in Writes, HandleWrite(n, w)
      PROVE  Spared(c)'
  <2>1. /\ predecessor[n] = Nil
        /\ events' = [events EXCEPT ![n] = Append(@, w)]
        /\ UNCHANGED <<predecessor, eventQueue, lateEvents, lateAcks, down>>
    BY <1>1 DEF HandleWrite, IsHead, neighbours, eventVars, ackVars
  <2>2. /\ events \in [Nodes -> Seq(Writes)]
        /\ \A k \in Nodes : events[k] \in Seq(Writes) /\ Len(events[k]) \in Nat
    BY DEF IInv, ReconfigurationTypeOK, TypeOK, EventTypes
  <2>3. \A k \in Nodes : k # n => events'[k] = events[k]
    BY <2>1, <2>2
  <2>4. Len(events'[c]) \in Nat /\ Len(events'[c]) >= Len(events[c])
    <3>1. events'[n] = Append(events[n], w) /\ Len(events'[n]) = Len(events[n]) + 1
      BY <2>1, <2>2
    <3>. QED BY <2>2, <2>3, <3>1
  <2>5. ASSUME NEW q \in Nodes, predecessor[q] = c PROVE CoveredBy(c, q)'
    <3>1. q # n /\ CoveredBy(c, q)
      BY <2>1, <2>5 DEF Spared
    <3>2. /\ \A e \in eventQueue[q] : e.seq \in Nat
          /\ \A m \in lateEvents : m.event.seq \in Nat
      BY DEF IInv, ReconfigurationTypeOK, TypeOK, EventTypes, Event
    <3>. QED BY <2>1, <2>2, <2>3, <2>4, <3>1, <3>2 DEF CoveredBy
  <2>6. \A m \in lateAcks : m.seq \in Nat
    BY DEF IInv, ReconfigurationTypeOK, TypeOK, AckTypes
  <2>. QED BY <2>1, <2>2, <2>4, <2>5, <2>6 DEF Spared
<1>2. ASSUME NEW w \in Writes, OpenAckChannel(w) \/ ReceiveResult(w)
      PROVE  Spared(c)'
  <2>1. UNCHANGED <<predecessor, events, eventQueue, lateEvents, lateAcks, down>>
    BY <1>2 DEF OpenAckChannel, ReceiveResult, neighbours, eventVars, ackVars
  <2>. QED BY <2>1, SparedQuietly
<1>3. ASSUME NEW w \in Writes, BufferOwnEvent(w)
      PROVE  Spared(c)'
  <2>1. PICK n : n = handler[w].node
    OBVIOUS
  <2>2. PICK e : e = [seq |-> handler[w].seq, write |-> w]
    OBVIOUS
  <2>3. /\ handler[w].pc # "idle" /\ BufferEvent(n, e, replicator)
        /\ UNCHANGED <<predecessor, events, lateEvents, lateAcks, down>>
    BY <1>3, <2>1, <2>2 DEF BufferOwnEvent, neighbours, ackVars
  <2>4. n \in Nodes /\ e.seq < Len(events[n]) /\ e.seq \in Nat
    <3>1. n \in 1..joined /\ e.seq < Len(events[n]) /\ e.seq \in Nat
      BY <2>1, <2>2, <2>3
      DEF IInv, HandlersInv, ReconfigurationTypeOK, TypeOK, ClientTypes
    <3>2. 1..joined \subseteq Nodes
      BY ChainAssumption, ReconfigurationAssumption
      DEF Nodes, IInv, ReconfigurationTypeOK, ReconfigurationTypes
    <3>. QED BY <3>1, <3>2
  <2>5. predecessor[n] = c => e.seq < Len(events[c])
    <3>1. Len(events[n]) \in Nat
      BY <2>4, NodeTypes DEF IInv, ReconfigurationTypeOK
    <3>. QED BY <2>4, <3>1 DEF Spared, CoveredBy
  <2>. QED BY <2>3, <2>4, <2>5, SparedEventQueued
<1>. QED BY <1>1, <1>2, <1>3 DEF ChainStep, HandlerStep

LEMMA FaultSpares ==
  ASSUME IInv, WiredInv, LeavingInv, NEW c \in Nodes, Leaving(c), Fault
  PROVE  Spared(c)'
<1>0. /\ Spared(c) /\ c # Nil /\ Len(events[c]) \in Nat
      /\ \A q \in Nodes : predecessor[q] = c => OnlyFrom(c, q)
  BY LeavingFacts
<1>1. ASSUME NEW n \in Nodes, ReplicateTimesOut(n) PROVE Spared(c)'
  <2>1. /\ lateEvents' = lateEvents \cup
                           {[to |-> successor[n], event |-> e] : e \in outgoing[n]}
        /\ UNCHANGED <<predecessor, events, eventQueue, lateAcks, down>>
    BY <1>1 DEF ReplicateTimesOut, neighbours, ackVars
  <2>2. ASSUME NEW q \in Nodes, predecessor[q] = c PROVE CoveredBy(c, q)'
    <3>1. CoveredBy(c, q) /\ (successor[n] = q => n = c)
      BY <1>0, <2>2 DEF Spared, OnlyFrom
    <3>2. \A e \in outgoing[c] : e.seq < Len(events[c])
      BY DEF IInv, SendInv
    <3>. QED BY <2>1, <3>1, <3>2 DEF CoveredBy
  <2>. QED BY <1>0, <2>1, <2>2 DEF Spared
<1>2. ASSUME NEW n \in Nodes, AckTimesOut(n) PROVE Spared(c)'
  <2>1. /\ lateAcks' = lateAcks \cup {[to |-> predecessor[n], seq |-> AckSeq(n)]}
        /\ UNCHANGED <<predecessor, events, eventQueue, lateEvents, down>>
        /\ ackProcessor[n] = "send"
    BY <1>2 DEF AckTimesOut, neighbours, eventVars
  <2>2. /\ AckSeq(n) \in Nat /\ AckSeq(n) < Len(events[n])
        /\ Len(events[n]) \in Nat
    BY <2>1, HeldNumber, NodeTypes DEF Holds, IInv, ReconfigurationTypeOK
  <2>3. predecessor[n] = c => AckSeq(n) < Len(events[c])
    BY <1>0, <2>2 DEF Spared, CoveredBy
  <2>. QED BY <1>0, <2>1, <2>3 DEF Spared, CoveredBy
<1>3. ASSUME NEW m \in lateEvents, DeliverLateEvent(m) PROVE Spared(c)'
  <2>1. /\ m.to \in Nodes /\ BufferEvent(m.to, m.event, replicator)
        /\ lateEvents' \subseteq lateEvents
        /\ UNCHANGED <<predecessor, events, lateAcks, down>>
    BY <1>3 DEF DeliverLateEvent, neighbours, ackVars, IInv,
       ReconfigurationTypeOK, TypeOK, EventTypes
  <2>2. predecessor[m.to] = c => m.event.seq < Len(events[c])
    BY <1>0, <2>1 DEF Spared, CoveredBy
  <2>. QED BY <1>0, <2>1, <2>2, SparedEventQueued
<1>4. ASSUME NEW m \in lateAcks, DeliverLateAck(m) PROVE Spared(c)'
  <2>1. /\ BufferAck(m.to, m.seq, ackProcessor)
        /\ lateAcks' \subseteq lateAcks
        /\ UNCHANGED <<predecessor, events, eventQueue, lateEvents>>
        /\ m.seq \in Nat
    BY <1>4 DEF DeliverLateAck, neighbours, eventVars, IInv,
       ReconfigurationTypeOK, TypeOK, AckTypes
  <2>2. m.to = c => ~(m.seq >= Len(events[c]))
    BY <1>0, <2>1 DEF Spared
  <2>. QED BY <1>0, <2>1, <2>2, SparedAckQueued
<1>. QED BY <1>1, <1>2, <1>3, <1>4 DEF Fault

LEMMA ReplicatorSpares ==
  ASSUME IInv, WiredInv, LeavingInv, NEW c \in Nodes, Leaving(c),
         NEW n \in Nodes, ReplicatorGoroutine(n)
  PROVE  Spared(c)'
<1>0. /\ Spared(c) /\ c # Nil /\ Len(events[c]) \in Nat
      /\ \A q \in Nodes : predecessor[q] = c => OnlyFrom(c, q)
  BY LeavingFacts
<1>1. CASE TakeNextEvent(n)
  <2>1. PICK e \in NextEvents(n) :
          /\ eventQueue' = [eventQueue EXCEPT ![n] = @ \ {e}]
          /\ events' = IF e.seq = Len(events[n])
                       THEN [events EXCEPT ![n] = Append(@, e.write)]
                       ELSE events
          /\ down' = IF e.seq > Len(events[n]) THEN down \cup {n} ELSE down
    BY <1>1 DEF TakeNextEvent
  <2>2. UNCHANGED <<predecessor, lateEvents, lateAcks>>
    BY <1>1 DEF TakeNextEvent, neighbours, ackVars
  <2>3. /\ events \in [Nodes -> Seq(Writes)] /\ eventQueue \in [Nodes -> SUBSET Event]
        /\ \A k \in Nodes : events[k] \in Seq(Writes) /\ Len(events[k]) \in Nat
        /\ \A k \in Nodes : \A f \in eventQueue[k] : f.seq \in Nat /\ f.write \in Writes
        /\ \A m \in lateEvents : m.event.seq \in Nat
        /\ \A m \in lateAcks : m.seq \in Nat
    BY DEF IInv, ReconfigurationTypeOK, TypeOK, EventTypes, AckTypes, Event
  <2>4. e \in eventQueue[n] /\ e.seq = nextEventSeq[n] /\ e.seq <= Len(events[n])
    BY DEF NextEvents, IInv, SendInv
  <2>5. down' = down
    BY <2>1, <2>3, <2>4
  <2>6. /\ \A k \in Nodes : k # n => events'[k] = events[k]
        /\ Len(events'[n]) = IF e.seq = Len(events[n])
                             THEN Len(events[n]) + 1 ELSE Len(events[n])
    <3>1. CASE e.seq = Len(events[n])
      BY <2>1, <2>3, <2>4, <3>1
    <3>2. CASE e.seq # Len(events[n])
      BY <2>1, <3>2
    <3>. QED BY <3>1, <3>2
  <2>7. Len(events'[c]) \in Nat /\ Len(events'[c]) >= Len(events[c])
    BY <1>0, <2>3, <2>6
  <2>8. ASSUME NEW q \in Nodes, predecessor[q] = c PROVE CoveredBy(c, q)'
    <3>1. CoveredBy(c, q)
      BY <1>0, <2>8 DEF Spared
    <3>2. \A f \in eventQueue'[q] : f \in eventQueue[q]
      BY <2>1, <2>3
    <3>3. Len(events'[q]) <= Len(events'[c])
      <4>1. CASE q = n /\ e.seq = Len(events[n])
        <5>1. e.seq < Len(events[c])
          BY <2>4, <3>1, <4>1 DEF CoveredBy
        <5>. QED BY <2>3, <2>6, <2>7, <4>1, <5>1
      <4>2. CASE ~(q = n /\ e.seq = Len(events[n]))
        BY <2>3, <2>6, <2>7, <3>1, <4>2 DEF CoveredBy
      <4>. QED BY <4>1, <4>2
    <3>. QED BY <1>0, <2>2, <2>3, <2>7, <3>1, <3>2, <3>3 DEF CoveredBy
  <2>. QED BY <1>0, <2>2, <2>3, <2>5, <2>7, <2>8 DEF Spared
<1>2. CASE \/ FindNoEvent(n) \/ BlockReplicator(n)
           \/ ReplicateToDead(n) \/ StopReplicator(n)
  <2>1. UNCHANGED <<predecessor, events, eventQueue, lateEvents, lateAcks, down>>
    BY <1>2 DEF FindNoEvent, BlockReplicator, ReplicateToDead, StopReplicator,
       neighbours, ackVars
  <2>. QED BY <1>0, <2>1, SparedQuietly
<1>3. CASE ReplicateAtTail(n)
  <2>1. PICK e \in outgoing[n] : BufferAck(n, e.seq, ackProcessor)
    BY <1>3 DEF ReplicateAtTail
  <2>2. UNCHANGED <<predecessor, events, eventQueue, lateEvents, lateAcks>>
    BY <1>3 DEF ReplicateAtTail, neighbours
  <2>3. e.seq < Len(events[n]) /\ e.seq \in Nat
    BY DEF IInv, SendInv, ReconfigurationTypeOK, TypeOK, EventTypes, Event
  <2>4. n = c => ~(e.seq >= Len(events[c]))
    BY <1>0, <2>3
  <2>. QED BY <1>0, <2>1, <2>2, <2>4, SparedAckQueued
<1>4. CASE ReplicateToSuccessor(n)
  <2>1. PICK e \in outgoing[n] :
          BufferEvent(successor[n], e, [replicator EXCEPT ![n] = "scan"])
    BY <1>4 DEF ReplicateToSuccessor
  <2>2. /\ successor[n] \in Nodes
        /\ UNCHANGED <<predecessor, events, lateEvents, lateAcks, down>>
    BY <1>4, NodeTypes DEF ReplicateToSuccessor, IsTail, neighbours, ackVars,
       IInv, ReconfigurationTypeOK
  <2>3. predecessor[successor[n]] = c => e.seq < Len(events[c])
    <3>1. \A f \in outgoing[c] : f.seq < Len(events[c])
      BY DEF IInv, SendInv
    <3>2. predecessor[successor[n]] = c => n = c
      BY <1>0, <2>2 DEF OnlyFrom
    <3>. QED BY <2>1, <3>1, <3>2
  <2>. QED BY <1>0, <2>1, <2>2, <2>3, SparedEventQueued
<1>. QED BY <1>1, <1>2, <1>3, <1>4 DEF ReplicatorGoroutine, ReplicatorStep

LEMMA AckProcessorSpares ==
  ASSUME IInv, WiredInv, LeavingInv, NEW c \in Nodes, Leaving(c),
         NEW n \in Nodes, AckProcessorGoroutine(n)
  PROVE  Spared(c)'
<1>0. /\ Spared(c) /\ c # Nil /\ Len(events[c]) \in Nat
  BY LeavingFacts
<1>1. CASE \/ TakeNextAck(n) \/ FindNoAck(n) \/ BlockAckProcessor(n)
           \/ Apply(n) \/ SignalAtHead(n) \/ AckToDead(n) \/ StopAckProcessor(n)
  <2>1. UNCHANGED <<predecessor, events, eventQueue, lateEvents, lateAcks, down>>
    BY <1>1 DEF TakeNextAck, FindNoAck, BlockAckProcessor, Apply, SignalAtHead,
       AckToDead, StopAckProcessor, neighbours, eventVars
  <2>. QED BY <1>0, <2>1, SparedQuietly
<1>2. CASE ConfirmAck(n)
  <2>1. /\ ackProcessor[n] = "confirm"
        /\ UNCHANGED <<predecessor, events, eventQueue, lateEvents, lateAcks>>
    BY <1>2 DEF ConfirmAck, neighbours, eventVars
  <2>2. /\ nextAckSeq[n] \in 1..Len(events[n]) /\ nextAckSeq[n] \in Nat
        /\ Len(events[n]) \in Nat /\ lastConfirmed[n] = nextAckSeq[n] - 2
    BY <2>1, NodeTypes DEF IInv, ConfirmInv, Holds, ReconfigurationTypeOK
  <2>3. down' = down
    BY <1>2, <2>2 DEF ConfirmAck, AckSeq
  <2>. QED BY <1>0, <2>1, <2>3, SparedQuietly
<1>3. CASE AckToPredecessor(n)
  <2>1. /\ ackProcessor[n] = "send"
        /\ BufferAck(predecessor[n], AckSeq(n), [ackProcessor EXCEPT ![n] = "scan"])
        /\ UNCHANGED <<predecessor, events, eventQueue, lateEvents, lateAcks>>
    BY <1>3 DEF AckToPredecessor, neighbours, eventVars
  <2>2. /\ AckSeq(n) \in Nat /\ AckSeq(n) < Len(events[n])
        /\ Len(events[n]) \in Nat
    BY <2>1, HeldNumber, NodeTypes DEF Holds, IInv, ReconfigurationTypeOK
  <2>3. predecessor[n] = c => ~(AckSeq(n) >= Len(events[c]))
    BY <1>0, <2>2 DEF Spared, CoveredBy
  <2>. QED BY <1>0, <2>1, <2>3, SparedAckQueued
<1>. QED BY <1>1, <1>2, <1>3 DEF AckProcessorGoroutine, AckProcessorStep

LEMMA SyncSpares ==
  ASSUME IInv, WiredInv, LeavingInv, NEW c \in Nodes, Leaving(c),
         NEW n \in Nodes, SyncGoroutine(n)
  PROVE  Spared(c)'
<1>0. /\ Spared(c) /\ c # Nil /\ Len(events[c]) \in Nat
      /\ sync[c].pc = "idle"
      /\ \A q \in Nodes : predecessor[q] = c => OnlyFrom(c, q)
  BY LeavingFacts
<1>1. CASE \/ \E s \in pendingSyncs : s.node = n /\ BeginSync(s)
           \/ InstallSuccessor(n) \/ QuerySuccessor(n) \/ EndSync(n)
  <2>1. UNCHANGED <<predecessor, events, eventQueue, lateEvents, lateAcks, down>>
    BY <1>1 DEF BeginSync, InstallSuccessor, QuerySuccessor, EndSync,
       neighbours, eventVars, ackVars, vars
  <2>. QED BY <1>0, <2>1, SparedQuietly
<1>2. CASE SyncAck(n)
  <2>1. /\ sync[n].pc = "sync" /\ BufferAck(n, sync[n].ack, ackProcessor)
        /\ UNCHANGED <<predecessor, events, eventQueue, lateEvents, lateAcks>>
    BY <1>2 DEF SyncAck, neighbours, eventVars
  <2>2. n # c
    BY <1>0, <2>1
  <2>. QED BY <1>0, <2>1, <2>2, SparedAckQueued
<1>3. CASE SyncEvent(n)
  <2>1. /\ sync[n].pc = "sync"
        /\ sync[n].event <= sync[n].lastEvent
        /\ UNCHANGED <<predecessor, events, lateEvents, lateAcks, down>>
    BY <1>3 DEF SyncEvent, neighbours, ackVars
  <2>2. PICK m \in Nodes : m = sync[n].succ
    <3>1. sync[n].succ \in Nodes \cup {Nil} /\ sync[n].succ # Nil
      BY <2>1 DEF IInv, SyncInv, ReconfigurationTypeOK, ReconfigurationTypes
    <3>. QED BY <3>1
  <2>3. predecessor[m] # c
    BY <1>0, <2>1, <2>2 DEF OnlyFrom
  <2>4. PICK e : e = [seq |-> sync[n].event,
                      write |-> events[n][sync[n].event + 1]]
    OBVIOUS
  <2>5. eventQueue' = eventQueue \/ BufferEvent(m, e, replicator)
    BY <1>3, <2>2, <2>4 DEF SyncEvent
  <2>6. CASE eventQueue' = eventQueue
    BY <1>0, <2>1, <2>6, SparedQuietly
  <2>7. CASE BufferEvent(m, e, replicator)
    <3>1. predecessor[m] = c => e.seq < Len(events[c])
      BY <2>3
    <3>2. lateEvents' \subseteq lateEvents
      BY <2>1
    <3>. QED BY <1>0, <2>1, <2>7, <3>1, <3>2, SparedEventQueued
  <2>. QED BY <2>5, <2>6, <2>7
<1>. QED BY <1>1, <1>2, <1>3 DEF SyncGoroutine

(* Steps that leave the chain alone and tell no node of a new predecessor. *)
LEMMA LeavingGoesOn ==
  ASSUME LeavingInv, UNCHANGED <<predecessor, chain, joined, stopped>>,
         down \subseteq down',
         \A c \in Nodes : Leaving(c) => Spared(c)',
         \A c, q \in Nodes : OnlyFrom(c, q) => OnlyFrom(c, q)'
  PROVE  LeavingInv'
<1>1. \A c \in Nodes : Leaving(c)' => Leaving(c)
  BY DEF Leaving
<1>. QED BY <1>1 DEF LeavingInv

LEMMA NodesOnlyLeaving ==
  ASSUME LeavingInv, NodesOnly, \A c \in Nodes : Leaving(c) => Spared(c)'
  PROVE  LeavingInv'
<1>1. UNCHANGED <<predecessor, successor, chain, joined, stopped, jobs, pendingSyncs>>
      /\ down \subseteq down'
  BY DEF NodesOnly, neighbours
<1>2. ASSUME NEW c \in Nodes, NEW q \in Nodes, OnlyFrom(c, q)
      PROVE  OnlyFrom(c, q)'
  <2>1. \A p \in Nodes : /\ sync'[p].succ = sync[p].succ
                         /\ sync'[p].pc = "idle" <=> sync[p].pc = "idle"
    BY DEF NodesOnly
  <2>. QED BY <1>1, <1>2, <2>1 DEF OnlyFrom
<1>. QED BY <1>1, <1>2, LeavingGoesOn

LEMMA SyncConnectsLeaving ==
  ASSUME IInv, LeavingInv, SyncConnects,
         \A c \in Nodes : Leaving(c) => Spared(c)'
  PROVE  LeavingInv'
<1>1. /\ sync \in [Nodes -> SyncState]
      /\ successor \in [Nodes -> Nodes \cup {Nil}]
      /\ \A s \in pendingSyncs : s.node \in Nodes
  BY DEF SyncState, IInv, ReconfigurationTypeOK, ReconfigurationTypes, TypeOK
<1>2. UNCHANGED <<predecessor, chain, joined, stopped, down, jobs>>
      /\ pendingSyncs' \subseteq pendingSyncs
  BY DEF SyncConnects, BeginSync, InstallSuccessor, EndSync, neighbours
<1>3. ASSUME NEW c \in Nodes, NEW q \in Nodes, OnlyFrom(c, q)
      PROVE  OnlyFrom(c, q)'
  <2>1. CASE \E s \in pendingSyncs : BeginSync(s)
    <3>1. PICK s \in pendingSyncs : BeginSync(s)
      BY <2>1
    <3>2. /\ successor' = successor
          /\ sync'[s.node].succ = s.succ /\ s.succ # q
          /\ \A p \in Nodes : p # s.node => sync'[p] = sync[p]
      BY <1>1, <1>3, <3>1 DEF BeginSync, neighbours, NoSync, OnlyFrom
    <3>. QED BY <1>2, <1>3, <3>2 DEF OnlyFrom
  <2>2. CASE \E n \in Nodes : InstallSuccessor(n)
    <3>1. PICK n \in Nodes : InstallSuccessor(n)
      BY <2>2
    <3>2. /\ sync[n].pc = "stopping"
          /\ successor'[n] = sync[n].succ /\ sync'[n].succ = sync[n].succ
          /\ \A p \in Nodes : p # n => sync'[p] = sync[p] /\ successor'[p] = successor[p]
      BY <1>1, <3>1 DEF InstallSuccessor, SyncState
    <3>. QED BY <1>2, <1>3, <3>2 DEF OnlyFrom
  <2>3. CASE \E n \in Nodes : EndSync(n)
    <3>1. PICK n \in Nodes : EndSync(n)
      BY <2>3
    <3>2. /\ successor' = successor
          /\ sync'[n].pc = "idle"
          /\ \A p \in Nodes : p # n => sync'[p] = sync[p]
      BY <1>1, <3>1 DEF EndSync, neighbours, NoSync
    <3>. QED BY <1>2, <1>3, <3>2 DEF OnlyFrom
  <2>. QED BY <2>1, <2>2, <2>3 DEF SyncConnects
<1>. QED BY <1>2, <1>3, LeavingGoesOn

LEMMA JobCallsLeaving ==
  ASSUME IInv, WiredInv, LeavingInv, JobCalls
  PROVE  LeavingInv'
<1>1. PICK j \in jobs : \/ BeginSetPredecessor(j) \/ InstallPredecessor(j)
                        \/ CallSetSuccessor(j)
  BY SetPredecessorSucceeds DEF JobCalls
<1>2. j \in JobState /\ Adjacent(j.pred, j.succ, ToSet(chain))
  BY JobIsOK DEF WiredInv, PendingInv
<1>3. /\ UNCHANGED <<successor, events, lateEvents, lateAcks, down, chain,
                     joined, stopped, sync>>
  BY <1>1 DEF BeginSetPredecessor, InstallPredecessor, CallSetSuccessor,
     vars, neighbours, eventVars
<1>4. ASSUME NEW c \in Nodes, Leaving(c),
             NEW q \in Nodes, predecessor'[q] = c
      PROVE  predecessor[q] = c /\ (InstallPredecessor(j) => q # j.succ)
  <2>1. CASE InstallPredecessor(j)
    <3>1. predecessor' = [predecessor EXCEPT ![j.succ] = j.pred]
      BY <2>1 DEF InstallPredecessor
    <3>2. j.pred # c
      BY <1>2, <1>4, MembersAreNumbers DEF Adjacent, Leaving
    <3>. QED BY <1>4, <3>1, <3>2 DEF IInv, ReconfigurationTypeOK, TypeOK
  <2>2. CASE ~InstallPredecessor(j)
    BY <1>1, <1>4, <2>2 DEF BeginSetPredecessor, CallSetSuccessor, vars, neighbours
  <2>. QED BY <2>1, <2>2
<1>5. \A k \in Nodes : eventQueue'[k] \subseteq eventQueue[k]
  <2>1. eventQueue \in [Nodes -> SUBSET Event]
    BY ConnectionsAreOK
  <2>. QED BY <1>1, <2>1 DEF BeginSetPredecessor, InstallPredecessor,
       CallSetSuccessor, vars, eventVars
<1>6. ASSUME NEW c \in Nodes, Leaving(c) PROVE Spared(c)'
  <2>1. Spared(c)
    BY <1>6 DEF LeavingInv
  <2>. QED BY <1>3, <1>4, <1>5, <1>6, <2>1 DEF Spared, CoveredBy
<1>7. ASSUME NEW c \in Nodes, Leaving(c), NEW q \in Nodes, predecessor'[q] = c
      PROVE  OnlyFrom(c, q)'
  <2>1. OnlyFrom(c, q) /\ (InstallPredecessor(j) => q # j.succ)
    BY <1>4, <1>7 DEF LeavingInv
  <2>2. CASE BeginSetPredecessor(j)
    <3>1. PICK i : i = [j EXCEPT !.pc = "stopping"]
      OBVIOUS
    <3>2. /\ jobs' = (jobs \ {j}) \cup {i} /\ i.pc # "succ"
          /\ pendingSyncs' = pendingSyncs
      BY <1>2, <2>2, <3>1 DEF BeginSetPredecessor, MoveJob, JobState
    <3>. QED BY <1>3, <2>1, <3>2 DEF OnlyFrom
  <2>3. CASE InstallPredecessor(j)
    <3>1. PICK i : i = [j EXCEPT !.pc = "succ"]
      OBVIOUS
    <3>2. /\ jobs' \subseteq (jobs \ {j}) \cup {i} /\ i.succ = j.succ
          /\ pendingSyncs' = pendingSyncs
      BY <1>2, <2>3, <3>1 DEF InstallPredecessor, MoveJob, JobState
    <3>. QED BY <1>3, <2>1, <2>3, <3>2 DEF OnlyFrom
  <2>4. CASE CallSetSuccessor(j)
    <3>1. PICK s : s = [node |-> j.pred, succ |-> j.succ, epoch |-> j.epoch]
      OBVIOUS
    <3>2. /\ jobs' = jobs \ {j} /\ j.pc = "succ"
          /\ pendingSyncs' \subseteq pendingSyncs \cup {s} /\ s.succ = j.succ
      BY <2>4, <3>1 DEF CallSetSuccessor
    <3>. QED BY <1>3, <2>1, <3>2 DEF OnlyFrom
  <2>. QED BY <1>1, <2>2, <2>3, <2>4
<1>8. \A c \in Nodes : Leaving(c)' => Leaving(c)
  BY <1>3 DEF Leaving
<1>. QED BY <1>3, <1>6, <1>7, <1>8 DEF LeavingInv

LEMMA CrashOrStopLeaving ==
  ASSUME IInv, LeavingInv, NEW n \in Nodes, Crash(n) \/ Stop(n)
  PROVE  LeavingInv'
<1>1. /\ down' = down \cup {n} /\ stopped' = stopped \cup {n}
      /\ UNCHANGED <<predecessor, successor, events, eventQueue, lateEvents,
                     lateAcks, chain, joined, jobs, pendingSyncs, sync>>
  BY DEF Crash, Stop, neighbours, eventVars, ackVars
<1>2. ASSUME NEW c \in Nodes, Leaving(c)'
      PROVE  /\ Spared(c)'
             /\ \A q \in Nodes : predecessor'[q] = c => OnlyFrom(c, q)'
  <2>1. Leaving(c) /\ c # n
    BY <1>1, <1>2 DEF Leaving
  <2>2. Spared(c) /\ \A q \in Nodes : predecessor[q] = c => OnlyFrom(c, q)
    BY <2>1 DEF LeavingInv
  <2>. QED BY <1>1, <2>1, <2>2 DEF Spared, CoveredBy, OnlyFrom
<1>. QED BY <1>1, <1>2 DEF LeavingInv

LEMMA LeaveLeaving ==
  ASSUME OneChange, IInv, WiredInv, LeavingInv, NEW n \in Nodes, Leave(n)
  PROVE  LeavingInv'
<1>1. Untouched /\ stopped = {} /\ Departed = {}
  BY FirstChange DEF Leave
<1>2. /\ n \notin down
      /\ UNCHANGED <<predecessor, successor, events, eventQueue, lateEvents,
                     lateAcks, down, joined, stopped, pendingSyncs, sync>>
  BY DEF Leave, vars, neighbours, eventVars, ackVars
<1>3. \A j \in jobs' : j.succ # Nil => j.pc # "succ"
  <2>. DEFINE i == CHOOSE k \in DOMAIN chain : chain[k] = n
              p == IF i = 1 THEN Nil ELSE chain[i - 1]
              s == IF i = Len(chain) THEN Nil ELSE chain[i + 1]
  <2>1. jobs' = IF p = Nil /\ s = Nil THEN jobs ELSE jobs \cup {Job(p, s)}
    BY DEF Leave
  <2>. HIDE DEF p, s
  <2>2. Job(p, s).succ = s /\ (s # Nil => Job(p, s).pc # "succ")
    BY DEF Job
  <2>. QED BY <1>1, <2>1, <2>2 DEF Untouched
<1>4. \A c \in Nodes : Leaving(c)' => c = n
  <2>1. \E i \in DOMAIN chain : chain[i] = n /\ chain' = RemoveAt(chain, i)
    <3>. DEFINE j == CHOOSE k \in DOMAIN chain : chain[k] = n
    <3>1. j \in DOMAIN chain /\ chain[j] = n
      BY DEF Leave, ToSet
    <3>. QED BY <3>1 DEF Leave
  <2>2. ToSet(chain') = ToSet(chain) \ {n}
    BY <2>1, ChainFacts, RemoveAtProperties
  <2>. QED BY <1>1, <1>2, <2>2 DEF Leaving, Untouched
<1>5. \A m \in lateAcks : m.to = n => m.seq < Len(events[n])
  BY <1>1 DEF IInv, LateAcksInv
<1>6. ASSUME NEW q \in Nodes, predecessor[q] = n
      PROVE  CoveredBy(n, q) /\ OnlyFrom(n, q)'
  <2>1. Precedes(n, q, {})
    <3>1. n # Nil /\ q \in Nat /\ q >= 1 /\ joined \in Nat
      BY MembersAreNumbers, ChainFacts
    <3>2. q \in 1..joined
      BY <1>6, <3>1 DEF IInv, AbsentInv
    <3>. QED BY <1>1, <1>6, <3>2 DEF IInv, WiringInv
  <2>2. CoveredBy(n, q)
    BY <1>1, <2>1 DEF CoveredBy, Precedes, IInv, OrderInv
  <2>3. ASSUME NEW p \in Nodes, successor[p] = q PROVE p = n
    <3>1. Precedes(p, q, {})
      BY <1>1, <2>3, MembersAreNumbers DEF IInv, WiringInv, MayConnect
    <3>2. p \in Nat /\ n \in Nat /\ q \in Nat
      BY MembersAreNumbers
    <3>. QED BY <2>1, <3>1, <3>2 DEF Precedes, Between
  <2>4. q # Nil
    BY MembersAreNumbers
  <2>. QED BY <1>1, <1>2, <1>3, <2>2, <2>3, <2>4 DEF OnlyFrom, Untouched
<1>7. Spared(n)'
  BY <1>2, <1>5, <1>6 DEF Spared, CoveredBy
<1>8. stopped' \subseteq down'
  BY <1>1, <1>2
<1>. QED BY <1>2, <1>4, <1>6, <1>7, <1>8 DEF LeavingInv

LEMMA RemoveDeadLeaving ==
  ASSUME IInv, WiredInv, LeavingInv,
         NEW dead \in SUBSET (stopped \cap ToSet(chain)), RemoveDead(dead)
  PROVE  LeavingInv'
<1>1. dead # {} /\ UNCHANGED <<joined, stopped, down>>
  BY DEF RemoveDead, vars
<1>2. Untouched
  BY <1>1 DEF WiredInv, Changed
<1>3. ToSet(chain') = ToSet(chain) \ dead
  BY ChainFacts, WithoutProperties DEF RemoveDead
<1>4. \A c \in Nodes : ~Leaving(c)'
  BY <1>1, <1>2, <1>3 DEF Leaving, Untouched
<1>. QED BY <1>1, <1>4 DEF LeavingInv

LEMMA JoinLeaving ==
  ASSUME OneChange, IInv, WiredInv, LeavingInv, NEW n \in Nodes, Join(n)
  PROVE  LeavingInv'
<1>1. Untouched /\ stopped = {}
  BY FirstChange DEF Join
<1>2. /\ n = joined + 1 /\ joined' = n /\ chain' = Append(chain, n)
      /\ stopped' = stopped
  BY DEF Join
<1>3. ToSet(chain') = ToSet(chain) \cup {n}
  BY <1>2, ChainFacts, AppendedToSet
<1>4. 1..n = 1..joined \cup {n}
  BY <1>2, ChainFacts
<1>5. \A c \in Nodes : ~Leaving(c)'
  BY <1>1, <1>2, <1>3, <1>4 DEF Leaving, Untouched
<1>. QED BY <1>1, <1>2, <1>5 DEF LeavingInv

LEMMA NextLeaving ==
  ASSUME OneChange, IInv, WiredInv, LeavingInv, [NextReconfiguration]_allVars
  PROVE  LeavingInv'
<1>0. \A c \in Nodes : Leaving(c) => Spared(c) /\ c # Nil /\ Len(events[c]) \in Nat
  BY LeavingFacts
<1>1. CASE ChainStep
  <2>1. \A c \in Nodes : Leaving(c) => Spared(c)'
    BY <1>0, <1>1, HandlerSpares, FaultSpares
  <2>. QED BY <1>1, <2>1, ChainStepMoves, NodesOnlyLeaving
<1>2. ASSUME NEW n \in Nodes, ReplicatorGoroutine(n) \/ AckProcessorGoroutine(n)
      PROVE  LeavingInv'
  <2>1. \A c \in Nodes : Leaving(c) => Spared(c)'
    BY <1>2, ReplicatorSpares, AckProcessorSpares
  <2>. QED BY <1>2, <2>1, GoroutineMoves, NodesOnlyLeaving
<1>3. ASSUME NEW n \in Nodes, SyncGoroutine(n) PROVE LeavingInv'
  <2>1. \A c \in Nodes : Leaving(c) => Spared(c)'
    BY <1>3, SyncSpares
  <2>. QED BY <1>3, <2>1, SyncMoves, NodesOnlyLeaving, SyncConnectsLeaving
<1>4. CASE \E p, s \in Nodes \cup {Nil} : JobStep(p, s)
  BY <1>4, JobCallsLeaving DEF JobStep, JobCalls
<1>5. CASE Membership
  BY <1>5, CrashOrStopLeaving, LeaveLeaving, RemoveDeadLeaving, JoinLeaving
  DEF Membership, Monitor
<1>6. CASE UNCHANGED allVars
  <2>1. NodesOnly
    BY <1>6 DEF NodesOnly, neighbours, allVars, vars, reconfigurationVars
  <2>2. UNCHANGED <<predecessor, events, eventQueue, lateEvents, lateAcks, down>>
    BY <1>6 DEF allVars, vars, neighbours, eventVars, ackVars
  <2>3. \A c \in Nodes : Leaving(c) => Spared(c)'
    BY <1>0, <2>2, SparedQuietly
  <2>. QED BY <2>1, <2>3, NodesOnlyLeaving
<1>. QED BY <1>1, <1>2, <1>3, <1>4, <1>5, <1>6 DEF NextReconfiguration

(* When one node crashes, leaves or joins, nobody dies but the one that    *)
(* crashes, and the one that leaves only when its server has stopped.      *)
THEOREM OneChangeKillsNobody ==
  ASSUME OneChange
  PROVE  ReconfigurationSpec => []OnlyCrashesKill
<1>1. InitReconfiguration => LeavingInv
  <2>. SUFFICES ASSUME InitReconfiguration PROVE LeavingInv
    OBVIOUS
  <2>1. chain = [n \in 1..Initial |-> n] /\ joined = Initial /\ stopped = {}
    BY DEF InitReconfiguration
  <2>2. 1..Initial \subseteq ToSet(chain)
    BY <2>1 DEF ToSet
  <2>. QED BY <2>1, <2>2 DEF LeavingInv, Leaving
<1>2. ASSUME IInv, LeavingInv PROVE OnlyCrashesKill
  <2>1. /\ down \subseteq Nodes /\ stopped \subseteq 1..joined /\ joined \in Nat
        /\ \A n \in Nodes : n \in Nat /\ n >= 1
    BY <1>2, ChainFacts, MembersAreNumbers
    DEF IInv, ChainInv, ReconfigurationTypeOK, TypeOK
  <2>2. down \cap 1..joined \subseteq stopped
    BY <1>2, <2>1 DEF IInv, LifeInv, Departed, LeavingInv, Leaving, Spared
  <2>3. \A n \in Nodes : n \notin 1..joined => n > joined
    BY <2>1
  <2>. QED BY <1>2, <2>1, <2>2, <2>3
       DEF OnlyCrashesKill, LeavingInv, IInv, AbsentInv
<1>3. IInv /\ WiredInv /\ [NextReconfiguration]_allVars => WiredInv'
  BY NextWiredInv
<1>4. IInv /\ WiredInv /\ LeavingInv /\ [NextReconfiguration]_allVars => LeavingInv'
  BY NextLeaving
<1>. QED BY <1>1, <1>2, <1>3, <1>4, InitIInv, InitWiredInv, NextIInv, PTL
     DEF ReconfigurationSpec

-----------------------------------------------------------------------------
(* One change, the HEAD stays, and no RPC times out.  Every number that a  *)
(* node of the chain has moved its counter past, and its neighbour has     *)
(* not, is accounted for: it is in hand, in the neighbour's queue, ahead   *)
(* of a synchronisation, or there is a synchronisation still to come.      *)

(* The goroutine that will connect p to q has not begun to send yet. *)
WillSync(p, q) ==
  \/ \E j \in jobs : j.pred = p /\ j.succ = q
  \/ \E s \in pendingSyncs : s.node = p /\ s.succ = q
  \/ sync[p].pc \in {"stopping", "query"} /\ sync[p].succ = q

Numbered(queue, s) == \E e \in queue : e.seq = s

(* Event s, which p has passed and q has not, is on its way to q. *)
EventOnWay(p, q, s) ==
  \/ WillSync(p, q)
  \/ /\ sync[p].pc = "sync" /\ sync[p].succ = q
     /\ sync[p].event <= s /\ s <= sync[p].lastEvent
  \/ Numbered(outgoing[p], s)
  \/ Numbered(eventQueue[q], s)

(* So is the ACK that q has passed and p has not. *)
AckOnWay(p, q, s) ==
  \/ WillSync(p, q)
  \/ /\ sync[p].pc = "sync" /\ sync[p].succ = q
     /\ sync[p].ack <= s /\ s <= sync[p].lastAck
  \/ s \in ackQueue[p]
  \/ Holds(ackProcessor[q]) /\ s = AckSeq(q)

(* And, without a successor, that of an event that p has passed. *)
TailOnWay(p, s) ==
  \/ WillSync(p, Nil)
  \/ /\ sync[p].pc = "sync" /\ sync[p].succ = Nil
     /\ sync[p].ack <= s /\ s <= sync[p].lastAck
  \/ s \in ackQueue[p]
  \/ Numbered(outgoing[p], s)

PairsInv ==
  \A p \in Nodes \ down :
    /\ Adjacent(p, Nil, ToSet(chain)) =>
         \A s \in nextAckSeq[p]..nextEventSeq[p] - 1 : TailOnWay(p, s)
    /\ \A q \in Nodes \ down : Adjacent(p, q, ToSet(chain)) =>
         /\ \A s \in nextEventSeq[q]..nextEventSeq[p] - 1 : EventOnWay(p, q, s)
         /\ \A s \in nextAckSeq[p]..nextAckSeq[q] - 1 : AckOnWay(p, q, s)

(* A write that the HEAD has numbered is in its queue or will be. *)
NumberedInv ==
  \A s \in nextEventSeq[1]..Len(events[1]) - 1 :
    \/ Numbered(eventQueue[1], s)
    \/ \E w \in Writes : handler[w].pc \in {"created", "open"} /\ handler[w].seq = s

(* A replicator has at most one event in hand, and none but to send it;    *)
(* what it has taken is what its node has.                                 *)
HandsInv ==
  \A n \in Nodes :
    /\ n # 1 => nextEventSeq[n] = Len(events[n])
    /\ replicator[n] # "send" => outgoing[n] = {}
    /\ \A e, f \in outgoing[n] : e = f
    /\ sync[n].pc \in {"query", "sync"} => replicator[n] = "stopped"

NothingLate == lateEvents = {} /\ lateAcks = {}

AccountInv == NothingLate /\ HandsInv /\ NumberedInv /\ PairsInv

RestInv == IInv /\ HInv /\ WiredInv /\ AccountInv

LEMMA AccountFacts ==
  ASSUME RestInv
  PROVE  /\ 1 \in Nodes /\ Nil \notin Nodes /\ Nodes \subseteq Nat
         /\ \A k \in Nodes : /\ k \in Nat /\ k >= 1
                             /\ nextEventSeq[k] \in Nat /\ nextAckSeq[k] \in Nat
                             /\ Len(events[k]) \in Nat
                             /\ nextEventSeq[k] <= Len(events[k])
                             /\ Len(events[k]) <= Len(events[1])
                             /\ \A e \in outgoing[k] : e.seq \in Nat
                             /\ \A e \in eventQueue[k] : e.seq \in Nat
         /\ \A p, q : Adjacent(p, q, ToSet(chain)) =>
              /\ p # q /\ p \in Nodes \cup {Nil} /\ q \in Nodes \cup {Nil}
              /\ p \in Nodes /\ q \in Nodes => p < q
<1>1. \A k \in Nodes : k \in Nat /\ k >= 1 /\ k # Nil
  BY MembersAreNumbers DEF RestInv
<1>2. 1 \in Nodes /\ Nil \notin Nodes /\ Nodes \subseteq Nat
  BY <1>1, HeadFacts DEF RestInv, HInv
<1>3. ASSUME NEW k \in Nodes
      PROVE  /\ nextEventSeq[k] \in Nat /\ nextAckSeq[k] \in Nat
             /\ Len(events[k]) \in Nat
             /\ nextEventSeq[k] <= Len(events[k])
             /\ Len(events[k]) <= Len(events[1])
             /\ \A e \in outgoing[k] : e.seq \in Nat
             /\ \A e \in eventQueue[k] : e.seq \in Nat
  <2>1. /\ nextEventSeq[k] \in Nat /\ nextAckSeq[k] \in Nat
        /\ Len(events[k]) \in Nat
        /\ outgoing[k] \subseteq Event /\ eventQueue[k] \subseteq Event
    BY NodeTypes DEF RestInv, IInv, ReconfigurationTypeOK
  <2>2. nextEventSeq[k] <= Len(events[k])
    BY DEF RestInv, IInv, SendInv
  <2>3. Len(events[k]) <= Len(events[1])
    BY HeadFacts DEF RestInv, HInv
  <2>4. \A e \in Event : e.seq \in Nat
    BY DEF Event
  <2>. QED BY <2>1, <2>2, <2>3, <2>4
<1>4. ASSUME NEW p, NEW q, Adjacent(p, q, ToSet(chain))
      PROVE  /\ p # q /\ p \in Nodes \cup {Nil} /\ q \in Nodes \cup {Nil}
             /\ p \in Nodes /\ q \in Nodes => p < q
  <2>1. p \in Nodes \cup {Nil} /\ q \in Nodes \cup {Nil}
    BY <1>4, MembersAreNumbers DEF Adjacent, RestInv
  <2>2. q \in Nodes => p < q
    BY <1>2, <1>4 DEF Adjacent
  <2>3. p # q
    BY <1>1, <1>4, <2>1, <2>2 DEF Adjacent, Nil
  <2>. QED BY <2>1, <2>2, <2>3
<1>. QED BY <1>1, <1>2, <1>3, <1>4

(* A node that is to be connected to another one will synchronise with it. *)
LEMMA SuccessorElse ==
  ASSUME RestInv, NEW p \in Nodes, NEW q, Adjacent(p, q, ToSet(chain)),
         successor[p] # q
  PROVE  WillSync(p, q)
<1>1. p # Nil /\ q \in Nodes \cup {Nil}
  BY AccountFacts
<1>2. WillSucceed(p, q)
  BY <1>1 DEF RestInv, WiredInv, RepairInv
<1>. QED BY <1>2 DEF WillSucceed, WillSync

LEMMA PredecessorElse ==
  ASSUME RestInv, NEW p \in Nodes, NEW q \in Nodes,
         Adjacent(p, q, ToSet(chain)), predecessor[q] # p
  PROVE  WillSync(p, q)
<1>1. q # Nil
  BY AccountFacts
<1>2. WillPrecede(p, q)
  BY <1>1 DEF RestInv, WiredInv, RepairInv
<1>. QED BY <1>2 DEF WillPrecede, WillSync

(* A step that moves no counter, after which everything is on its way that *)
(* was before.                                                             *)
LEMMA PairsGoOn ==
  ASSUME PairsInv, UNCHANGED <<chain, nextEventSeq, nextAckSeq>>,
         down \subseteq down',
         \A p \in Nodes \ down' : Adjacent(p, Nil, ToSet(chain)) =>
           \A s \in nextAckSeq[p]..nextEventSeq[p] - 1 :
             TailOnWay(p, s) => TailOnWay(p, s)',
         \A p, q \in Nodes \ down' : Adjacent(p, q, ToSet(chain)) =>
           /\ \A s \in nextEventSeq[q]..nextEventSeq[p] - 1 :
                EventOnWay(p, q, s) => EventOnWay(p, q, s)'
           /\ \A s \in nextAckSeq[p]..nextAckSeq[q] - 1 :
                AckOnWay(p, q, s) => AckOnWay(p, q, s)'
  PROVE  PairsInv'
<1>. SUFFICES ASSUME NEW p \in Nodes \ down'
     PROVE  /\ Adjacent(p, Nil, ToSet(chain)) =>
                 \A s \in nextAckSeq[p]..nextEventSeq[p] - 1 : TailOnWay(p, s)'
            /\ \A q \in Nodes \ down' : Adjacent(p, q, ToSet(chain)) =>
                 /\ \A s \in nextEventSeq[q]..nextEventSeq[p] - 1 :
                      EventOnWay(p, q, s)'
                 /\ \A s \in nextAckSeq[p]..nextAckSeq[q] - 1 :
                      AckOnWay(p, q, s)'
  BY DEF PairsInv
<1>. HIDE DEF TailOnWay, EventOnWay, AckOnWay, Adjacent
<1>. QED BY DEF PairsInv

(* A step of the nodes that empties no hand and no queue. *)
LEMMA PairsFrame ==
  ASSUME RestInv, UNCHANGED <<chain, nextEventSeq, nextAckSeq,
                              jobs, pendingSyncs, sync>>,
         down \subseteq down',
         \A k \in Nodes :
           /\ \A e \in outgoing[k] : Numbered(outgoing'[k], e.seq)
           /\ \A e \in eventQueue[k] : Numbered(eventQueue'[k], e.seq)
           /\ ackQueue[k] \subseteq ackQueue'[k]
           /\ Holds(ackProcessor[k]) => Holds(ackProcessor'[k])
  PROVE  PairsInv'
<1>1. PairsInv
  BY DEF RestInv, AccountInv
<1>2. \A p \in Nodes : \A s : TailOnWay(p, s) => TailOnWay(p, s)'
  BY DEF TailOnWay, WillSync, Numbered
<1>3. \A p, q \in Nodes : \A s : EventOnWay(p, q, s) => EventOnWay(p, q, s)'
  BY DEF EventOnWay, WillSync, Numbered
<1>4. \A p, q \in Nodes : \A s : AckOnWay(p, q, s) => AckOnWay(p, q, s)'
  BY DEF AckOnWay, WillSync, AckSeq
<1>. QED BY <1>1, <1>2, <1>3, <1>4, PairsGoOn

(* What HandsInv and NumberedInv depend on. *)
LEMMA HandsFrame ==
  ASSUME HandsInv, UNCHANGED <<events, nextEventSeq>>,
         \A k \in Nodes :
           \/ /\ outgoing'[k] = outgoing[k]
              /\ replicator[k] = "send" => replicator'[k] = "send"
           \/ outgoing'[k] = {},
         \A k \in Nodes : sync'[k].pc \in {"query", "sync"} => replicator'[k] = "stopped"
  PROVE  HandsInv'
BY DEF HandsInv

LEMMA NumberedFrame ==
  ASSUME NumberedInv, UNCHANGED <<events, nextEventSeq>>,
         \A e \in eventQueue[1] : Numbered(eventQueue'[1], e.seq),
         \A w \in Writes : handler[w].pc \in {"created", "open"} =>
           handler'[w].pc \in {"created", "open"} /\ handler'[w].seq = handler[w].seq
  PROVE  NumberedInv'
BY DEF NumberedInv, Numbered

-----------------------------------------------------------------------------
(* Steps of the nodes. *)

LEMMA BufferEventNumbers ==
  ASSUME TypeOK, NEW m \in Nodes, NEW e,
         NEW states \in [Nodes -> ReplicatorStates], BufferEvent(m, e, states)
  PROVE  /\ \A k \in Nodes : \A f \in eventQueue[k] : Numbered(eventQueue'[k], f.seq)
         /\ e.seq < nextEventSeq[m] \/ Numbered(eventQueue'[m], e.seq)
         /\ \A k \in Nodes : /\ states[k] = "send" <=> replicator'[k] = "send"
                             /\ states[k] = "stopped" => replicator'[k] = "stopped"
<1>1. eventQueue \in [Nodes -> SUBSET Event]
  BY DEF TypeOK, EventTypes
<1>2. CASE e.seq < nextEventSeq[m]
  BY <1>2 DEF BufferEvent, Numbered
<1>3. CASE ~(e.seq < nextEventSeq[m])
  <2>1. /\ eventQueue'[m] = {f \in eventQueue[m] : f.seq # e.seq} \cup {e}
        /\ \A k \in Nodes : k # m => eventQueue'[k] = eventQueue[k]
        /\ replicator'[m] = Woken(states[m])
        /\ \A k \in Nodes : k # m => replicator'[k] = states[k]
    BY <1>1, <1>3 DEF BufferEvent
  <2>. QED BY <2>1 DEF Numbered, Woken
<1>. QED BY <1>2, <1>3

LEMMA BufferAckNumbers ==
  ASSUME TypeOK, NEW m \in Nodes, NEW seq,
         NEW states \in [Nodes -> AckProcessorStates], BufferAck(m, seq, states)
  PROVE  /\ \A k \in Nodes : /\ ackQueue[k] \subseteq ackQueue'[k]
                             /\ Holds(states[k]) <=> Holds(ackProcessor'[k])
         /\ down \subseteq down'
         /\ m \in down' \/ seq < nextAckSeq[m] \/ seq \in ackQueue'[m]
<1>1. ackQueue \in [Nodes -> SUBSET Nat]
  BY DEF TypeOK, AckTypes
<1>2. CASE seq < nextAckSeq[m]
  BY <1>2 DEF BufferAck
<1>3. CASE ~(seq < nextAckSeq[m]) /\ seq >= Len(events[m])
  BY <1>3 DEF BufferAck
<1>4. CASE ~(seq < nextAckSeq[m]) /\ ~(seq >= Len(events[m]))
  <2>1. /\ ackQueue'[m] = ackQueue[m] \cup {seq}
        /\ \A k \in Nodes : k # m => ackQueue'[k] = ackQueue[k]
        /\ ackProcessor'[m] = Woken(states[m])
        /\ \A k \in Nodes : k # m => ackProcessor'[k] = states[k]
        /\ down' = down
    BY <1>1, <1>4 DEF BufferAck
  <2>. QED BY <2>1 DEF Woken, Holds
<1>. QED BY <1>2, <1>3, <1>4

(* A step that leaves all counters, all hands and all queues as they are,  *)
(* or fuller.                                                              *)
LEMMA QuietStep ==
  ASSUME RestInv, UNCHANGED <<events, nextEventSeq, outgoing, lateEvents,
                              nextAckSeq, lateAcks, chain, jobs, pendingSyncs,
                              sync>>,
         down \subseteq down',
         \A k \in Nodes :
           /\ replicator[k] = "send" => replicator'[k] = "send"
           /\ replicator[k] = "stopped" => replicator'[k] = "stopped"
           /\ \A e \in eventQueue[k] : Numbered(eventQueue'[k], e.seq)
           /\ ackQueue[k] \subseteq ackQueue'[k]
           /\ Holds(ackProcessor[k]) => Holds(ackProcessor'[k]),
         \A w \in Writes : handler[w].pc \in {"created", "open"} =>
           \/ /\ handler'[w].pc \in {"created", "open"}
              /\ handler'[w].seq = handler[w].seq
           \/ handler[w].seq < nextEventSeq[1]
           \/ Numbered(eventQueue'[1], handler[w].seq)
  PROVE  AccountInv'
<1>1. NothingLate'
  BY DEF RestInv, AccountInv, NothingLate
<1>2. HandsInv'
  BY DEF RestInv, AccountInv, HandsInv
<1>3. PairsInv'
  <2>1. \A k \in Nodes : \A e \in outgoing[k] : Numbered(outgoing'[k], e.seq)
    BY DEF Numbered
  <2>. QED BY <2>1, PairsFrame
<1>4. NumberedInv'
  <2>. SUFFICES ASSUME NEW s \in nextEventSeq[1]..Len(events[1]) - 1
       PROVE  \/ Numbered(eventQueue'[1], s)
              \/ \E w \in Writes : /\ handler'[w].pc \in {"created", "open"}
                                   /\ handler'[w].seq = s
    BY DEF NumberedInv
  <2>1. nextEventSeq[1] \in Nat /\ Len(events[1]) \in Nat /\ 1 \in Nodes
    BY AccountFacts
  <2>2. CASE Numbered(eventQueue[1], s)
    BY <2>1, <2>2 DEF Numbered
  <2>3. CASE \E w \in Writes : handler[w].pc \in {"created", "open"}
                               /\ handler[w].seq = s
    BY <2>1, <2>3
  <2>. QED BY <2>2, <2>3 DEF RestInv, AccountInv, NumberedInv
<1>. QED BY <1>1, <1>2, <1>3, <1>4 DEF AccountInv

LEMMA RestTypes ==
  ASSUME RestInv
  PROVE  /\ TypeOK /\ sync \in [Nodes -> SyncState]
         /\ replicator \in [Nodes -> ReplicatorStates]
         /\ eventQueue \in [Nodes -> SUBSET Event]
         /\ outgoing \in [Nodes -> SUBSET Event]
         /\ nextEventSeq \in [Nodes -> Nat]
         /\ ackProcessor \in [Nodes -> AckProcessorStates]
         /\ nextAckSeq \in [Nodes -> Nat]
         /\ ackQueue \in [Nodes -> SUBSET Nat]
         /\ events \in [Nodes -> Seq(Writes)]
         /\ handler \in [Writes -> [pc : HandlerStates,
                                    node : Nodes \cup {Nil}, seq : Nat]]
BY DEF RestInv, IInv, ReconfigurationTypeOK, ReconfigurationTypes, SyncState,
       TypeOK, EventTypes, AckTypes, ClientTypes

LEMMA HandlerAccounts ==
  ASSUME RestInv, NEW w \in Writes, HandlerStep(w), UNCHANGED reconfigurationVars
  PROVE  AccountInv'
<1>0. /\ handler \in [Writes -> [pc : HandlerStates,
                                 node : Nodes \cup {Nil}, seq : Nat]]
      /\ UNCHANGED <<chain, jobs, pendingSyncs, sync>>
  BY RestTypes DEF reconfigurationVars
<1>1. CASE OpenAckChannel(w)
  <2>1. UNCHANGED <<eventVars, ackVars, events, down>>
    BY <1>1 DEF OpenAckChannel
  <2>2. \A v \in Writes : handler[v].pc \in {"created", "open"} =>
           /\ handler'[v].pc \in {"created", "open"}
           /\ handler'[v].seq = handler[v].seq
    BY <1>0, <1>1 DEF OpenAckChannel
  <2>. QED BY <1>0, <2>1, <2>2, QuietStep DEF eventVars, ackVars, Numbered
<1>2. CASE ReceiveResult(w)
  <2>1. UNCHANGED <<eventVars, ackVars, events, down>>
    BY <1>2 DEF ReceiveResult
  <2>2. \A v \in Writes : handler[v].pc \in {"created", "open"} =>
           /\ handler'[v].pc \in {"created", "open"}
           /\ handler'[v].seq = handler[v].seq
    BY <1>0, <1>2 DEF ReceiveResult
  <2>. QED BY <1>0, <2>1, <2>2, QuietStep DEF eventVars, ackVars, Numbered
<1>3. CASE BufferOwnEvent(w)
  <2>. DEFINE e == [seq |-> handler[w].seq, write |-> w]
  <2>1. UNCHANGED <<events, nextEventSeq, outgoing, lateEvents, ackVars, down>>
    BY <1>3 DEF BufferOwnEvent
  <2>2. handler[w].node = 1 /\ 1 \in Nodes
    BY <1>3, HeadFacts DEF BufferOwnEvent, RestInv, HInv
  <2>3. BufferEvent(1, e, replicator)
    BY <1>3, <2>2 DEF BufferOwnEvent
  <2>4. /\ \A k \in Nodes : \A f \in eventQueue[k] : Numbered(eventQueue'[k], f.seq)
        /\ e.seq < nextEventSeq[1] \/ Numbered(eventQueue'[1], e.seq)
        /\ \A k \in Nodes : /\ replicator[k] = "send" <=> replicator'[k] = "send"
                            /\ replicator[k] = "stopped" => replicator'[k] = "stopped"
    <3>. HIDE DEF e
    <3>. QED BY <2>2, <2>3, RestTypes, BufferEventNumbers
  <2>5. \A v \in Writes : handler[v].pc \in {"created", "open"} =>
           \/ /\ handler'[v].pc \in {"created", "open"}
              /\ handler'[v].seq = handler[v].seq
           \/ handler[v].seq < nextEventSeq[1]
           \/ Numbered(eventQueue'[1], handler[v].seq)
    BY <1>0, <1>3, <2>4 DEF BufferOwnEvent
  <2>. QED BY <1>0, <2>1, <2>4, <2>5, QuietStep DEF ackVars
<1>. QED BY <1>1, <1>2, <1>3 DEF HandlerStep

LEMMA HandleWriteAccounts ==
  ASSUME RestInv, NEW n \in Nodes, NEW w \in Writes, HandleWrite(n, w),
         UNCHANGED reconfigurationVars
  PROVE  AccountInv'
<1>1. /\ UNCHANGED <<nextEventSeq, eventQueue, replicator, outgoing, lateEvents,
                     nextAckSeq, ackQueue, ackProcessor, lateAcks, down,
                     chain, jobs, pendingSyncs, sync>>
  BY DEF HandleWrite, eventVars, ackVars, reconfigurationVars
<1>2. n = 1
  <2>1. n \in 1..joined
    BY RunningHasJoined DEF HandleWrite, RestInv
  <2>. QED BY <2>1, HeadFacts DEF HandleWrite, IsHead, RestInv, HInv
<1>3. /\ Len(events'[1]) = Len(events[1]) + 1
      /\ \A k \in Nodes : k # 1 => events'[k] = events[k]
      /\ handler[w].pc = "idle"
      /\ handler'[w].pc = "created" /\ handler'[w].seq = Len(events[1])
      /\ \A v \in Writes : v # w => handler'[v] = handler[v]
  <2>1. 1 \in Nodes /\ events[1] \in Seq(Writes)
    BY <1>2, RestTypes
  <2>2. events'[1] = Append(events[1], w) /\ \A k \in Nodes : k # 1 => events'[k] = events[k]
    BY <1>2, RestTypes DEF HandleWrite
  <2>3. /\ handler[w].pc = "idle"
        /\ handler'[w].pc = "created" /\ handler'[w].seq = Len(events[1])
        /\ \A v \in Writes : v # w => handler'[v] = handler[v]
    BY <1>2, RestTypes DEF HandleWrite
  <2>. QED BY <2>1, <2>2, <2>3
<1>4. NothingLate'
  BY <1>1 DEF RestInv, AccountInv, NothingLate
<1>5. HandsInv'
  BY <1>1, <1>3 DEF RestInv, AccountInv, HandsInv
<1>6. NumberedInv'
  <2>. SUFFICES ASSUME NEW s \in nextEventSeq[1]..Len(events[1])
       PROVE  \/ Numbered(eventQueue[1], s)
              \/ \E v \in Writes : /\ handler'[v].pc \in {"created", "open"}
                                   /\ handler'[v].seq = s
    BY <1>1, <1>3, AccountFacts DEF NumberedInv
  <2>1. CASE s = Len(events[1])
    BY <1>3, <2>1
  <2>2. CASE s # Len(events[1])
    <3>1. s \in nextEventSeq[1]..Len(events[1]) - 1
      BY <2>2, AccountFacts
    <3>. QED BY <1>3, <3>1 DEF RestInv, AccountInv, NumberedInv
  <2>. QED BY <2>1, <2>2
<1>7. PairsInv'
  <2>1. \A k \in Nodes :
           /\ \A e \in outgoing[k] : Numbered(outgoing'[k], e.seq)
           /\ \A e \in eventQueue[k] : Numbered(eventQueue'[k], e.seq)
    BY <1>1 DEF Numbered
  <2>. QED BY <1>1, <2>1, PairsFrame
<1>. QED BY <1>4, <1>5, <1>6, <1>7 DEF AccountInv

(* The event replicator takes the next event off the queue: it is in hand, *)
(* and counts from now on as passed by n.                                  *)
LEMMA TakeNextEventAccounts ==
  ASSUME RestInv, NEW n \in Nodes, TakeNextEvent(n), UNCHANGED reconfigurationVars
  PROVE  AccountInv'
<1>1. PICK e \in eventQueue[n] :
        /\ e.seq = nextEventSeq[n]
        /\ eventQueue' = [eventQueue EXCEPT ![n] = @ \ {e}]
        /\ nextEventSeq' = [nextEventSeq EXCEPT ![n] = @ + 1]
        /\ outgoing' = [outgoing EXCEPT ![n] = {e}]
        /\ replicator' = [replicator EXCEPT ![n] = "send"]
        /\ events' = IF e.seq = Len(events[n])
                     THEN [events EXCEPT ![n] = Append(@, e.write)]
                     ELSE events
  BY DEF TakeNextEvent, NextEvents
<1>2. /\ UNCHANGED <<lateEvents, nextAckSeq, ackQueue, ackProcessor, lateAcks,
                     handler, chain, jobs, pendingSyncs, sync>>
      /\ replicator[n] = "scan" /\ down \subseteq down'
  BY DEF TakeNextEvent, ackVars, clientVars, reconfigurationVars
<1>3. outgoing[n] = {}
  BY <1>2 DEF RestInv, AccountInv, HandsInv
<1>4. /\ nextEventSeq'[n] = nextEventSeq[n] + 1 /\ nextEventSeq[n] \in Nat
      /\ eventQueue'[n] = eventQueue[n] \ {e}
      /\ outgoing'[n] = {e}
      /\ replicator'[n] = "send"
      /\ \A k \in Nodes : k # n => /\ nextEventSeq'[k] = nextEventSeq[k]
                                   /\ eventQueue'[k] = eventQueue[k]
                                   /\ outgoing'[k] = outgoing[k]
                                   /\ replicator'[k] = replicator[k]
  BY <1>1, RestTypes
<1>5. /\ \A k \in Nodes : k # n => events'[k] = events[k]
      /\ e.seq = Len(events[n]) => Len(events'[n]) = Len(events[n]) + 1
      /\ e.seq # Len(events[n]) => events' = events
  <2>1. events[n] \in Seq(Writes)
    BY RestTypes
  <2>. QED BY <1>1, <2>1, RestTypes
<1>6. NothingLate'
  BY <1>2 DEF RestInv, AccountInv, NothingLate
<1>7. HandsInv'
  BY <1>1, <1>2, <1>4, <1>5 DEF RestInv, AccountInv, HandsInv
<1>8. NumberedInv'
  <2>1. n = 1 => events' = events
    <3>1. n = 1 => e.seq < Len(events[1])
      BY DEF RestInv, HInv, EventsInv, OfLog
    <3>. QED BY <1>5, <3>1, AccountFacts
  <2>2. events'[1] = events[1] /\ 1 \in Nodes
    BY <1>5, <2>1, AccountFacts
  <2>3. n = 1 => \A f \in eventQueue[1] : f.seq # e.seq => f \in eventQueue'[1]
    BY <1>4
  <2>. SUFFICES ASSUME NEW s \in nextEventSeq'[1]..Len(events[1]) - 1
       PROVE  \/ Numbered(eventQueue'[1], s)
              \/ \E w \in Writes : /\ handler[w].pc \in {"created", "open"}
                                   /\ handler[w].seq = s
    BY <1>2, <2>2 DEF NumberedInv
  <2>4. /\ s \in nextEventSeq[1]..Len(events[1]) - 1
        /\ n = 1 => s # e.seq
    BY <1>1, <1>4, <2>2, AccountFacts
  <2>. QED BY <1>4, <2>2, <2>3, <2>4 DEF RestInv, AccountInv, NumberedInv, Numbered
<1>9. PairsInv'
  <2>. SUFFICES ASSUME NEW p \in Nodes \ down'
       PROVE  /\ Adjacent(p, Nil, ToSet(chain)) =>
                   \A s \in nextAckSeq[p]..nextEventSeq'[p] - 1 : TailOnWay(p, s)'
              /\ \A q \in Nodes \ down' : Adjacent(p, q, ToSet(chain)) =>
                   /\ \A s \in nextEventSeq'[q]..nextEventSeq'[p] - 1 :
                        EventOnWay(p, q, s)'
                   /\ \A s \in nextAckSeq[p]..nextAckSeq[q] - 1 :
                        AckOnWay(p, q, s)'
    BY <1>2 DEF PairsInv
  <2>0. p \in Nodes \ down
    BY <1>2
  <2>1. ASSUME Adjacent(p, Nil, ToSet(chain)),
               NEW s \in nextAckSeq[p]..nextEventSeq'[p] - 1
        PROVE  TailOnWay(p, s)'
    <3>1. CASE p = n /\ s = nextEventSeq[n]
      BY <1>1, <1>4, <3>1 DEF TailOnWay, Numbered
    <3>2. CASE ~(p = n /\ s = nextEventSeq[n])
      <4>1. s \in nextAckSeq[p]..nextEventSeq[p] - 1
        BY <1>4, <3>2, AccountFacts
      <4>2. TailOnWay(p, s)
        BY <2>0, <2>1, <4>1 DEF RestInv, AccountInv, PairsInv
      <4>. QED BY <1>2, <1>3, <1>4, <4>2 DEF TailOnWay, WillSync, Numbered
    <3>. QED BY <3>1, <3>2
  <2>2. ASSUME NEW q \in Nodes \ down', Adjacent(p, q, ToSet(chain))
        PROVE  /\ \A s \in nextEventSeq'[q]..nextEventSeq'[p] - 1 :
                    EventOnWay(p, q, s)'
               /\ \A s \in nextAckSeq[p]..nextAckSeq[q] - 1 : AckOnWay(p, q, s)'
    <3>0. q \in Nodes \ down /\ p # q
      BY <1>2, <2>2, AccountFacts
    <3>1. ASSUME NEW s \in nextEventSeq'[q]..nextEventSeq'[p] - 1
          PROVE  EventOnWay(p, q, s)'
      <4>1. CASE p = n /\ s = nextEventSeq[n]
        BY <1>1, <1>4, <4>1 DEF EventOnWay, Numbered
      <4>2. CASE ~(p = n /\ s = nextEventSeq[n])
        <5>1. /\ s \in nextEventSeq[q]..nextEventSeq[p] - 1
              /\ q = n => s # e.seq
          BY <1>1, <1>4, <3>0, <3>1, <4>2, AccountFacts
        <5>2. EventOnWay(p, q, s)
          BY <2>0, <2>2, <3>0, <5>1 DEF RestInv, AccountInv, PairsInv
        <5>. QED BY <1>2, <1>3, <1>4, <3>0, <5>1, <5>2
             DEF EventOnWay, WillSync, Numbered
      <4>. QED BY <4>1, <4>2
    <3>2. ASSUME NEW s \in nextAckSeq[p]..nextAckSeq[q] - 1
          PROVE  AckOnWay(p, q, s)'
      <4>1. AckOnWay(p, q, s)
        BY <2>0, <2>2, <3>0 DEF RestInv, AccountInv, PairsInv
      <4>. QED BY <1>2, <4>1 DEF AckOnWay, WillSync, AckSeq
    <3>. QED BY <3>1, <3>2
  <2>. QED BY <2>1, <2>2
<1>. QED BY <1>6, <1>7, <1>8, <1>9 DEF AccountInv

(* The event replicator lets go of its event: the next node has it, or the *)
(* ACK processor, or it will be sent again.                                *)
LEMMA HandedOver ==
  ASSUME RestInv, NEW n \in Nodes,
         UNCHANGED <<events, nextEventSeq, nextAckSeq, lateEvents, lateAcks,
                     handler, chain, jobs, pendingSyncs, sync>>,
         down \subseteq down',
         outgoing' = [outgoing EXCEPT ![n] = {}],
         replicator[n] = "send",
         \A k \in Nodes :
           /\ k # n /\ replicator[k] = "send" => replicator'[k] = "send"
           /\ replicator[k] = "stopped" => replicator'[k] = "stopped"
           /\ \A e \in eventQueue[k] : Numbered(eventQueue'[k], e.seq)
           /\ ackQueue[k] \subseteq ackQueue'[k]
           /\ Holds(ackProcessor[k]) => Holds(ackProcessor'[k]),
         \A e \in outgoing[n] : n \notin down' =>
           /\ Adjacent(n, Nil, ToSet(chain)) =>
                \/ WillSync(n, Nil)
                \/ e.seq < nextAckSeq[n]
                \/ e.seq \in ackQueue'[n]
           /\ \A q \in Nodes \ down' : Adjacent(n, q, ToSet(chain)) =>
                \/ WillSync(n, q)
                \/ e.seq < nextEventSeq[q]
                \/ Numbered(eventQueue'[q], e.seq)
  PROVE  AccountInv'
<1>0. outgoing'[n] = {} /\ \A k \in Nodes : k # n => outgoing'[k] = outgoing[k]
  BY RestTypes
<1>1. NothingLate'
  BY DEF RestInv, AccountInv, NothingLate
<1>2. HandsInv'
  BY <1>0 DEF RestInv, AccountInv, HandsInv
<1>3. NumberedInv'
  BY AccountFacts, NumberedFrame DEF RestInv, AccountInv
<1>4. PairsInv'
  <2>1. ASSUME NEW p \in Nodes \ down', Adjacent(p, Nil, ToSet(chain)),
               NEW s \in nextAckSeq[p]..nextEventSeq[p] - 1, TailOnWay(p, s)
        PROVE  TailOnWay(p, s)'
    <3>1. CASE p = n /\ Numbered(outgoing[n], s)
      <4>1. \/ WillSync(n, Nil)
            \/ s < nextAckSeq[n]
            \/ s \in ackQueue'[n]
        BY <2>1, <3>1 DEF Numbered
      <4>2. ~(s < nextAckSeq[n])
        BY <2>1, <3>1, AccountFacts
      <4>. QED BY <3>1, <4>1, <4>2 DEF TailOnWay, WillSync
    <3>2. CASE ~(p = n /\ Numbered(outgoing[n], s))
      BY <1>0, <2>1, <3>2 DEF TailOnWay, WillSync, Numbered
    <3>. QED BY <3>1, <3>2
  <2>2. ASSUME NEW p \in Nodes \ down', NEW q \in Nodes \ down',
               Adjacent(p, q, ToSet(chain)),
               NEW s \in nextEventSeq[q]..nextEventSeq[p] - 1,
               EventOnWay(p, q, s)
        PROVE  EventOnWay(p, q, s)'
    <3>1. CASE p = n /\ Numbered(outgoing[n], s)
      <4>1. \/ WillSync(n, q)
            \/ s < nextEventSeq[q]
            \/ Numbered(eventQueue'[q], s)
        BY <2>2, <3>1 DEF Numbered
      <4>2. ~(s < nextEventSeq[q])
        BY <2>2, <3>1, AccountFacts
      <4>. QED BY <3>1, <4>1, <4>2 DEF EventOnWay, WillSync
    <3>2. CASE ~(p = n /\ Numbered(outgoing[n], s))
      BY <1>0, <2>2, <3>2 DEF EventOnWay, WillSync, Numbered
    <3>. QED BY <3>1, <3>2
  <2>3. \A p, q \in Nodes : \A s : AckOnWay(p, q, s) => AckOnWay(p, q, s)'
    BY DEF AckOnWay, WillSync, AckSeq
  <2>4. PairsInv
    BY DEF RestInv, AccountInv
  <2>. QED BY <2>1, <2>2, <2>3, <2>4, PairsGoOn
<1>. QED BY <1>1, <1>2, <1>3, <1>4 DEF AccountInv

LEMMA ReplicateAtTailAccounts ==
  ASSUME RestInv, NEW n \in Nodes, ReplicateAtTail(n), UNCHANGED reconfigurationVars
  PROVE  AccountInv'
<1>0. /\ UNCHANGED <<events, nextEventSeq, eventQueue, nextAckSeq, lateEvents,
                     lateAcks, handler, chain, jobs, pendingSyncs, sync>>
      /\ outgoing' = [outgoing EXCEPT ![n] = {}]
      /\ replicator[n] = "send" /\ successor[n] = Nil
      /\ replicator' = [replicator EXCEPT ![n] = "scan"]
  BY DEF ReplicateAtTail, IsTail, clientVars, reconfigurationVars
<1>1. PICK e \in outgoing[n] : BufferAck(n, e.seq, ackProcessor)
  BY DEF ReplicateAtTail
<1>2. \A f \in outgoing[n] : f = e
  BY DEF RestInv, AccountInv, HandsInv
<1>3. /\ \A k \in Nodes : /\ ackQueue[k] \subseteq ackQueue'[k]
                          /\ Holds(ackProcessor[k]) <=> Holds(ackProcessor'[k])
      /\ down \subseteq down'
      /\ n \in down' \/ e.seq < nextAckSeq[n] \/ e.seq \in ackQueue'[n]
  BY <1>1, RestTypes, BufferAckNumbers
<1>4. \A q \in Nodes : Adjacent(n, q, ToSet(chain)) => WillSync(n, q)
  BY <1>0, SuccessorElse, AccountFacts
<1>5. \A k \in Nodes :
        /\ k # n /\ replicator[k] = "send" => replicator'[k] = "send"
        /\ replicator[k] = "stopped" => replicator'[k] = "stopped"
        /\ \A f \in eventQueue[k] : Numbered(eventQueue'[k], f.seq)
  BY <1>0, RestTypes DEF Numbered
<1>. HIDE DEF WillSync
<1>. QED BY <1>0, <1>2, <1>3, <1>4, <1>5, HandedOver

LEMMA ReplicateToSuccessorAccounts ==
  ASSUME RestInv, NEW n \in Nodes, ReplicateToSuccessor(n),
         UNCHANGED reconfigurationVars
  PROVE  AccountInv'
<1>. DEFINE m == successor[n]
            states == [replicator EXCEPT ![n] = "scan"]
<1>0. /\ UNCHANGED <<events, nextEventSeq, nextAckSeq, ackQueue, ackProcessor,
                     lateEvents, lateAcks, handler, down,
                     chain, jobs, pendingSyncs, sync>>
      /\ outgoing' = [outgoing EXCEPT ![n] = {}]
      /\ replicator[n] = "send" /\ m # Nil
  BY DEF ReplicateToSuccessor, IsTail, ackVars, clientVars, reconfigurationVars
<1>1. PICK e \in outgoing[n] : BufferEvent(m, e, states)
  BY DEF ReplicateToSuccessor
<1>2. \A f \in outgoing[n] : f = e
  BY DEF RestInv, AccountInv, HandsInv
<1>3. m \in Nodes /\ states \in [Nodes -> ReplicatorStates]
  BY <1>0, RestTypes DEF TypeOK, ReplicatorStates
<1>4. /\ \A k \in Nodes : \A f \in eventQueue[k] : Numbered(eventQueue'[k], f.seq)
      /\ e.seq < nextEventSeq[m] \/ Numbered(eventQueue'[m], e.seq)
      /\ \A k \in Nodes : /\ states[k] = "send" <=> replicator'[k] = "send"
                          /\ states[k] = "stopped" => replicator'[k] = "stopped"
  <2>. HIDE DEF m, states
  <2>. QED BY <1>1, <1>3, RestTypes, BufferEventNumbers
<1>5. \A q \in Nodes \cup {Nil} : Adjacent(n, q, ToSet(chain)) /\ q # m => WillSync(n, q)
  BY SuccessorElse
<1>6. \A k \in Nodes :
        /\ k # n /\ replicator[k] = "send" => replicator'[k] = "send"
        /\ replicator[k] = "stopped" => replicator'[k] = "stopped"
  BY <1>0, <1>4, RestTypes
<1>. HIDE DEF WillSync, m, states
<1>. QED BY <1>0, <1>2, <1>4, <1>5, <1>6, HandedOver

LEMMA ReplicateToDeadAccounts ==
  ASSUME RestInv, NEW n \in Nodes, ReplicateToDead(n)
  PROVE  AccountInv'
<1>0. /\ UNCHANGED <<events, nextEventSeq, eventQueue, nextAckSeq, ackQueue,
                     ackProcessor, lateEvents, lateAcks, handler, down,
                     chain, jobs, pendingSyncs, sync>>
      /\ outgoing' = [outgoing EXCEPT ![n] = {}]
      /\ replicator[n] = "send" /\ successor[n] # Nil /\ successor[n] \in down
      /\ replicator' = [replicator EXCEPT ![n] = "scan"]
  BY DEF ReplicateToDead, IsTail, ackVars, clientVars, reconfigurationVars
<1>1. \A q \in (Nodes \cup {Nil}) \ down :
        Adjacent(n, q, ToSet(chain)) => WillSync(n, q)
  BY <1>0, SuccessorElse
<1>2. Nil \notin down
  BY AccountFacts DEF RestInv, IInv, ReconfigurationTypeOK, TypeOK
<1>3. \A k \in Nodes :
        /\ k # n /\ replicator[k] = "send" => replicator'[k] = "send"
        /\ replicator[k] = "stopped" => replicator'[k] = "stopped"
        /\ \A f \in eventQueue[k] : Numbered(eventQueue'[k], f.seq)
  BY <1>0, RestTypes DEF Numbered
<1>. HIDE DEF WillSync
<1>. QED BY <1>0, <1>1, <1>2, <1>3, HandedOver

(* Its other steps. *)
LEMMA ReplicatorWaitsAccounts ==
  ASSUME RestInv, NEW n \in Nodes,
         \/ FindNoEvent(n) /\ UNCHANGED reconfigurationVars
         \/ BlockReplicator(n) /\ UNCHANGED reconfigurationVars
         \/ StopReplicator(n)
  PROVE  AccountInv'
<1>1. /\ UNCHANGED <<events, nextEventSeq, eventQueue, outgoing, lateEvents,
                     nextAckSeq, ackQueue, ackProcessor, lateAcks, handler, down,
                     chain, jobs, pendingSyncs, sync>>
      /\ replicator[n] \in {"scan", "park"}
      /\ \E pc : replicator' = [replicator EXCEPT ![n] = pc]
  BY DEF FindNoEvent, BlockReplicator, StopReplicator, ackVars, clientVars,
         reconfigurationVars
<1>2. \A k \in Nodes :
        /\ replicator[k] = "send" => replicator'[k] = "send"
        /\ replicator[k] = "stopped" => replicator'[k] = "stopped"
        /\ \A f \in eventQueue[k] : Numbered(eventQueue'[k], f.seq)
  BY <1>1, RestTypes DEF Numbered
<1>. QED BY <1>1, <1>2, QuietStep

(* The ACK processor waits, or goes on with the number it has.             *)
LEMMA ProcessorGoesOnAccounts ==
  ASSUME RestInv, NEW n \in Nodes,
         \/ FindNoAck(n) /\ UNCHANGED reconfigurationVars
         \/ BlockAckProcessor(n) /\ UNCHANGED reconfigurationVars
         \/ ConfirmAck(n) /\ UNCHANGED reconfigurationVars
         \/ Apply(n) /\ UNCHANGED reconfigurationVars
         \/ StopAckProcessor(n)
  PROVE  AccountInv'
<1>1. /\ UNCHANGED <<events, nextEventSeq, eventQueue, outgoing, replicator,
                     lateEvents, nextAckSeq, ackQueue, lateAcks, handler,
                     chain, jobs, pendingSyncs, sync>>
      /\ down \subseteq down'
      /\ \E pc : /\ ackProcessor' = [ackProcessor EXCEPT ![n] = pc]
                 /\ Holds(ackProcessor[n]) => Holds(pc)
  BY DEF FindNoAck, BlockAckProcessor, ConfirmAck, Apply, StopAckProcessor,
         eventVars, clientVars, reconfigurationVars, Holds
<1>2. \A k \in Nodes :
        /\ \A f \in eventQueue[k] : Numbered(eventQueue'[k], f.seq)
        /\ Holds(ackProcessor[k]) => Holds(ackProcessor'[k])
  BY <1>1, RestTypes DEF Numbered
<1>. QED BY <1>1, <1>2, QuietStep

(* It takes the next number, which counts from now on as passed by n.      *)
LEMMA TakeNextAckAccounts ==
  ASSUME RestInv, NEW n \in Nodes, TakeNextAck(n), UNCHANGED reconfigurationVars
  PROVE  AccountInv'
<1>1. /\ UNCHANGED <<events, nextEventSeq, eventQueue, outgoing, replicator,
                     lateEvents, lateAcks, handler, down,
                     chain, jobs, pendingSyncs, sync>>
      /\ ackProcessor[n] = "scan"
  BY DEF TakeNextAck, eventVars, clientVars, reconfigurationVars
<1>2. /\ nextAckSeq'[n] = nextAckSeq[n] + 1 /\ nextAckSeq[n] \in Nat
      /\ ackQueue'[n] = ackQueue[n] \ {nextAckSeq[n]}
      /\ ackProcessor'[n] = "confirm"
      /\ \A k \in Nodes : k # n => /\ nextAckSeq'[k] = nextAckSeq[k]
                                   /\ ackQueue'[k] = ackQueue[k]
                                   /\ ackProcessor'[k] = ackProcessor[k]
  BY RestTypes DEF TakeNextAck
<1>3. NothingLate' /\ HandsInv' /\ NumberedInv'
  BY <1>1 DEF RestInv, AccountInv, NothingLate, HandsInv, NumberedInv
<1>4. PairsInv'
  <2>. SUFFICES ASSUME NEW p \in Nodes \ down
       PROVE  /\ Adjacent(p, Nil, ToSet(chain)) =>
                   \A s \in nextAckSeq'[p]..nextEventSeq[p] - 1 : TailOnWay(p, s)'
              /\ \A q \in Nodes \ down : Adjacent(p, q, ToSet(chain)) =>
                   /\ \A s \in nextEventSeq[q]..nextEventSeq[p] - 1 :
                        EventOnWay(p, q, s)'
                   /\ \A s \in nextAckSeq'[p]..nextAckSeq'[q] - 1 :
                        AckOnWay(p, q, s)'
    BY <1>1 DEF PairsInv
  <2>1. ASSUME Adjacent(p, Nil, ToSet(chain)),
               NEW s \in nextAckSeq'[p]..nextEventSeq[p] - 1
        PROVE  TailOnWay(p, s)'
    <3>1. /\ s \in nextAckSeq[p]..nextEventSeq[p] - 1
          /\ p = n => s # nextAckSeq[n]
      BY <1>2, AccountFacts
    <3>2. TailOnWay(p, s)
      BY <2>1, <3>1 DEF RestInv, AccountInv, PairsInv
    <3>. QED BY <1>1, <1>2, <3>1, <3>2 DEF TailOnWay, WillSync
  <2>2. ASSUME NEW q \in Nodes \ down, Adjacent(p, q, ToSet(chain))
        PROVE  /\ \A s \in nextEventSeq[q]..nextEventSeq[p] - 1 : EventOnWay(p, q, s)'
               /\ \A s \in nextAckSeq'[p]..nextAckSeq'[q] - 1 : AckOnWay(p, q, s)'
    <3>0. p # q
      BY <2>2, AccountFacts
    <3>1. ASSUME NEW s \in nextEventSeq[q]..nextEventSeq[p] - 1
          PROVE  EventOnWay(p, q, s)'
      <4>1. EventOnWay(p, q, s)
        BY <2>2 DEF RestInv, AccountInv, PairsInv
      <4>. QED BY <1>1, <4>1 DEF EventOnWay, WillSync
    <3>2. ASSUME NEW s \in nextAckSeq'[p]..nextAckSeq'[q] - 1
          PROVE  AckOnWay(p, q, s)'
      <4>1. CASE q = n /\ s = nextAckSeq[n]
        <5>1. Holds(ackProcessor'[q]) /\ s = nextAckSeq'[q] - 1
          BY <1>2, <4>1 DEF Holds
        <5>. QED BY <5>1 DEF AckOnWay, AckSeq
      <4>2. CASE ~(q = n /\ s = nextAckSeq[n])
        <5>1. /\ s \in nextAckSeq[p]..nextAckSeq[q] - 1
              /\ p = n => s # nextAckSeq[n]
          BY <1>2, <3>0, <4>2, AccountFacts
        <5>2. AckOnWay(p, q, s)
          BY <2>2, <5>1 DEF RestInv, AccountInv, PairsInv
        <5>. QED BY <1>1, <1>2, <3>0, <5>1, <5>2
             DEF AckOnWay, WillSync, AckSeq, Holds
      <4>. QED BY <4>1, <4>2
    <3>. QED BY <3>1, <3>2
  <2>. QED BY <2>1, <2>2
<1>. QED BY <1>3, <1>4 DEF AccountInv

(* It lets go of the number: the node before has it, or will learn it from *)
(* a synchronisation.                                                      *)
LEMMA AckHandedOver ==
  ASSUME RestInv, NEW n \in Nodes,
         UNCHANGED <<events, nextEventSeq, eventQueue, outgoing, replicator,
                     lateEvents, nextAckSeq, lateAcks, handler,
                     chain, jobs, pendingSyncs, sync>>,
         down \subseteq down',
         \A k \in Nodes :
           /\ ackQueue[k] \subseteq ackQueue'[k]
           /\ k # n /\ Holds(ackProcessor[k]) => Holds(ackProcessor'[k]),
         \A p \in Nodes \ down' : Adjacent(p, n, ToSet(chain)) =>
           \/ WillSync(p, n)
           \/ AckSeq(n) < nextAckSeq[p]
           \/ AckSeq(n) \in ackQueue'[p]
  PROVE  AccountInv'
<1>1. NothingLate' /\ HandsInv' /\ NumberedInv'
  BY DEF RestInv, AccountInv, NothingLate, HandsInv, NumberedInv
<1>2. PairsInv'
  <2>1. \A p \in Nodes : \A s : TailOnWay(p, s) => TailOnWay(p, s)'
    BY DEF TailOnWay, WillSync
  <2>2. \A p, q \in Nodes : \A s : EventOnWay(p, q, s) => EventOnWay(p, q, s)'
    BY DEF EventOnWay, WillSync
  <2>3. ASSUME NEW p \in Nodes \ down', NEW q \in Nodes \ down',
               Adjacent(p, q, ToSet(chain)),
               NEW s \in nextAckSeq[p]..nextAckSeq[q] - 1, AckOnWay(p, q, s)
        PROVE  AckOnWay(p, q, s)'
    <3>1. CASE q = n /\ s = AckSeq(n)
      <4>1. ~(s < nextAckSeq[p])
        BY <2>3, AccountFacts
      <4>2. WillSync(p, n) \/ s \in ackQueue'[p]
        BY <2>3, <3>1, <4>1
      <4>. QED BY <3>1, <4>2 DEF AckOnWay, WillSync
    <3>2. CASE ~(q = n /\ s = AckSeq(n))
      BY <2>3, <3>2 DEF AckOnWay, WillSync, AckSeq
    <3>. QED BY <3>1, <3>2
  <2>4. PairsInv
    BY DEF RestInv, AccountInv
  <2>. QED BY <2>1, <2>2, <2>3, <2>4, PairsGoOn
<1>. QED BY <1>1, <1>2 DEF AccountInv

LEMMA SignalAtHeadAccounts ==
  ASSUME RestInv, NEW n \in Nodes, SignalAtHead(n), UNCHANGED reconfigurationVars
  PROVE  AccountInv'
<1>1. /\ UNCHANGED <<events, nextEventSeq, eventQueue, outgoing, replicator,
                     lateEvents, nextAckSeq, ackQueue, lateAcks, handler, down,
                     chain, jobs, pendingSyncs, sync>>
      /\ ackProcessor' = [ackProcessor EXCEPT ![n] = "scan"]
      /\ predecessor[n] = Nil
  BY DEF SignalAtHead, IsHead, eventVars, reconfigurationVars
<1>2. \A k \in Nodes : k # n => ackProcessor'[k] = ackProcessor[k]
  BY <1>1
<1>3. \A p \in Nodes : Adjacent(p, n, ToSet(chain)) => WillSync(p, n)
  BY <1>1, PredecessorElse, AccountFacts
<1>. HIDE DEF WillSync
<1>. QED BY <1>1, <1>2, <1>3, AckHandedOver

LEMMA AckToPredecessorAccounts ==
  ASSUME RestInv, NEW n \in Nodes, AckToPredecessor(n),
         UNCHANGED reconfigurationVars
  PROVE  AccountInv'
<1>. DEFINE m == predecessor[n]
            states == [ackProcessor EXCEPT ![n] = "scan"]
<1>1. /\ UNCHANGED <<events, nextEventSeq, eventQueue, outgoing, replicator,
                     lateEvents, nextAckSeq, lateAcks, handler,
                     chain, jobs, pendingSyncs, sync>>
      /\ m # Nil /\ BufferAck(m, AckSeq(n), states)
  BY DEF AckToPredecessor, IsHead, eventVars, clientVars, reconfigurationVars
<1>2. m \in Nodes /\ states \in [Nodes -> AckProcessorStates]
      /\ \A k \in Nodes : k # n => states[k] = ackProcessor[k]
  BY <1>1, RestTypes DEF TypeOK, AckProcessorStates
<1>3. /\ \A k \in Nodes : /\ ackQueue[k] \subseteq ackQueue'[k]
                          /\ Holds(states[k]) <=> Holds(ackProcessor'[k])
      /\ down \subseteq down'
      /\ m \in down' \/ AckSeq(n) < nextAckSeq[m] \/ AckSeq(n) \in ackQueue'[m]
  <2>. HIDE DEF m, states
  <2>. QED BY <1>1, <1>2, RestTypes, BufferAckNumbers
<1>4. \A p \in Nodes : Adjacent(p, n, ToSet(chain)) /\ p # m => WillSync(p, n)
  BY PredecessorElse
<1>. HIDE DEF WillSync, m, states
<1>. QED BY <1>1, <1>2, <1>3, <1>4, AckHandedOver

LEMMA AckToDeadAccounts ==
  ASSUME RestInv, NEW n \in Nodes, AckToDead(n)
  PROVE  AccountInv'
<1>1. /\ UNCHANGED <<events, nextEventSeq, eventQueue, outgoing, replicator,
                     lateEvents, nextAckSeq, ackQueue, lateAcks, handler, down,
                     chain, jobs, pendingSyncs, sync>>
      /\ ackProcessor' = [ackProcessor EXCEPT ![n] = "scan"]
      /\ predecessor[n] \in down
  BY DEF AckToDead, eventVars, clientVars, reconfigurationVars
<1>2. \A k \in Nodes : k # n => ackProcessor'[k] = ackProcessor[k]
  BY <1>1
<1>3. \A p \in Nodes \ down : Adjacent(p, n, ToSet(chain)) => WillSync(p, n)
  BY <1>1, PredecessorElse
<1>. HIDE DEF WillSync
<1>. QED BY <1>1, <1>2, <1>3, AckHandedOver

(* Without timeouts there is no fault. *)
LEMMA NoFault ==
  ASSUME RestInv, MaxFaults = 0
  PROVE  ~Fault
<1>1. lateEvents = {} /\ lateAcks = {}
  BY DEF RestInv, AccountInv, NothingLate
<1>2. ~(faults < MaxFaults)
  BY RestTypes DEF TypeOK
<1>. QED BY <1>1, <1>2 DEF Fault, ReplicateTimesOut, AckTimesOut

-----------------------------------------------------------------------------
(* Synchronisations. *)

(* A node synchronises with its neighbour in the chain, and only there.    *)
LEMMA SyncWithNeighbour ==
  ASSUME RestInv, NEW n \in Nodes, sync[n].pc # "idle",
         NEW q, Adjacent(n, q, ToSet(chain))
  PROVE  sync[n].succ = q
<1>1. Adjacent(n, sync[n].succ, ToSet(chain))
  BY DEF RestInv, WiredInv, PendingInv
<1>. HIDE DEF Adjacent
<1>. QED BY <1>1, PendingUnique DEF RestInv

(* A step of the goroutine that synchronises node n.                       *)
LEMMA SyncGoesOn ==
  ASSUME RestInv, NEW n \in Nodes,
         UNCHANGED <<events, nextEventSeq, outgoing, lateEvents, nextAckSeq,
                     lateAcks, handler, chain, jobs>>,
         down \subseteq down',
         \A k \in Nodes :
           /\ replicator[k] = "send" /\ (k # n \/ outgoing[n] # {}) =>
                replicator'[k] = "send"
           /\ sync'[k].pc \in {"query", "sync"} => replicator'[k] = "stopped"
           /\ \A e \in eventQueue[k] : Numbered(eventQueue'[k], e.seq)
           /\ ackQueue[k] \subseteq ackQueue'[k]
           /\ Holds(ackProcessor[k]) => Holds(ackProcessor'[k])
           /\ k # n => sync'[k] = sync[k],
         \A s \in pendingSyncs : s \in pendingSyncs' \/ s.node = n,
         n \notin down' /\ Adjacent(n, Nil, ToSet(chain)) =>
           \A s \in nextAckSeq[n]..nextEventSeq[n] - 1 :
             TailOnWay(n, s) => TailOnWay(n, s)',
         \A q \in Nodes \ down' : n \notin down' /\ Adjacent(n, q, ToSet(chain)) =>
           /\ \A s \in nextEventSeq[q]..nextEventSeq[n] - 1 :
                EventOnWay(n, q, s) => EventOnWay(n, q, s)'
           /\ \A s \in nextAckSeq[n]..nextAckSeq[q] - 1 :
                AckOnWay(n, q, s) => AckOnWay(n, q, s)'
  PROVE  AccountInv'
<1>1. NothingLate'
  BY DEF RestInv, AccountInv, NothingLate
<1>2. HandsInv'
  BY DEF RestInv, AccountInv, HandsInv
<1>3. NumberedInv'
  BY AccountFacts, NumberedFrame DEF RestInv, AccountInv
<1>4. PairsInv'
  <2>1. \A p \in Nodes : p # n => \A s : TailOnWay(p, s) => TailOnWay(p, s)'
    BY DEF TailOnWay, WillSync
  <2>2. \A p, q \in Nodes : p # n => \A s : EventOnWay(p, q, s) => EventOnWay(p, q, s)'
    BY DEF EventOnWay, WillSync, Numbered
  <2>3. \A p, q \in Nodes : p # n => \A s : AckOnWay(p, q, s) => AckOnWay(p, q, s)'
    BY DEF AckOnWay, WillSync, AckSeq
  <2>4. PairsInv
    BY DEF RestInv, AccountInv
  <2>5. /\ \A p \in Nodes \ down' : Adjacent(p, Nil, ToSet(chain)) =>
             \A s \in nextAckSeq[p]..nextEventSeq[p] - 1 :
               TailOnWay(p, s) => TailOnWay(p, s)'
        /\ \A p, q \in Nodes \ down' : Adjacent(p, q, ToSet(chain)) =>
             /\ \A s \in nextEventSeq[q]..nextEventSeq[p] - 1 :
                  EventOnWay(p, q, s) => EventOnWay(p, q, s)'
             /\ \A s \in nextAckSeq[p]..nextAckSeq[q] - 1 :
                  AckOnWay(p, q, s) => AckOnWay(p, q, s)'
    <3>. HIDE DEF TailOnWay, EventOnWay, AckOnWay, Adjacent
    <3>. QED BY <2>1, <2>2, <2>3
  <2>. QED BY <2>4, <2>5, PairsGoOn
<1>. QED BY <1>1, <1>2, <1>3, <1>4 DEF AccountInv

LEMMA BeginSyncAccounts ==
  ASSUME RestInv, NEW s \in pendingSyncs, BeginSync(s)
  PROVE  AccountInv'
<1>. PICK n : n = s.node
  OBVIOUS
<1>1. n \in Nodes /\ Adjacent(n, s.succ, ToSet(chain))
  BY DEF RestInv, WiredInv, PendingInv, IInv, ReconfigurationTypeOK,
         ReconfigurationTypes
<1>2. /\ UNCHANGED <<events, nextEventSeq, eventQueue, outgoing, lateEvents,
                     nextAckSeq, ackQueue, ackProcessor, lateAcks, handler,
                     down, chain, jobs>>
      /\ pendingSyncs' = pendingSyncs \ {s}
      /\ sync[n].pc = "idle"
      /\ sync'[n].pc = "stopping" /\ sync'[n].succ = s.succ
      /\ \A k \in Nodes : k # n => sync'[k] = sync[k]
      /\ replicator' = [replicator EXCEPT ![n] = IF @ = "wait" THEN "stopped" ELSE @]
  BY <1>1, RestTypes DEF BeginSync, ackVars, clientVars, NoSync
<1>3. \A k \in Nodes :
        /\ replicator[k] = "send" => replicator'[k] = "send"
        /\ sync'[k].pc \in {"query", "sync"} => replicator'[k] = "stopped"
        /\ \A e \in eventQueue[k] : Numbered(eventQueue'[k], e.seq)
  BY <1>2, RestTypes DEF Numbered, RestInv, AccountInv, HandsInv
<1>4. \A q : Adjacent(n, q, ToSet(chain)) => q = s.succ
  <2>. HIDE DEF Adjacent
  <2>. QED BY <1>1, PendingUnique DEF RestInv
<1>5. \A q : Adjacent(n, q, ToSet(chain)) => WillSync(n, q)'
  BY <1>2, <1>4 DEF WillSync
<1>6. /\ Adjacent(n, Nil, ToSet(chain)) => \A t : TailOnWay(n, t)'
      /\ \A q \in Nodes : Adjacent(n, q, ToSet(chain)) =>
           \A t : EventOnWay(n, q, t)' /\ AckOnWay(n, q, t)'
  BY <1>5 DEF TailOnWay, EventOnWay, AckOnWay
<1>. HIDE DEF TailOnWay, EventOnWay, AckOnWay, Adjacent
<1>. QED BY <1>1, <1>2, <1>3, <1>6, SyncGoesOn

(* A new TAIL acknowledges everything that it has passed.                  *)
LEMMA InstallSuccessorAccounts ==
  ASSUME RestInv, NEW n \in Nodes, InstallSuccessor(n)
  PROVE  AccountInv'
<1>1. /\ UNCHANGED <<events, nextEventSeq, eventQueue, replicator, outgoing,
                     lateEvents, nextAckSeq, ackQueue, ackProcessor, lateAcks,
                     handler, down, chain, jobs, pendingSyncs>>
      /\ sync[n].pc = "stopping" /\ replicator[n] = "stopped"
      /\ sync'[n].succ = sync[n].succ
      /\ sync[n].succ # Nil => sync'[n].pc = "query"
      /\ sync[n].succ = Nil => /\ sync'[n].pc = "sync"
                               /\ sync'[n].ack = lastConfirmed[n] + 1
                               /\ sync'[n].lastAck = Len(events[n]) - 1
      /\ \A k \in Nodes : k # n => sync'[k] = sync[k]
  BY RestTypes DEF InstallSuccessor, eventVars, ackVars, clientVars, SyncState
<1>2. \A k \in Nodes :
        /\ sync'[k].pc \in {"query", "sync"} => replicator'[k] = "stopped"
        /\ \A e \in eventQueue[k] : Numbered(eventQueue'[k], e.seq)
  BY <1>1 DEF Numbered, RestInv, AccountInv, HandsInv
<1>3. ASSUME Adjacent(n, Nil, ToSet(chain)),
             NEW s \in nextAckSeq[n]..nextEventSeq[n] - 1
      PROVE  TailOnWay(n, s)'
  <2>1. sync[n].succ = Nil
    BY <1>1, <1>3, SyncWithNeighbour
  <2>2. lastConfirmed[n] + 1 <= nextAckSeq[n]
    BY AccountFacts DEF RestInv, IInv, ConfirmInv
  <2>3. /\ lastConfirmed[n] + 1 <= s /\ s <= Len(events[n]) - 1
    <3>1. lastConfirmed[n] \in Nat \cup {-1}
      BY NodeTypes DEF RestInv, IInv, ReconfigurationTypeOK
    <3>. QED BY <2>2, <3>1, AccountFacts
  <2>. QED BY <1>1, <2>1, <2>3 DEF TailOnWay
<1>4. ASSUME NEW q \in Nodes, Adjacent(n, q, ToSet(chain))
      PROVE  WillSync(n, q)'
  <2>1. sync[n].succ = q /\ q # Nil
    BY <1>1, <1>4, SyncWithNeighbour, AccountFacts
  <2>. QED BY <1>1, <2>1 DEF WillSync
<1>5. \A q \in Nodes : Adjacent(n, q, ToSet(chain)) =>
        \A s : EventOnWay(n, q, s)' /\ AckOnWay(n, q, s)'
  BY <1>4 DEF EventOnWay, AckOnWay
<1>. HIDE DEF TailOnWay, EventOnWay, AckOnWay, Adjacent
<1>. QED BY <1>1, <1>2, <1>3, <1>5, SyncGoesOn

(* The numbers of the successor say what it has not received, and what it  *)
(* has confirmed; its ACK processor has at most one number in hand.        *)
LEMMA QuerySuccessorAccounts ==
  ASSUME RestInv, NEW n \in Nodes, QuerySuccessor(n)
  PROVE  AccountInv'
<1>. DEFINE m == sync[n].succ
<1>1. /\ UNCHANGED <<events, nextEventSeq, eventQueue, replicator, outgoing,
                     lateEvents, nextAckSeq, ackQueue, ackProcessor, lateAcks,
                     handler, down, chain, jobs, pendingSyncs>>
      /\ sync[n].pc = "query"
      /\ sync'[n].succ = sync[n].succ /\ sync'[n].pc = "sync"
      /\ sync'[n].ack = lastConfirmed[n] + 1
      /\ sync'[n].lastAck = lastConfirmed[m]
      /\ sync'[n].event = Len(events[m])
      /\ sync'[n].lastEvent = Len(events[n]) - 1
      /\ \A k \in Nodes : k # n => sync'[k] = sync[k]
  BY RestTypes DEF QuerySuccessor, vars, SyncState
<1>2. \A k \in Nodes :
        /\ sync'[k].pc \in {"query", "sync"} => replicator'[k] = "stopped"
        /\ \A e \in eventQueue[k] : Numbered(eventQueue'[k], e.seq)
  BY <1>1 DEF Numbered, RestInv, AccountInv, HandsInv
<1>3. ~Adjacent(n, Nil, ToSet(chain))
  <2>1. sync[n].succ # Nil
    BY <1>1 DEF RestInv, IInv, SyncInv
  <2>. QED BY <1>1, <2>1, SyncWithNeighbour
<1>4. ASSUME NEW q \in Nodes, Adjacent(n, q, ToSet(chain))
      PROVE  /\ \A s \in nextEventSeq[q]..nextEventSeq[n] - 1 : EventOnWay(n, q, s)'
             /\ \A s \in nextAckSeq[n]..nextAckSeq[q] - 1 : AckOnWay(n, q, s)'
  <2>1. sync[n].succ = q /\ n < q
    BY <1>1, <1>4, SyncWithNeighbour, AccountFacts
  <2>2. nextEventSeq[q] = Len(events[q])
    <3>1. q # 1
      BY <2>1, AccountFacts
    <3>. QED BY <3>1 DEF RestInv, AccountInv, HandsInv
  <2>3. ASSUME NEW s \in nextEventSeq[q]..nextEventSeq[n] - 1
        PROVE  EventOnWay(n, q, s)'
    <3>1. Len(events[q]) <= s /\ s <= Len(events[n]) - 1
      BY <2>2, AccountFacts
    <3>. QED BY <1>1, <2>1, <3>1 DEF EventOnWay
  <2>4. ASSUME NEW s \in nextAckSeq[n]..nextAckSeq[q] - 1
        PROVE  AckOnWay(n, q, s)'
    <3>1. /\ lastConfirmed[n] = IF ackProcessor[n] = "confirm"
                                THEN nextAckSeq[n] - 2 ELSE nextAckSeq[n] - 1
          /\ lastConfirmed[q] = IF ackProcessor[q] = "confirm"
                                THEN nextAckSeq[q] - 2 ELSE nextAckSeq[q] - 1
      BY DEF RestInv, IInv, ConfirmInv
    <3>2. /\ s \in Nat /\ nextAckSeq[n] \in Nat /\ nextAckSeq[q] \in Nat
          /\ nextAckSeq[n] <= s /\ s <= nextAckSeq[q] - 1
      BY AccountFacts
    <3>3. lastConfirmed[n] + 1 <= s
      BY <3>1, <3>2
    <3>4. CASE s <= lastConfirmed[q]
      BY <1>1, <2>1, <3>3, <3>4 DEF AckOnWay
    <3>5. CASE ~(s <= lastConfirmed[q])
      <4>1. ackProcessor[q] = "confirm" /\ s = nextAckSeq[q] - 1
        BY <3>1, <3>2, <3>5
      <4>. QED BY <1>1, <4>1 DEF AckOnWay, AckSeq, Holds
    <3>. QED BY <3>4, <3>5
  <2>. QED BY <2>3, <2>4
<1>. HIDE DEF TailOnWay, EventOnWay, AckOnWay, Adjacent
<1>. QED BY <1>1, <1>2, <1>3, <1>4, SyncGoesOn

LEMMA SyncAckAccounts ==
  ASSUME RestInv, NEW n \in Nodes, SyncAck(n)
  PROVE  AccountInv'
<1>1. /\ UNCHANGED <<events, nextEventSeq, eventQueue, replicator, outgoing,
                     lateEvents, nextAckSeq, lateAcks, handler, chain, jobs,
                     pendingSyncs>>
      /\ sync[n].pc = "sync" /\ sync'[n].pc = "sync"
      /\ sync'[n].succ = sync[n].succ
      /\ sync'[n].ack = sync[n].ack + 1 /\ sync[n].ack \in Nat
      /\ sync'[n].lastAck = sync[n].lastAck
      /\ sync'[n].event = sync[n].event
      /\ sync'[n].lastEvent = sync[n].lastEvent
      /\ \A k \in Nodes : k # n => sync'[k] = sync[k]
      /\ BufferAck(n, sync[n].ack, ackProcessor)
  BY RestTypes DEF SyncAck, eventVars, clientVars, SyncState
<1>2. /\ \A k \in Nodes : /\ ackQueue[k] \subseteq ackQueue'[k]
                          /\ Holds(ackProcessor[k]) <=> Holds(ackProcessor'[k])
      /\ down \subseteq down'
      /\ n \in down' \/ sync[n].ack < nextAckSeq[n] \/ sync[n].ack \in ackQueue'[n]
  BY <1>1, RestTypes, BufferAckNumbers
<1>3. \A k \in Nodes :
        /\ sync'[k].pc \in {"query", "sync"} => replicator'[k] = "stopped"
        /\ \A e \in eventQueue[k] : Numbered(eventQueue'[k], e.seq)
  BY <1>1 DEF Numbered, RestInv, AccountInv, HandsInv
<1>4. ASSUME n \notin down', NEW s \in Nat, s >= nextAckSeq[n],
             sync[n].ack <= s
      PROVE  sync'[n].ack <= s \/ s \in ackQueue'[n]
  BY <1>1, <1>2, <1>4, AccountFacts
<1>5. ASSUME n \notin down', NEW s \in nextAckSeq[n]..nextEventSeq[n] - 1,
             TailOnWay(n, s)
      PROVE  TailOnWay(n, s)'
  <2>1. s \in Nat /\ s >= nextAckSeq[n]
    BY AccountFacts
  <2>. QED BY <1>1, <1>2, <1>4, <1>5, <2>1 DEF TailOnWay, WillSync
<1>6. ASSUME NEW q \in Nodes, NEW s, EventOnWay(n, q, s)
      PROVE  EventOnWay(n, q, s)'
  BY <1>1, <1>6 DEF EventOnWay, WillSync
<1>7. ASSUME n \notin down', NEW q \in Nodes,
             NEW s \in nextAckSeq[n]..nextAckSeq[q] - 1, AckOnWay(n, q, s)
      PROVE  AckOnWay(n, q, s)'
  <2>1. s \in Nat /\ s >= nextAckSeq[n]
    BY AccountFacts
  <2>. QED BY <1>1, <1>2, <1>4, <1>7, <2>1 DEF AckOnWay, WillSync, AckSeq
<1>. HIDE DEF TailOnWay, EventOnWay, AckOnWay, Adjacent
<1>. QED BY <1>1, <1>2, <1>3, <1>5, <1>6, <1>7, SyncGoesOn

LEMMA SyncEventAccounts ==
  ASSUME RestInv, NEW n \in Nodes, SyncEvent(n)
  PROVE  AccountInv'
<1>. DEFINE m == sync[n].succ
            e == [seq |-> sync[n].event, write |-> events[n][sync[n].event + 1]]
<1>1. /\ UNCHANGED <<events, nextEventSeq, outgoing, lateEvents, nextAckSeq,
                     ackQueue, ackProcessor, lateAcks, handler, down, chain,
                     jobs, pendingSyncs>>
      /\ sync[n].pc = "sync" /\ sync'[n].pc = "sync"
      /\ sync'[n].succ = sync[n].succ
      /\ sync'[n].event = sync[n].event + 1 /\ sync[n].event \in Nat
      /\ sync'[n].lastEvent = sync[n].lastEvent
      /\ sync'[n].ack = sync[n].ack
      /\ sync'[n].lastAck = sync[n].lastAck
      /\ \A k \in Nodes : k # n => sync'[k] = sync[k]
  BY RestTypes DEF SyncEvent, ackVars, clientVars, SyncState
<1>2. m \in Nodes
  <2>1. m # Nil
    BY DEF SyncEvent, RestInv, IInv, SyncInv
  <2>. QED BY <2>1, RestTypes DEF SyncState
<1>3. /\ \A k \in Nodes : \A f \in eventQueue[k] : Numbered(eventQueue'[k], f.seq)
      /\ m \in down \/ e.seq < nextEventSeq[m] \/ Numbered(eventQueue'[m], e.seq)
      /\ \A k \in Nodes : /\ replicator[k] = "send" <=> replicator'[k] = "send"
                          /\ replicator[k] = "stopped" => replicator'[k] = "stopped"
  <2>1. CASE m \in down
    BY <2>1 DEF SyncEvent, Numbered
  <2>2. CASE m \notin down
    <3>1. BufferEvent(m, e, replicator)
      BY <2>2 DEF SyncEvent
    <3>. HIDE DEF m, e
    <3>. QED BY <1>2, <3>1, RestTypes, BufferEventNumbers
  <2>. QED BY <2>1, <2>2
<1>4. \A k \in Nodes :
        sync'[k].pc \in {"query", "sync"} => replicator'[k] = "stopped"
  BY <1>1, <1>3 DEF RestInv, AccountInv, HandsInv
<1>5. ASSUME NEW s, TailOnWay(n, s) PROVE TailOnWay(n, s)'
  BY <1>1, <1>5 DEF TailOnWay, WillSync
<1>6. ASSUME NEW q \in Nodes \ down,
             NEW s \in nextEventSeq[q]..nextEventSeq[n] - 1, EventOnWay(n, q, s)
      PROVE  EventOnWay(n, q, s)'
  <2>1. s \in Nat /\ s >= nextEventSeq[q]
    BY AccountFacts
  <2>2. CASE q = m /\ s = sync[n].event
    <3>1. Numbered(eventQueue'[q], s)
      BY <1>3, <2>1, <2>2, AccountFacts
    <3>. QED BY <3>1 DEF EventOnWay
  <2>3. CASE ~(q = m /\ s = sync[n].event)
    <3>1. m = q /\ sync[n].event <= s => sync'[n].event <= s
      BY <1>1, <2>1, <2>3
    <3>. QED BY <1>1, <1>3, <1>6, <3>1 DEF EventOnWay, WillSync, Numbered
  <2>. QED BY <2>2, <2>3
<1>7. ASSUME NEW q \in Nodes, NEW s, AckOnWay(n, q, s)
      PROVE  AckOnWay(n, q, s)'
  BY <1>1, <1>7 DEF AckOnWay, WillSync, AckSeq
<1>. HIDE DEF TailOnWay, EventOnWay, AckOnWay, Adjacent
<1>. QED BY <1>1, <1>3, <1>4, <1>5, <1>6, <1>7, SyncGoesOn

(* A synchronisation that has ended has nothing left to send, or nobody to *)
(* send it to.                                                             *)
LEMMA EndSyncAccounts ==
  ASSUME RestInv, NEW n \in Nodes, EndSync(n)
  PROVE  AccountInv'
<1>1. /\ UNCHANGED <<events, nextEventSeq, eventQueue, outgoing, lateEvents,
                     nextAckSeq, ackQueue, ackProcessor, lateAcks, handler,
                     down, chain, jobs, pendingSyncs>>
      /\ \/ sync[n].pc = "query" /\ sync[n].succ \in down
         \/ /\ sync[n].pc = "sync"
            /\ sync[n].ack > sync[n].lastAck
            /\ sync[n].event > sync[n].lastEvent
      /\ sync'[n].pc = "idle"
      /\ \A k \in Nodes : k # n => sync'[k] = sync[k]
      /\ replicator' = [replicator EXCEPT ![n] = "scan"]
  BY RestTypes DEF EndSync, ackVars, clientVars, NoSync
<1>2. outgoing[n] = {}
  BY <1>1 DEF RestInv, AccountInv, HandsInv
<1>3. \A k \in Nodes :
        /\ replicator[k] = "send" /\ k # n => replicator'[k] = "send"
        /\ sync'[k].pc \in {"query", "sync"} => replicator'[k] = "stopped"
        /\ \A e \in eventQueue[k] : Numbered(eventQueue'[k], e.seq)
  BY <1>1, RestTypes DEF Numbered, RestInv, AccountInv, HandsInv
<1>4. /\ sync[n].ack \in Nat /\ sync[n].lastAck \in Nat \cup {-1}
      /\ sync[n].event \in Nat /\ sync[n].lastEvent \in Nat \cup {-1}
  BY RestTypes DEF SyncState, Sequence
<1>5. \A s \in Nat : /\ sync[n].ack > sync[n].lastAck =>
                          ~(sync[n].ack <= s /\ s <= sync[n].lastAck)
                     /\ sync[n].event > sync[n].lastEvent =>
                          ~(sync[n].event <= s /\ s <= sync[n].lastEvent)
  BY <1>4
<1>6. Nil \notin down
  BY AccountFacts, RestTypes DEF TypeOK
<1>7. ASSUME NEW s \in Nat, TailOnWay(n, s) PROVE TailOnWay(n, s)'
  BY <1>1, <1>5, <1>6, <1>7 DEF TailOnWay, WillSync
<1>8. ASSUME NEW q \in Nodes \ down, NEW s \in Nat
      PROVE  /\ EventOnWay(n, q, s) => EventOnWay(n, q, s)'
             /\ AckOnWay(n, q, s) => AckOnWay(n, q, s)'
  <2>1. EventOnWay(n, q, s) => EventOnWay(n, q, s)'
    BY <1>1, <1>5 DEF EventOnWay, WillSync
  <2>2. AckOnWay(n, q, s) => AckOnWay(n, q, s)'
    BY <1>1, <1>5 DEF AckOnWay, WillSync, AckSeq
  <2>. QED BY <2>1, <2>2
<1>9. /\ \A s \in nextAckSeq[n]..nextEventSeq[n] - 1 : s \in Nat
      /\ \A q \in Nodes : /\ \A s \in nextEventSeq[q]..nextEventSeq[n] - 1 : s \in Nat
                          /\ \A s \in nextAckSeq[n]..nextAckSeq[q] - 1 : s \in Nat
  BY AccountFacts
<1>. HIDE DEF TailOnWay, EventOnWay, AckOnWay, Adjacent
<1>. QED BY <1>1, <1>2, <1>3, <1>7, <1>8, <1>9, SyncGoesOn

-----------------------------------------------------------------------------
(* The control plane's calls. *)

(* A call that leaves the connection of two neighbours under way; a queue  *)
(* may be cleared only if there is one.                                    *)
LEMMA CallGoesOn ==
  ASSUME RestInv,
         UNCHANGED <<events, nextEventSeq, replicator, outgoing, lateEvents,
                     nextAckSeq, ackQueue, lateAcks, handler, down, chain, sync>>,
         \A k \in Nodes : Holds(ackProcessor[k]) => Holds(ackProcessor'[k]),
         \A e \in eventQueue[1] : Numbered(eventQueue'[1], e.seq),
         \A p \in Nodes \ down : \A q \in (Nodes \cup {Nil}) \ down :
           Adjacent(p, q, ToSet(chain)) /\ WillSync(p, q) => WillSync(p, q)',
         \A p, q \in Nodes \ down : Adjacent(p, q, ToSet(chain)) =>
           \/ WillSync(p, q)'
           \/ \A e \in eventQueue[q] : Numbered(eventQueue'[q], e.seq)
  PROVE  AccountInv'
<1>1. NothingLate'
  BY DEF RestInv, AccountInv, NothingLate
<1>2. HandsInv'
  BY DEF RestInv, AccountInv, HandsInv
<1>3. NumberedInv'
  BY NumberedFrame DEF RestInv, AccountInv
<1>4. PairsInv'
  <2>1. Nil \notin down
    BY AccountFacts, RestTypes DEF TypeOK
  <2>2. ASSUME NEW p \in Nodes \ down, Adjacent(p, Nil, ToSet(chain)), NEW s,
               TailOnWay(p, s)
        PROVE  TailOnWay(p, s)'
    <3>1. WillSync(p, Nil) => WillSync(p, Nil)'
      BY <2>1, <2>2
    <3>. HIDE DEF WillSync
    <3>. QED BY <2>2, <3>1 DEF TailOnWay
  <2>3. ASSUME NEW p \in Nodes \ down, NEW q \in Nodes \ down,
               Adjacent(p, q, ToSet(chain)), NEW s
        PROVE  /\ EventOnWay(p, q, s) => EventOnWay(p, q, s)'
               /\ AckOnWay(p, q, s) => AckOnWay(p, q, s)'
    <3>1. /\ WillSync(p, q) => WillSync(p, q)'
          /\ WillSync(p, q)' \/ \A e \in eventQueue[q] : Numbered(eventQueue'[q], e.seq)
      BY <2>3
    <3>2. EventOnWay(p, q, s) => EventOnWay(p, q, s)'
      <4>. HIDE DEF WillSync
      <4>. QED BY <2>3, <3>1 DEF EventOnWay, Numbered
    <3>3. AckOnWay(p, q, s) => AckOnWay(p, q, s)'
      <4>. HIDE DEF WillSync
      <4>. QED BY <2>3, <3>1 DEF AckOnWay, AckSeq
    <3>. QED BY <3>2, <3>3
  <2>4. PairsInv
    BY DEF RestInv, AccountInv
  <2>. HIDE DEF TailOnWay, EventOnWay, AckOnWay, Adjacent
  <2>. QED BY <2>2, <2>3, <2>4, PairsGoOn
<1>. QED BY <1>1, <1>2, <1>3, <1>4 DEF AccountInv

LEMMA BeginSetPredecessorAccounts ==
  ASSUME RestInv, NEW j \in jobs, BeginSetPredecessor(j)
  PROVE  AccountInv'
<1>. PICK i : i = [j EXCEPT !.pc = "stopping"]
  OBVIOUS
<1>1. j \in JobState
  BY JobIsOK DEF RestInv
<1>2. /\ UNCHANGED <<events, nextEventSeq, eventQueue, replicator, outgoing,
                     lateEvents, nextAckSeq, ackQueue, lateAcks, handler, down,
                     chain, pendingSyncs, sync>>
      /\ jobs' = (jobs \ {j}) \cup {i}
      /\ i.pred = j.pred /\ i.succ = j.succ
      /\ ackProcessor' = [ackProcessor EXCEPT
                            ![j.succ] = IF @ = "wait" THEN "stopped" ELSE @]
  BY <1>1 DEF BeginSetPredecessor, MoveJob, eventVars, clientVars, JobState
<1>3. \A k \in Nodes : Holds(ackProcessor[k]) => Holds(ackProcessor'[k])
  BY <1>2, RestTypes DEF Holds
<1>4. \A p \in Nodes : \A q : WillSync(p, q) => WillSync(p, q)'
  BY <1>2 DEF WillSync
<1>5. \A k : \A e \in eventQueue[k] : Numbered(eventQueue'[k], e.seq)
  BY <1>2 DEF Numbered
<1>. HIDE DEF WillSync, Adjacent
<1>. QED BY <1>2, <1>3, <1>4, <1>5, CallGoesOn

(* The queue that is cleared will be filled again.                         *)
LEMMA InstallPredecessorAccounts ==
  ASSUME RestInv, NEW j \in jobs, InstallPredecessor(j)
  PROVE  AccountInv'
<1>. PICK i : i = [j EXCEPT !.pc = "succ"]
  OBVIOUS
<1>1. /\ j \in JobState /\ j.succ \in Nodes
      /\ Adjacent(j.pred, j.succ, ToSet(chain))
  <2>1. j \in JobState /\ j.succ # Nil
    BY JobIsOK DEF JobOK, InstallPredecessor, RestInv
  <2>2. Adjacent(j.pred, j.succ, ToSet(chain))
    BY DEF RestInv, WiredInv, PendingInv
  <2>. QED BY <2>1, <2>2 DEF JobState
<1>2. /\ UNCHANGED <<events, nextEventSeq, replicator, outgoing, lateEvents,
                     nextAckSeq, ackQueue, lateAcks, handler, down,
                     chain, pendingSyncs, sync>>
      /\ eventQueue' = IF j.pred = Nil THEN eventQueue
                       ELSE [eventQueue EXCEPT ![j.succ] = {}]
      /\ jobs' = IF j.pred = Nil THEN jobs \ {j} ELSE (jobs \ {j}) \cup {i}
      /\ i.pred = j.pred /\ i.succ = j.succ
      /\ ackProcessor[j.succ] = "stopped"
      /\ ackProcessor' = [ackProcessor EXCEPT ![j.succ] = "scan"]
  BY <1>1 DEF InstallPredecessor, MoveJob, clientVars, JobState
<1>3. \A k \in Nodes : Holds(ackProcessor[k]) => Holds(ackProcessor'[k])
  BY <1>2, RestTypes DEF Holds
<1>4. \A p \in Nodes : \A q : WillSync(p, q) => WillSync(p, q)'
  BY <1>2, AccountFacts DEF WillSync
<1>5. \A k \in Nodes : k # j.succ \/ j.pred = Nil =>
        \A e \in eventQueue[k] : Numbered(eventQueue'[k], e.seq)
  BY <1>2, RestTypes DEF Numbered
<1>6. \A e \in eventQueue[1] : Numbered(eventQueue'[1], e.seq)
  <2>1. j.pred # Nil => j.succ # 1
    <3>1. j.pred # Nil => j.pred \in Nodes /\ j.pred < j.succ
      BY <1>1, AccountFacts
    <3>2. j.pred # Nil => j.pred >= 1 /\ j.pred \in Nat /\ j.succ \in Nat
      BY <1>1, <3>1, AccountFacts
    <3>. QED BY <3>1, <3>2
  <2>. QED BY <1>5, <2>1, AccountFacts
<1>7. ASSUME NEW p \in Nodes, NEW q \in Nodes, Adjacent(p, q, ToSet(chain))
      PROVE  \/ WillSync(p, q)'
             \/ \A e \in eventQueue[q] : Numbered(eventQueue'[q], e.seq)
  <2>1. CASE q = j.succ /\ j.pred # Nil
    <3>1. p = j.pred
      BY <1>1, <1>7, <2>1, PendingUnique DEF RestInv
    <3>2. i \in jobs'
      BY <1>2, <2>1
    <3>. QED BY <1>2, <2>1, <3>1, <3>2 DEF WillSync
  <2>2. CASE ~(q = j.succ /\ j.pred # Nil)
    BY <1>5, <2>2
  <2>. QED BY <2>1, <2>2
<1>. HIDE DEF WillSync, Adjacent
<1>. QED BY <1>2, <1>3, <1>4, <1>6, <1>7, CallGoesOn

LEMMA CallSetSuccessorAccounts ==
  ASSUME RestInv, NEW j \in jobs, CallSetSuccessor(j)
  PROVE  AccountInv'
<1>. PICK s : s = [node |-> j.pred, succ |-> j.succ, epoch |-> j.epoch]
  OBVIOUS
<1>1. /\ UNCHANGED <<events, nextEventSeq, eventQueue, replicator, outgoing,
                     lateEvents, nextAckSeq, ackQueue, ackProcessor, lateAcks,
                     handler, down, chain, sync>>
      /\ jobs' = jobs \ {j}
      /\ pendingSyncs' = IF j.pred \in down THEN pendingSyncs
                         ELSE pendingSyncs \cup {s}
      /\ s.node = j.pred /\ s.succ = j.succ
  BY DEF CallSetSuccessor, vars
<1>2. \A p \in Nodes \ down : \A q : WillSync(p, q) => WillSync(p, q)'
  BY <1>1 DEF WillSync
<1>3. \A k : \A e \in eventQueue[k] : Numbered(eventQueue'[k], e.seq)
  BY <1>1 DEF Numbered
<1>. HIDE DEF WillSync, Adjacent
<1>. QED BY <1>1, <1>2, <1>3, CallGoesOn

-----------------------------------------------------------------------------
(* Nodes crash, leave and join. *)

LEMMA CrashOrStopAccounts ==
  ASSUME RestInv, NEW n \in Nodes, Crash(n) \/ Stop(n)
  PROVE  AccountInv'
<1>1. /\ UNCHANGED <<events, nextEventSeq, eventQueue, replicator, outgoing,
                     lateEvents, nextAckSeq, ackQueue, ackProcessor, lateAcks,
                     handler, chain, jobs, pendingSyncs, sync>>
      /\ down \subseteq down'
  BY DEF Crash, Stop, eventVars, ackVars, clientVars
<1>2. \A k \in Nodes : \A e \in eventQueue[k] : Numbered(eventQueue'[k], e.seq)
  BY <1>1 DEF Numbered
<1>. QED BY <1>1, <1>2, QuietStep

(* Before the change every node but the last has its successor.            *)
LEMMA UntouchedSuccessor ==
  ASSUME RestInv, Untouched, NEW p \in ToSet(chain)
  PROVE  Adjacent(p, successor[p], ToSet(chain))
<1>1. p \in Nodes /\ successor[p] \in Nodes \cup {Nil}
  BY MembersAreNumbers, RestTypes DEF RestInv, TypeOK
<1>2. \E q \in Nodes \cup {Nil} : Adjacent(p, q, ToSet(chain))
  <2>1. /\ ToSet(chain) = 1..Initial /\ Initial \in Nat
        /\ 1..Initial \subseteq Nodes
    BY HeadFacts DEF Untouched, RestInv, HInv
  <2>2. CASE p = Initial
    <3>1. Adjacent(p, Nil, ToSet(chain))
      BY <1>1, <2>1, <2>2, AccountFacts DEF Adjacent, Nil
    <3>. QED BY <3>1
  <2>3. CASE p # Initial
    <3>1. p \in 1..Initial /\ p + 1 \in 1..Initial
      BY <2>1, <2>3
    <3>2. Adjacent(p, p + 1, ToSet(chain))
      BY <2>1, <3>1 DEF Adjacent, Nil
    <3>. QED BY <2>1, <3>1, <3>2
  <2>. QED BY <2>2, <2>3
<1>3. PICK q \in Nodes \cup {Nil} : Adjacent(p, q, ToSet(chain))
  BY <1>2
<1>4. WillSucceed(p, q)
  BY <1>1, <1>3, AccountFacts DEF RestInv, WiredInv, RepairInv
<1>5. successor[p] = q
  BY <1>1, <1>4 DEF WillSucceed, Untouched
<1>. QED BY <1>3, <1>5

(* When nodes are taken out of the chain, the nodes that become neighbours *)
(* will be connected.                                                      *)
LEMMA RemovalAccounts ==
  ASSUME RestInv, WiredInv', Untouched, ToSet(chain') \subseteq ToSet(chain),
         jobs \subseteq jobs', UNCHANGED <<vars, pendingSyncs, sync>>
  PROVE  AccountInv'
<1>1. UNCHANGED <<events, nextEventSeq, eventQueue, replicator, outgoing,
                  lateEvents, nextAckSeq, ackQueue, ackProcessor, lateAcks,
                  handler, down, successor>>
  BY DEF vars
<1>2. NothingLate' /\ HandsInv' /\ NumberedInv'
  BY <1>1 DEF RestInv, AccountInv, NothingLate, HandsInv, NumberedInv
<1>3. ASSUME NEW p \in Nodes, NEW q \in Nodes \cup {Nil},
             Adjacent(p, q, ToSet(chain'))
      PROVE  Adjacent(p, q, ToSet(chain)) \/ WillSync(p, q)'
  <2>1. p \in ToSet(chain)
    BY <1>3, AccountFacts DEF Adjacent
  <2>2. WillSucceed(p, q)'
    BY <1>3, AccountFacts DEF WiredInv, RepairInv
  <2>3. successor[p] = q \/ WillSync(p, q)'
    BY <1>1, <2>2 DEF WillSucceed, WillSync
  <2>. QED BY <2>1, <2>3, UntouchedSuccessor
<1>4. \A p \in Nodes : \A s : TailOnWay(p, s) => TailOnWay(p, s)'
  BY <1>1 DEF TailOnWay, WillSync
<1>5. \A p, q \in Nodes : \A s : EventOnWay(p, q, s) => EventOnWay(p, q, s)'
  BY <1>1 DEF EventOnWay, WillSync
<1>6. \A p, q \in Nodes : \A s : AckOnWay(p, q, s) => AckOnWay(p, q, s)'
  BY <1>1 DEF AckOnWay, WillSync, AckSeq
<1>7. /\ \A p \in Nodes : WillSync(p, Nil)' => \A s : TailOnWay(p, s)'
      /\ \A p, q \in Nodes : WillSync(p, q)' =>
           \A s : EventOnWay(p, q, s)' /\ AckOnWay(p, q, s)'
  BY DEF TailOnWay, EventOnWay, AckOnWay
<1>8. PairsInv'
  <2>. SUFFICES ASSUME NEW p \in Nodes \ down
       PROVE  /\ Adjacent(p, Nil, ToSet(chain')) =>
                   \A s \in nextAckSeq[p]..nextEventSeq[p] - 1 : TailOnWay(p, s)'
              /\ \A q \in Nodes \ down : Adjacent(p, q, ToSet(chain')) =>
                   /\ \A s \in nextEventSeq[q]..nextEventSeq[p] - 1 :
                        EventOnWay(p, q, s)'
                   /\ \A s \in nextAckSeq[p]..nextAckSeq[q] - 1 :
                        AckOnWay(p, q, s)'
    BY <1>1 DEF PairsInv
  <2>. HIDE DEF TailOnWay, EventOnWay, AckOnWay, Adjacent, WillSync
  <2>. QED BY <1>3, <1>4, <1>5, <1>6, <1>7 DEF RestInv, AccountInv, PairsInv
<1>. QED BY <1>2, <1>8 DEF AccountInv

LEMMA LeaveAccounts ==
  ASSUME OneChange, RestInv, WiredInv', NEW n \in Nodes, Leave(n)
  PROVE  AccountInv'
<1>1. Untouched
  BY FirstChange DEF Leave, RestInv
<1>2. ToSet(chain') \subseteq ToSet(chain)
  <2>. DEFINE i == CHOOSE k \in DOMAIN chain : chain[k] = n
  <2>1. i \in DOMAIN chain /\ chain' = RemoveAt(chain, i)
    BY DEF Leave, ToSet
  <2>. HIDE DEF i
  <2>2. chain \in Seq(Nodes) /\ Increasing(chain)
    BY ChainFacts DEF RestInv
  <2>. QED BY <2>1, <2>2, RemoveAtProperties
<1>3. jobs \subseteq jobs' /\ UNCHANGED <<vars, pendingSyncs, sync>>
  BY DEF Leave
<1>. QED BY <1>1, <1>2, <1>3, RemovalAccounts

LEMMA RemoveDeadAccounts ==
  ASSUME RestInv, WiredInv', NEW dead \in SUBSET (stopped \cap ToSet(chain)),
         RemoveDead(dead)
  PROVE  AccountInv'
<1>1. Untouched
  BY DEF RestInv, WiredInv, Changed, RemoveDead
<1>2. ToSet(chain') \subseteq ToSet(chain)
  BY ChainFacts, WithoutProperties DEF RestInv, RemoveDead
<1>3. jobs \subseteq jobs' /\ UNCHANGED <<vars, pendingSyncs, sync>>
  BY DEF RemoveDead
<1>. QED BY <1>1, <1>2, <1>3, RemovalAccounts

(* The node that joins has passed nothing, and will be synchronised with.  *)
LEMMA JoinAccounts ==
  ASSUME OneChange, RestInv, WiredInv', NEW n \in Nodes, Join(n)
  PROVE  AccountInv'
<1>1. Untouched
  BY FirstChange DEF Join, RestInv
<1>2. /\ UNCHANGED <<events, nextEventSeq, eventQueue, replicator, outgoing,
                     lateEvents, nextAckSeq, ackQueue, ackProcessor, lateAcks,
                     handler, successor, jobs, sync>>
      /\ n = joined + 1 /\ chain' = Append(chain, n) /\ down' = down \ {n}
      /\ pendingSyncs \subseteq pendingSyncs'
  BY DEF Join, eventVars, ackVars, clientVars
<1>3. ToSet(chain') = ToSet(chain) \cup {n} /\ ToSet(chain) \subseteq 1..joined
      /\ joined \in Nat /\ joined >= 1
  <2>1. chain \in Seq(Nodes) /\ ToSet(chain) \subseteq 1..joined
    BY ChainFacts DEF RestInv, ToSet
  <2>2. joined \in Nat /\ joined >= 1
    BY HeadFacts DEF RestInv, HInv
  <2>. QED BY <1>2, <2>1, <2>2, AppendedToSet
<1>4. nextEventSeq[n] = 0
  <2>1. n # 1 /\ n > joined
    BY <1>2, <1>3
  <2>2. events[n] = <<>>
    BY <2>1 DEF RestInv, IInv, AbsentInv
  <2>. QED BY <2>1, <2>2 DEF RestInv, AccountInv, HandsInv
<1>5. NothingLate' /\ HandsInv' /\ NumberedInv'
  BY <1>2 DEF RestInv, AccountInv, NothingLate, HandsInv, NumberedInv
<1>6. ASSUME NEW p \in Nodes, NEW q \in Nodes \cup {Nil},
             Adjacent(p, q, ToSet(chain')), p # n
      PROVE  \/ Adjacent(p, q, ToSet(chain)) /\ q # n
             \/ WillSync(p, q)'
  <2>1. p \in ToSet(chain) /\ p < n
    <3>1. p \in ToSet(chain)
      BY <1>3, <1>6, AccountFacts DEF Adjacent
    <3>. QED BY <1>2, <1>3, <3>1
  <2>2. WillSucceed(p, q)'
    BY <1>6, AccountFacts DEF WiredInv, RepairInv
  <2>3. successor[p] = q \/ WillSync(p, q)'
    BY <1>2, <2>2 DEF WillSucceed, WillSync
  <2>4. Adjacent(p, q, ToSet(chain)) => q # n
    <3>1. n \notin ToSet(chain) /\ n # Nil
      BY <1>2, <1>3 DEF Nil
    <3>. QED BY <3>1 DEF Adjacent
  <2>. QED BY <1>1, <2>1, <2>3, <2>4, UntouchedSuccessor
<1>7. \A p \in Nodes : \A s : TailOnWay(p, s) => TailOnWay(p, s)'
  BY <1>2 DEF TailOnWay, WillSync
<1>8. \A p, q \in Nodes : \A s : EventOnWay(p, q, s) => EventOnWay(p, q, s)'
  BY <1>2 DEF EventOnWay, WillSync
<1>9. \A p, q \in Nodes : \A s : AckOnWay(p, q, s) => AckOnWay(p, q, s)'
  BY <1>2 DEF AckOnWay, WillSync, AckSeq
<1>10. /\ \A p \in Nodes : WillSync(p, Nil)' => \A s : TailOnWay(p, s)'
       /\ \A p, q \in Nodes : WillSync(p, q)' =>
            \A s : EventOnWay(p, q, s)' /\ AckOnWay(p, q, s)'
  BY DEF TailOnWay, EventOnWay, AckOnWay
<1>11. PairsInv'
  <2>. SUFFICES ASSUME NEW p \in Nodes \ down'
       PROVE  /\ Adjacent(p, Nil, ToSet(chain')) =>
                   \A s \in nextAckSeq[p]..nextEventSeq[p] - 1 : TailOnWay(p, s)'
              /\ \A q \in Nodes \ down' : Adjacent(p, q, ToSet(chain')) =>
                   /\ \A s \in nextEventSeq[q]..nextEventSeq[p] - 1 :
                        EventOnWay(p, q, s)'
                   /\ \A s \in nextAckSeq[p]..nextAckSeq[q] - 1 :
                        AckOnWay(p, q, s)'
    BY <1>2 DEF PairsInv
  <2>1. CASE p = n
    <3>1. \A s : s \notin nextAckSeq[p]..nextEventSeq[p] - 1
      BY <1>4, <2>1, AccountFacts
    <3>2. \A q \in Nodes : ~Adjacent(p, q, ToSet(chain'))
      <4>1. \A q \in Nodes : q \in ToSet(chain') => ~(n < q)
        BY <1>2, <1>3
      <4>. QED BY <2>1, <4>1, AccountFacts DEF Adjacent
    <3>. QED BY <3>1, <3>2
  <2>2. CASE p # n
    <3>1. p \notin down /\ \A q \in Nodes \ down' : q # n => q \notin down
      BY <1>2, <2>2
    <3>2. n # Nil
      BY AccountFacts
    <3>. HIDE DEF TailOnWay, EventOnWay, AckOnWay, Adjacent, WillSync
    <3>. QED BY <1>6, <1>7, <1>8, <1>9, <1>10, <2>2, <3>1, <3>2
         DEF RestInv, AccountInv, PairsInv
  <2>. QED BY <2>1, <2>2
<1>. QED BY <1>5, <1>11 DEF AccountInv

LEMMA InitAccountInv == InitReconfiguration => AccountInv
<1>. SUFFICES ASSUME InitReconfiguration PROVE AccountInv
  OBVIOUS
<1>1. /\ lateEvents = {} /\ lateAcks = {}
      /\ events = [k \in Nodes |-> <<>>] /\ nextEventSeq = [k \in Nodes |-> 0]
      /\ nextAckSeq = [k \in Nodes |-> 0] /\ outgoing = [k \in Nodes |-> {}]
      /\ sync = [k \in Nodes |-> NoSync] /\ 1 \in Nodes
  BY ChainAssumption DEF InitReconfiguration, EmptyNodes, NoRequests, Nodes
<1>2. NothingLate /\ HandsInv
  BY <1>1 DEF NothingLate, HandsInv, NoSync
<1>3. NumberedInv
  BY <1>1 DEF NumberedInv
<1>4. PairsInv
  <2>1. \A p \in Nodes : nextAckSeq[p] = 0 /\ nextEventSeq[p] = 0
    BY <1>1
  <2>2. \A s : s \notin 0..0 - 1
    OBVIOUS
  <2>. QED BY <2>1, <2>2 DEF PairsInv
<1>. QED BY <1>2, <1>3, <1>4 DEF AccountInv

LEMMA ReplicatorAccounts ==
  ASSUME RestInv, NEW n \in Nodes, ReplicatorGoroutine(n) PROVE AccountInv'
BY TakeNextEventAccounts, ReplicatorWaitsAccounts, ReplicateAtTailAccounts,
   ReplicateToSuccessorAccounts, ReplicateToDeadAccounts
DEF ReplicatorGoroutine, ReplicatorStep

LEMMA AckProcessorAccounts ==
  ASSUME RestInv, NEW n \in Nodes, AckProcessorGoroutine(n) PROVE AccountInv'
BY TakeNextAckAccounts, ProcessorGoesOnAccounts, SignalAtHeadAccounts,
   AckToPredecessorAccounts, AckToDeadAccounts
DEF AckProcessorGoroutine, AckProcessorStep

LEMMA SyncAccounts ==
  ASSUME RestInv, NEW n \in Nodes, SyncGoroutine(n) PROVE AccountInv'
BY BeginSyncAccounts, InstallSuccessorAccounts, QuerySuccessorAccounts,
   SyncAckAccounts, SyncEventAccounts, EndSyncAccounts
DEF SyncGoroutine

LEMMA NextAccountInv ==
  ASSUME OneChange, MaxFaults = 0
  PROVE  RestInv /\ WiredInv' /\ [NextReconfiguration]_allVars => AccountInv'
<1>. SUFFICES ASSUME RestInv, WiredInv', [NextReconfiguration]_allVars
     PROVE  AccountInv'
  OBVIOUS
<1>1. CASE ChainStep
  BY <1>1, HandleWriteAccounts, HandlerAccounts, NoFault DEF ChainStep
<1>2. CASE \E n \in Nodes : \/ ReplicatorGoroutine(n)
                            \/ AckProcessorGoroutine(n)
                            \/ SyncGoroutine(n)
  BY <1>2, ReplicatorAccounts, AckProcessorAccounts, SyncAccounts
<1>3. CASE \E p, s \in Nodes \cup {Nil} : JobStep(p, s)
  BY <1>3, BeginSetPredecessorAccounts, InstallPredecessorAccounts,
     CallSetSuccessorAccounts, SetPredecessorSucceeds DEF JobStep, RestInv
<1>4. CASE Membership
  BY <1>4, CrashOrStopAccounts, LeaveAccounts, RemoveDeadAccounts, JoinAccounts
  DEF Membership, Monitor
<1>5. CASE UNCHANGED allVars
  <2>1. UNCHANGED <<events, nextEventSeq, eventQueue, replicator, outgoing,
                    lateEvents, nextAckSeq, ackQueue, ackProcessor, lateAcks,
                    handler, down, chain, jobs, pendingSyncs, sync>>
    BY <1>5 DEF allVars, vars, reconfigurationVars
  <2>. QED BY <2>1, QuietStep DEF Numbered
<1>. QED BY <1>1, <1>2, <1>3, <1>4, <1>5 DEF NextReconfiguration

-----------------------------------------------------------------------------
(* At rest. *)

(* A set of numbers has a smallest one. *)
LEMMA SmallestNumber ==
  ASSUME NEW S \in SUBSET Nat, S # {}
  PROVE  \E i \in S : \A k \in S : i <= k
<1>1. PICK i \in S : \A k \in S : ~(<<k, i>> \in OpToRel(<, Nat))
  BY NatLessThanWellFounded, WFMin
<1>2. \A k \in S : ~(k < i)
  BY <1>1 DEF OpToRel
<1>. QED BY <1>2

(* At rest nothing is on its way any more, so every node has passed what   *)
(* its neighbours have.                                                    *)
LEMMA RestCounters ==
  ASSUME RestInv, AtRest
  PROVE  /\ nextEventSeq[1] = Len(events[1])
         /\ \A p, q \in ToSet(chain) : Adjacent(p, q, ToSet(chain)) =>
              nextEventSeq[q] >= nextEventSeq[p] /\ nextAckSeq[p] >= nextAckSeq[q]
         /\ \A p \in ToSet(chain) : Adjacent(p, Nil, ToSet(chain)) =>
              nextAckSeq[p] >= nextEventSeq[p]
<1>1. /\ jobs = {} /\ pendingSyncs = {}
      /\ \A n \in Nodes : sync[n].pc = "idle"
      /\ ToSet(chain) \cap down = {}
  BY DEF AtRest, Settled
<1>2. /\ ToSet(chain) \subseteq Nodes \ down /\ 1 \in ToSet(chain)
  <2>1. 1 \in 1..joined /\ 1 \notin Departed
    BY HeadFacts DEF RestInv, HInv, HeadInv
  <2>. QED BY <1>1, <2>1, MembersAreNumbers DEF RestInv, Departed
<1>3. \A n \in ToSet(chain) :
        /\ outgoing[n] = {}
        /\ ~Numbered(eventQueue[n], nextEventSeq[n])
        /\ ~Holds(ackProcessor[n])
        /\ nextAckSeq[n] \notin ackQueue[n]
  <2>. SUFFICES ASSUME NEW n \in ToSet(chain)
       PROVE  /\ outgoing[n] = {}
              /\ ~Numbered(eventQueue[n], nextEventSeq[n])
              /\ ~Holds(ackProcessor[n])
              /\ nextAckSeq[n] \notin ackQueue[n]
    OBVIOUS
  <2>1. /\ replicator[n] = "wait" /\ ~ReplicatorStranded(n)
        /\ ackProcessor[n] = "wait" /\ ~AckProcessorStranded(n)
    BY DEF AtRest
  <2>2. outgoing[n] = {}
    BY <1>2, <2>1 DEF RestInv, AccountInv, HandsInv
  <2>3. ~Numbered(eventQueue[n], nextEventSeq[n])
    BY <2>1 DEF ReplicatorStranded, NextEvents, Numbered
  <2>. QED BY <2>1, <2>2, <2>3 DEF AckProcessorStranded, Holds
<1>4. \A p \in ToSet(chain) : \A q : ~WillSync(p, q)
  BY <1>1, <1>2 DEF WillSync
<1>5. nextEventSeq[1] = Len(events[1])
  <2>. SUFFICES ASSUME nextEventSeq[1] # Len(events[1]) PROVE FALSE
    OBVIOUS
  <2>1. nextEventSeq[1] \in nextEventSeq[1]..Len(events[1]) - 1
    BY AccountFacts
  <2>2. \/ Numbered(eventQueue[1], nextEventSeq[1])
        \/ \E w \in Writes : handler[w].pc \in {"created", "open"}
    BY <2>1 DEF RestInv, AccountInv, NumberedInv
  <2>. QED BY <1>2, <1>3, <2>2 DEF AtRest
<1>6. ASSUME NEW p \in ToSet(chain), NEW q \in ToSet(chain),
             Adjacent(p, q, ToSet(chain))
      PROVE  nextEventSeq[q] >= nextEventSeq[p] /\ nextAckSeq[p] >= nextAckSeq[q]
  <2>1. /\ nextEventSeq[q] \in nextEventSeq[q]..nextEventSeq[p] - 1 =>
             EventOnWay(p, q, nextEventSeq[q])
        /\ nextAckSeq[p] \in nextAckSeq[p]..nextAckSeq[q] - 1 =>
             AckOnWay(p, q, nextAckSeq[p])
    BY <1>2, <1>6 DEF RestInv, AccountInv, PairsInv
  <2>2. ~EventOnWay(p, q, nextEventSeq[q])
    <3>1. ~Numbered(outgoing[p], nextEventSeq[q])
      BY <1>3 DEF Numbered
    <3>2. sync[p].pc = "idle"
      BY <1>1, <1>2
    <3>. HIDE DEF Numbered, WillSync
    <3>. QED BY <1>3, <1>4, <3>1, <3>2 DEF EventOnWay
  <2>3. ~AckOnWay(p, q, nextAckSeq[p])
    <3>1. sync[p].pc = "idle"
      BY <1>1, <1>2
    <3>. HIDE DEF WillSync
    <3>. QED BY <1>3, <1>4, <3>1 DEF AckOnWay
  <2>4. /\ nextEventSeq[p] \in Nat /\ nextEventSeq[q] \in Nat
        /\ nextAckSeq[p] \in Nat /\ nextAckSeq[q] \in Nat
    BY <1>2, AccountFacts
  <2>. QED BY <2>1, <2>2, <2>3, <2>4
<1>7. ASSUME NEW p \in ToSet(chain), Adjacent(p, Nil, ToSet(chain))
      PROVE  nextAckSeq[p] >= nextEventSeq[p]
  <2>1. nextAckSeq[p] \in nextAckSeq[p]..nextEventSeq[p] - 1 =>
          TailOnWay(p, nextAckSeq[p])
    BY <1>2, <1>7 DEF RestInv, AccountInv, PairsInv
  <2>2. ~TailOnWay(p, nextAckSeq[p])
    <3>1. sync[p].pc = "idle"
      BY <1>1, <1>2
    <3>. HIDE DEF WillSync
    <3>. QED BY <1>3, <1>4, <3>1 DEF TailOnWay, Numbered
  <2>3. nextEventSeq[p] \in Nat /\ nextAckSeq[p] \in Nat
    BY <1>2, AccountFacts
  <2>. QED BY <2>1, <2>2, <2>3
<1>. QED BY <1>5, <1>6, <1>7

(* What is so at one end of the chain, and goes over from a place to the   *)
(* next, is so everywhere: for the events from the HEAD on, ...            *)
LEMMA EventsEverywhere ==
  ASSUME RestInv, AtRest
  PROVE  /\ chain[1] = 1 /\ 1 \in DOMAIN chain
         /\ \A i \in DOMAIN chain : nextEventSeq[chain[i]] = Len(events[1])
<1>1. /\ DOMAIN chain = 1..Len(chain) /\ Len(chain) \in Nat
      /\ \A i \in DOMAIN chain : chain[i] \in Nodes /\ chain[i] \in ToSet(chain)
  BY ChainFacts DEF RestInv, ToSet
<1>2. chain[1] = 1 /\ 1 \in DOMAIN chain
  <2>1. 1 \in 1..joined /\ 1 \notin Departed
    BY HeadFacts DEF RestInv, HInv, HeadInv
  <2>2. PICK i \in DOMAIN chain : chain[i] = 1
    BY <2>1 DEF Departed, ToSet
  <2>3. 1 \in DOMAIN chain /\ ~(1 < i)
    <3>1. 1 \in DOMAIN chain
      BY <1>1
    <3>2. chain[1] \in Nat /\ chain[1] >= 1
      BY <1>1, <3>1, AccountFacts
    <3>. QED BY <2>2, <3>1, <3>2, PlacesInOrder DEF RestInv
  <2>. QED BY <1>1, <2>2, <2>3
<1>. DEFINE behind == {i \in DOMAIN chain : nextEventSeq[chain[i]] # Len(events[1])}
<1>3. behind = {}
  <2>. SUFFICES ASSUME behind # {} PROVE FALSE
    OBVIOUS
  <2>1. behind \in SUBSET Nat
    BY <1>1
  <2>2. PICK i \in behind : \A k \in behind : i <= k
    <3>. HIDE DEF behind
    <3>. QED BY <2>1, SmallestNumber
  <2>3. i # 1
    BY <1>2, RestCounters
  <2>4. i - 1 \in DOMAIN chain /\ Adjacent(chain[i - 1], chain[i], ToSet(chain))
    BY <2>3, PlacesAreAdjacent DEF RestInv
  <2>5. i - 1 \notin behind
    BY <1>1, <2>2
  <2>6. nextEventSeq[chain[i]] >= Len(events[1])
    BY <1>1, <2>4, <2>5, RestCounters
  <2>7. /\ nextEventSeq[chain[i]] \in Nat /\ Len(events[chain[i]]) \in Nat
        /\ nextEventSeq[chain[i]] <= Len(events[chain[i]])
        /\ Len(events[chain[i]]) <= Len(events[1]) /\ Len(events[1]) \in Nat
    BY <1>1, AccountFacts
  <2>. QED BY <2>6, <2>7
<1>. QED BY <1>2, <1>3

(* ... and for the ACKs from the TAIL on.                                  *)
LEMMA AcksEverywhere ==
  ASSUME RestInv, AtRest
  PROVE  \A i \in DOMAIN chain : nextAckSeq[chain[i]] = Len(events[1])
<1>1. /\ DOMAIN chain = 1..Len(chain) /\ Len(chain) \in Nat
      /\ \A i \in DOMAIN chain : chain[i] \in Nodes /\ chain[i] \in ToSet(chain)
      /\ Len(events[1]) \in Nat
  BY ChainFacts, AccountFacts DEF RestInv, ToSet
<1>. DEFINE behind == {d \in 0..Len(chain) - 1 :
                         nextAckSeq[chain[Len(chain) - d]] < Len(events[1])}
<1>2. behind = {}
  <2>. SUFFICES ASSUME behind # {} PROVE FALSE
    OBVIOUS
  <2>1. behind \in SUBSET Nat
    BY <1>1
  <2>2. PICK d \in behind : \A k \in behind : d <= k
    <3>. HIDE DEF behind
    <3>. QED BY <2>1, SmallestNumber
  <2>. PICK i : i = Len(chain) - d
    OBVIOUS
  <2>3. i \in DOMAIN chain /\ nextAckSeq[chain[i]] < Len(events[1])
    BY <1>1, <2>2
  <2>4. CASE i = Len(chain)
    <3>1. nextAckSeq[chain[i]] >= nextEventSeq[chain[i]]
      BY <1>1, <2>3, <2>4, PlacesAreAdjacent, RestCounters DEF RestInv
    <3>2. nextEventSeq[chain[i]] = Len(events[1])
      BY <2>3, EventsEverywhere
    <3>. QED BY <1>1, <2>3, <3>1, <3>2, AccountFacts
  <2>5. CASE i # Len(chain)
    <3>1. i + 1 \in DOMAIN chain /\ Adjacent(chain[i], chain[i + 1], ToSet(chain))
      BY <2>3, <2>5, PlacesAreAdjacent DEF RestInv
    <3>2. /\ d - 1 \in 0..Len(chain) - 1 /\ Len(chain) - (d - 1) = i + 1
          /\ ~(d <= d - 1)
      BY <1>1, <2>2, <2>5
    <3>3. ~(nextAckSeq[chain[i + 1]] < Len(events[1]))
      BY <2>2, <3>2
    <3>4. nextAckSeq[chain[i]] >= nextAckSeq[chain[i + 1]]
      BY <1>1, <2>3, <3>1, RestCounters
    <3>5. nextAckSeq[chain[i]] \in Nat /\ nextAckSeq[chain[i + 1]] \in Nat
      BY <1>1, <2>3, <3>1, AccountFacts
    <3>. QED BY <1>1, <2>3, <3>3, <3>4, <3>5
  <2>. QED BY <2>4, <2>5
<1>3. ASSUME NEW i \in DOMAIN chain PROVE nextAckSeq[chain[i]] = Len(events[1])
  <2>1. ~(nextAckSeq[chain[i]] < Len(events[1]))
    <3>1. Len(chain) - i \in 0..Len(chain) - 1 /\ Len(chain) - (Len(chain) - i) = i
      BY <1>1
    <3>. QED BY <1>2, <3>1
  <2>2. /\ lastConfirmed[chain[i]] = nextAckSeq[chain[i]] - 1
        /\ lastConfirmed[chain[i]] < Len(events[chain[i]])
    <3>1. ackProcessor[chain[i]] = "wait"
      BY <1>1 DEF AtRest
    <3>. QED BY <1>1, <3>1 DEF RestInv, IInv, ConfirmInv
  <2>3. /\ nextAckSeq[chain[i]] \in Nat /\ Len(events[chain[i]]) \in Nat
        /\ Len(events[chain[i]]) <= Len(events[1])
    BY <1>1, AccountFacts
  <2>. QED BY <1>1, <2>1, <2>2, <2>3
<1>. QED BY <1>3

LEMMA SameElements ==
  ASSUME NEW S, NEW s \in Seq(S), NEW t \in Seq(S), Len(s) = Len(t),
         \A i \in 1..Len(s) : s[i] = t[i]
  PROVE  s = t
OBVIOUS

(* When one node has crashed, left or joined, behind the HEAD, no RPC      *)
(* has timed out, and the chain has come to rest, every node of the chain  *)
(* has received and applied all that the HEAD has accepted, whatever the   *)
(* node that has gone had in its queues and its hands.                     *)
THEOREM RepairLeavesNothingBehind ==
  ASSUME OneChange, HeadStays, MaxFaults = 0
  PROVE  ReconfigurationSpec => []NothingLeftBehind
<1>1. ASSUME RestInv PROVE NothingLeftBehind
  <2>. SUFFICES ASSUME AtRest, NEW n \in ToSet(chain)
       PROVE  events[n] = events[Head(chain)] /\ applied[n] = events[Head(chain)]
    BY DEF NothingLeftBehind
  <2>1. PICK i \in DOMAIN chain : n = chain[i]
    BY DEF ToSet
  <2>2. Head(chain) = 1
    BY <1>1, EventsEverywhere, ChainFacts DEF RestInv
  <2>3. /\ nextEventSeq[n] = Len(events[1]) /\ nextAckSeq[n] = Len(events[1])
    BY <1>1, <2>1, EventsEverywhere, AcksEverywhere
  <2>4. n \in Nodes /\ events[n] \in Seq(Writes) /\ applied[n] \in Seq(Writes)
        /\ events[1] \in Seq(Writes)
    BY <1>1, <2>1, ChainFacts, AccountFacts, NodeTypes
    DEF RestInv, IInv, ReconfigurationTypeOK
  <2>5. Len(events[n]) = Len(events[1])
    BY <1>1, <2>3, <2>4, AccountFacts
  <2>6. \A k \in 1..Len(events[n]) : events[n][k] = events[1][k]
    BY <1>1, <2>4 DEF RestInv, HInv, EventsInv
  <2>7. Len(applied[n]) = Len(events[1])
    <3>1. ~Applies(ackProcessor[n])
      BY DEF AtRest, Applies
    <3>. QED BY <1>1, <2>3, <2>4, <3>1 DEF RestInv, HInv, AppliedInv
  <2>8. \A k \in 1..Len(applied[n]) : applied[n][k] = events[1][k]
    BY <1>1, <2>4 DEF RestInv, HInv, AppliedInv
  <2>. QED BY <2>2, <2>4, <2>5, <2>6, <2>7, <2>8, SameElements
<1>2. RestInv /\ [NextReconfiguration]_allVars => RestInv'
  BY NextIInv, NextHInv, NextWiredInv, NextAccountInv DEF RestInv
<1>3. InitReconfiguration => RestInv
  BY InitIInv, InitHInv, InitWiredInv, InitAccountInv DEF RestInv
<1>. QED BY <1>1, <1>2, <1>3, PTL DEF ReconfigurationSpec
=============================================================================
