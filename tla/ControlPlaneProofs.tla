---- MODULE ControlPlaneProofs ----
(***************************************************************************)
(* Proofs about ControlPlane for every number of servers and nodes and     *)
(* every initial chain.                                                    *)
(*                                                                         *)
(* The log determines a state for each of its prefixes; a function from    *)
(* lengths to states is carried along with the log, and every replica and  *)
(* every snapshot is a value of it.  The wiring of the nodes is related to *)
(* these states, not to a replica, which may be behind.                    *)
(***************************************************************************)
EXTENDS ControlPlane, FiniteSetTheorems, SequenceTheorems, TLAPS

IsReplica(r) ==
  r = [applied |-> r.applied, chain |-> r.chain, nodes |-> r.nodes,
       lastControlIndex |-> r.lastControlIndex]

IsSnapshot(x) ==
  /\ x = [pc |-> x.pc, server |-> x.server, state |-> x.state,
          shared |-> x.shared, overwritten |-> x.overwritten]
  /\ IsReplica(x.state)

(* A registration and an unregistration name one node. *)
Commands ==
  {c \in [op : Ops, ids : SUBSET Nodes] :
     c.op \in {"register", "unregister"} => \E n \in Nodes : c.ids = {n}}

LogLengths == Len(Initial)..Len(log)

(* The state after one more command. *)
StateAfter(r, c, i) == [Executed(r, c).state EXCEPT !.applied = i]

(* What the initial chain's registrations make of a replica. *)
FirstState ==
  [applied |-> Len(Initial), chain |-> Initial, nodes |-> ToSet(Initial),
   lastControlIndex |-> 0]

(* states[i] is what the first i entries of the log make of a replica. *)
Replays(states) ==
  /\ states[Len(Initial)] = FirstState
  /\ \A i \in LogLengths : IsReplica(states[i]) /\ states[i].applied = i
  /\ \A i \in LogLengths :
       i < Len(log) => states[i + 1] = StateAfter(states[i], log[i + 1], i + 1)

(* A snapshot that was changed has not reached the store, from which other *)
(* replicas are restored.                                                  *)
Clean == snapshot.pc # "stored" \/ ~snapshot.overwritten

ShapeInv ==
  /\ log \in Seq(Commands) /\ Len(Initial) <= Len(log)
  /\ DOMAIN replica = Servers
  /\ \A s \in Servers : /\ IsReplica(replica[s])
                        /\ replica[s].applied \in LogLengths
  /\ IsSnapshot(snapshot)
  /\ snapshot.pc \in {"none", "persisting", "stored"}
  /\ snapshot.pc # "none" => snapshot.state.applied \in LogLengths

LogDetermines ==
  \E states :
    /\ Replays(states)
    /\ Clean => \A s \in Servers : replica[s] = states[replica[s].applied]
    /\ snapshot.pc # "none" /\ ~snapshot.overwritten =>
         snapshot.state = states[snapshot.state.applied]

IInv == ShapeInv /\ LogDetermines

-----------------------------------------------------------------------------
(* Types. *)

SomeNode == Nodes \cup {Nil}

HandlerRecord ==
  [op : Ops, ids : SUBSET Nodes, server : Servers,
   pc : {"raft", "applied", "call"},
   result : [ok : BOOLEAN, pred : SomeNode, succ : SomeNode],
   index : Nat, old : Seq(Nodes)]

JobRecord ==
  [server : Servers, pred : SomeNode, succ : SomeNode, pc : {"pred", "succ"}]

MemberRecord ==
  [pc : Dead \cup {"new", "registering", "running", "leaving"},
   toTry : Seq(Servers), waiting : BOOLEAN,
   predecessor : SomeNode, successor : SomeNode]

TypedReplica(r) ==
  r.chain \in Seq(Nodes) /\ r.nodes \subseteq Nodes /\ r.lastControlIndex \in Nat

(* A handler's command is where its index says, and a handler that still   *)
(* waits for it waits at a leader that has not applied it.                 *)
HandlerOK(h) ==
  /\ h \in HandlerRecord
  /\ Command(h.op, h.ids) \in Commands
  /\ h.index > 0 => h.index <= Len(log) /\ log[h.index] = Command(h.op, h.ids)
  /\ h.pc = "raft" =>
       /\ leads[h.server] > 0
       /\ h.index > 0 => replica[h.server].applied < h.index

RaftTypes ==
  /\ term \in Nat \ {0} /\ leads \in [Servers -> 0..term]
  /\ panicked \subseteq downServers /\ downServers \subseteq Servers

ReplicaTypes ==
  /\ \A s \in Servers : TypedReplica(replica[s])
  /\ TypedReplica(snapshot.state) /\ snapshot.server \in Servers \cup {Nil}

HandlerTypes == \A h \in handlers : HandlerOK(h)

TypeInv ==
  /\ RaftTypes /\ ReplicaTypes /\ HandlerTypes
  /\ jobs \subseteq JobRecord
  /\ member \in [Nodes -> MemberRecord]
  /\ answerLost \subseteq Nodes /\ disturbed \in BOOLEAN

(* The chain lists the nodes, each of them once. *)
Matched(r) ==
  /\ r.chain \in Seq(Nodes) /\ IsInjective(r.chain)
  /\ r.nodes = ToSet(r.chain)
  /\ r.lastControlIndex \in Nat

MatchInv ==
  /\ Clean => panicked = {} /\ \A s \in Servers : Matched(replica[s])
  /\ snapshot.pc # "none" /\ ~snapshot.overwritten => Matched(snapshot.state)

Registration(n) == Command("register", {n})

(* A registered node has an entry in the part of the log applied. *)
HasEntries(r) ==
  \A n \in r.nodes : \E i \in 1..r.applied : log[i] = Registration(n)

NodesHaveEntries ==
  /\ \A s \in Servers : HasEntries(replica[s])
  /\ snapshot.pc # "none" => HasEntries(snapshot.state)

(* A node has one handler at a time while it registers. *)
AskedOnce ==
  /\ \A h \in handlers, n \in Nodes : h.ids = {n} =>
       /\ h.op = "register" =>
            member[n].pc = "registering" /\ member[n].waiting
       /\ h.op = "unregister" => member[n].pc \notin {"new", "registering"}
  /\ \A h, g \in handlers :
       h.op = "register" /\ g.op = "register" /\ h.ids = g.ids => h = g

(* Unless an answer was lost, the entry of a node that is registering has  *)
(* a handler, which will not refuse it.                                    *)
EntryHasHandler ==
  \A n \in Nodes \ answerLost, i \in DOMAIN log : log[i] = Registration(n) =>
    /\ member[n].pc \notin {"new", "refused"}
    /\ member[n].pc = "registering" =>
         \E h \in handlers :
           /\ h.op = "register" /\ h.ids = {n} /\ h.index = i
           /\ h.pc = "raft" \/ h.result.ok

RegistrationInv == NodesHaveEntries /\ AskedOnce /\ EntryHasHandler
-----------------------------------------------------------------------------
(* Operators on sequences. *)

(* A set of numbers has a smallest one. *)
LEMMA SmallestNumber ==
  ASSUME NEW S \in SUBSET Nat, S # {}
  PROVE  \E i \in S : \A k \in S : i <= k
<1>1. PICK i \in S : \A k \in S : ~(<<k, i>> \in OpToRel(<, Nat))
  BY NatLessThanWellFounded, WFMin
<1>2. \A k \in S : ~(k < i)
  BY <1>1 DEF OpToRel
<1>. QED BY <1>2

LEMMA AppendKeepsOrder ==
  ASSUME NEW S, NEW seq \in Seq(S), NEW x \in S
  PROVE  /\ Append(seq, x) \in Seq(S)
         /\ ToSet(Append(seq, x)) = ToSet(seq) \cup {x}
         /\ IsInjective(seq) /\ x \notin ToSet(seq) => IsInjective(Append(seq, x))
<1>. DEFINE new == Append(seq, x)
            n == Len(seq)
<1>1. /\ n \in Nat /\ DOMAIN seq = 1..n /\ DOMAIN new = 1..n + 1
      /\ new \in Seq(S) /\ new[n + 1] = x /\ \A i \in 1..n : new[i] = seq[i]
  OBVIOUS
<1>2. 1..n + 1 = 1..n \cup {n + 1} /\ n + 1 \notin 1..n
  BY <1>1
<1>. HIDE DEF new, n
<1>3. ToSet(new) = ToSet(seq) \cup {x}
  BY <1>1, <1>2 DEF ToSet
<1>4. IsInjective(seq) /\ x \notin ToSet(seq) => IsInjective(new)
  BY <1>1, <1>2 DEF ToSet, IsInjective
<1>5. new = Append(seq, x)
  BY DEF new
<1>. QED BY <1>1, <1>3, <1>4, <1>5, Zenon

LEMMA RemoveAtElements ==
  ASSUME NEW S, NEW seq \in Seq(S), NEW i \in DOMAIN seq
  PROVE  /\ RemoveAt(seq, i) \in Seq(S)
         /\ Len(RemoveAt(seq, i)) = Len(seq) - 1
         /\ \A j \in 1..Len(seq) - 1 :
              RemoveAt(seq, i)[j] = seq[IF j < i THEN j ELSE j + 1]
<1>. DEFINE new == RemoveAt(seq, i)
            n == Len(seq)
            from(j) == IF j < i THEN j ELSE j + 1
<1>1. n \in Nat /\ DOMAIN seq = 1..n /\ i \in 1..n
  OBVIOUS
<1>2. /\ SubSeq(seq, 1, i - 1) \in Seq(S) /\ Len(SubSeq(seq, 1, i - 1)) = i - 1
      /\ SubSeq(seq, i + 1, n) \in Seq(S) /\ Len(SubSeq(seq, i + 1, n)) = n - i
      /\ \A j \in 1..i - 1 : SubSeq(seq, 1, i - 1)[j] = seq[j]
      /\ \A j \in 1..n - i : SubSeq(seq, i + 1, n)[j] = seq[i + j]
  <2>1. /\ SubSeq(seq, 1, i - 1) \in Seq(S)
        /\ Len(SubSeq(seq, 1, i - 1)) = i - 1
        /\ \A j \in 1..i - 1 : SubSeq(seq, 1, i - 1)[j] = seq[j]
    BY <1>1
  <2>2. SubSeq(seq, i + 1, n) \in Seq(S) /\ Len(SubSeq(seq, i + 1, n)) = n - i
    BY <1>1
  <2>3. \A j \in 1..n - i : SubSeq(seq, i + 1, n)[j] = seq[i + j]
    BY <1>1
  <2>. QED BY <2>1, <2>2, <2>3
<1>3. /\ new \in Seq(S) /\ DOMAIN new = 1..n - 1
      /\ \A j \in 1..n - 1 : new[j] = seq[from(j)]
  <2>. DEFINE front == SubSeq(seq, 1, i - 1)
              back == SubSeq(seq, i + 1, n)
  <2>1. new = front \o back
    BY DEF RemoveAt
  <2>4. /\ front \in Seq(S) /\ Len(front) = i - 1
        /\ back \in Seq(S) /\ Len(back) = n - i
    BY <1>2
  <2>. HIDE DEF front, back, new
  <2>2. /\ new \in Seq(S) /\ Len(new) = n - 1
        /\ \A j \in 1..n - 1 :
              new[j] = IF j <= i - 1 THEN front[j] ELSE back[j - (i - 1)]
    <3>1. i - 1 + (n - i) = n - 1
      BY <1>1
    <3>2. /\ new \in Seq(S) /\ Len(new) = Len(front) + Len(back)
          /\ \A j \in 1..Len(front) + Len(back) :
               new[j] = IF j <= Len(front) THEN front[j]
                        ELSE back[j - Len(front)]
      BY <2>1, <2>4, ConcatProperties, Zenon
    <3>3. Len(front) = i - 1 /\ Len(front) + Len(back) = n - 1
      BY <2>4, <3>1
    <3>. QED BY <3>2, <3>3, Zenon
  <2>3. ASSUME NEW j \in 1..n - 1 PROVE new[j] = seq[from(j)]
    <3>1. CASE j < i
      BY <1>1, <1>2, <2>2, <3>1 DEF front
    <3>2. CASE ~(j < i)
      <4>1. j - (i - 1) \in 1..n - i /\ i + (j - (i - 1)) = j + 1
        BY <1>1, <3>2
      <4>2. new[j] = back[j - (i - 1)]
        BY <1>1, <2>2, <3>2
      <4>3. back[j - (i - 1)] = seq[i + (j - (i - 1))]
        BY <1>2, <4>1 DEF back
      <4>. QED BY <3>2, <4>1, <4>2, <4>3
    <3>. QED BY <3>1, <3>2
  <2>. QED BY <2>2, <2>3
<1>4. Len(new) = n - 1
  <2>. HIDE DEF new, n
  <2>. QED BY <1>1, <1>3
<1>. QED BY <1>3, <1>4, Zenon

LEMMA RemoveAtKeepsOrder ==
  ASSUME NEW S, NEW seq \in Seq(S), NEW i \in DOMAIN seq
  PROVE  /\ RemoveAt(seq, i) \in Seq(S)
         /\ IsInjective(seq) =>
              /\ IsInjective(RemoveAt(seq, i))
              /\ ToSet(RemoveAt(seq, i)) = ToSet(seq) \ {seq[i]}
<1>. DEFINE new == RemoveAt(seq, i)
            n == Len(seq)
            from(j) == IF j < i THEN j ELSE j + 1
            to(j) == IF j < i THEN j ELSE j - 1
<1>1. n \in Nat /\ DOMAIN seq = 1..n /\ i \in 1..n
  OBVIOUS
<1>3. /\ new \in Seq(S) /\ DOMAIN new = 1..n - 1
      /\ \A j \in 1..n - 1 : new[j] = seq[from(j)]
  <2>1. new \in Seq(S) /\ Len(new) = n - 1
        /\ \A j \in 1..n - 1 : new[j] = seq[from(j)]
    BY RemoveAtElements, Zenon
  <2>. QED BY <1>1, <2>1
<1>4. /\ \A j \in 1..n - 1 : from(j) \in 1..n /\ from(j) # i /\ to(from(j)) = j
      /\ \A j \in 1..n : j # i => to(j) \in 1..n - 1 /\ from(to(j)) = j
  BY <1>1
<1>. HIDE DEF new, n, from, to
<1>5. ASSUME IsInjective(seq) PROVE IsInjective(new)
  <2>. SUFFICES ASSUME NEW a \in 1..n - 1, NEW b \in 1..n - 1, new[a] = new[b]
       PROVE  a = b
    BY <1>3 DEF IsInjective
  <2>1. seq[from(a)] = seq[from(b)]
    BY <1>3
  <2>2. from(a) = from(b)
    BY <1>1, <1>4, <1>5, <2>1 DEF IsInjective
  <2>. QED BY <1>4, <2>2
<1>6. ASSUME IsInjective(seq) PROVE ToSet(new) = ToSet(seq) \ {seq[i]}
  <2>1. ASSUME NEW x \in ToSet(new) PROVE x \in ToSet(seq) \ {seq[i]}
    <3>1. PICK j \in 1..n - 1 : x = new[j]
      BY <1>3, <2>1 DEF ToSet
    <3>2. x = seq[from(j)] /\ from(j) \in 1..n /\ from(j) # i
      BY <1>3, <1>4, <3>1
    <3>. QED BY <1>1, <1>6, <3>2 DEF IsInjective, ToSet
  <2>2. ASSUME NEW x \in ToSet(seq) \ {seq[i]} PROVE x \in ToSet(new)
    <3>1. PICK j \in 1..n : x = seq[j] /\ j # i
      BY <1>1, <2>2 DEF ToSet
    <3>2. to(j) \in 1..n - 1 /\ new[to(j)] = x
      BY <1>3, <1>4, <3>1
    <3>. QED BY <1>3, <3>2 DEF ToSet
  <2>. QED BY <2>1, <2>2
<1>. QED BY <1>3, <1>5, <1>6 DEF new

(* Among n numbers, those up to each of them are 1, 2, ..., n many. *)
LEMMA RanksAreAll ==
  ASSUME NEW kept \in SUBSET Nat, IsFiniteSet(kept)
  PROVE  /\ Cardinality(kept) \in Nat
         /\ \A i \in kept :
              Cardinality({j \in kept : j <= i}) \in 1..Cardinality(kept)
         /\ \A i, k \in kept :
              Cardinality({j \in kept : j <= i}) =
                Cardinality({j \in kept : j <= k}) => i = k
         /\ \A i, k \in kept : i < k =>
              Cardinality({j \in kept : j <= i}) <
                Cardinality({j \in kept : j <= k})
         /\ \A k \in 1..Cardinality(kept) :
              \E i \in kept : Cardinality({j \in kept : j <= i}) = k
<1>. DEFINE Upto(i) == {j \in kept : j <= i}
            rank == [i \in kept |-> Cardinality(Upto(i))]
            n == Cardinality(kept)
<1>1. n \in Nat
  BY FS_CardinalityType
<1>2. \A i \in kept : Upto(i) \in SUBSET kept /\ i \in Upto(i)
  OBVIOUS
<1>3. ASSUME NEW i \in kept, NEW k \in kept, i < k
      PROVE  Upto(i) \in SUBSET Upto(k) /\ Upto(i) # Upto(k)
  <2>1. i \in Nat /\ k \in Nat /\ \A j \in kept : j \in Nat
    OBVIOUS
  <2>2. \A j \in kept : j <= i => j <= k
    BY <1>3, <2>1
  <2>3. k \notin Upto(i) /\ k \in Upto(k)
    BY <1>3, <2>1
  <2>. QED BY <2>2, <2>3
<1>. HIDE DEF Upto
<1>4. ASSUME NEW i \in kept
      PROVE  IsFiniteSet(Upto(i)) /\ Cardinality(Upto(i)) \in 1..n
  <2>1. IsFiniteSet(Upto(i)) /\ Cardinality(Upto(i)) <= n
    BY <1>2, FS_Subset
  <2>2. Cardinality(Upto(i)) \in Nat
    BY <2>1, FS_CardinalityType
  <2>3. Cardinality(Upto(i)) # 0
    BY <1>2, <2>1, FS_EmptySet
  <2>. QED BY <1>1, <2>1, <2>2, <2>3
<1>5. ASSUME NEW i \in kept, NEW k \in kept, i < k
      PROVE  Cardinality(Upto(i)) < Cardinality(Upto(k))
  <2>1. /\ Cardinality(Upto(i)) <= Cardinality(Upto(k))
        /\ Cardinality(Upto(i)) # Cardinality(Upto(k))
    BY <1>3, <1>4, <1>5, FS_Subset
  <2>. QED BY <1>4, <2>1
<1>6. ASSUME NEW i \in kept, NEW k \in kept,
             Cardinality(Upto(i)) = Cardinality(Upto(k))
      PROVE  i = k
  <2>1. i < k \/ k < i \/ i = k
    OBVIOUS
  <2>2. ~(i < k)
    BY <1>4, <1>5, <1>6
  <2>3. ~(k < i)
    BY <1>4, <1>5, <1>6
  <2>. QED BY <2>1, <2>2, <2>3
<1>7. rank \in Injection(kept, 1..n)
  BY <1>4, <1>6 DEF Injection, IsInjective
<1>8. IsFiniteSet(1..n) /\ Cardinality(1..n) = n
  BY <1>1, FS_Interval
<1>9. rank \in Surjection(kept, 1..n)
  <2>. HIDE DEF rank, n
  <2>1. n = Cardinality(kept)
    BY DEF n
  <2>. QED BY <1>7, <1>8, <2>1, FS_Injection
<1>10. \A k \in 1..n : \E i \in kept : Cardinality(Upto(i)) = k
  BY <1>9 DEF Surjection
<1>. QED BY <1>1, <1>4, <1>5, <1>6, <1>10 DEF Upto

(* at lists the positions in a chain of what is kept, in their order. *)
KeptAt(chain, ids, n, at) ==
  /\ at \in [1..n -> DOMAIN chain]
  /\ Without(chain, ids) = [k \in 1..n |-> chain[at[k]]]
  /\ \A k \in 1..n : chain[at[k]] \notin ids
  /\ \A k, m \in 1..n : k < m => at[k] < at[m]
  /\ \A i \in DOMAIN chain : chain[i] \notin ids => \E k \in 1..n : at[k] = i

LEMMA WithoutElements ==
  ASSUME NEW S, NEW chain \in Seq(S), NEW ids
  PROVE  \E n \in Nat : \E at : KeptAt(chain, ids, n, at)
<1>. DEFINE kept == {i \in DOMAIN chain : chain[i] \notin ids}
            Rank(i) == Cardinality({j \in kept : j <= i})
            n == Cardinality(kept)
            at == [k \in 1..n |-> CHOOSE i \in kept : Rank(i) = k]
<1>1. /\ n \in Nat
      /\ \A i \in kept : Rank(i) \in 1..n
      /\ \A i, k \in kept : Rank(i) = Rank(k) => i = k
      /\ \A i, k \in kept : i < k => Rank(i) < Rank(k)
      /\ \A k \in 1..n : \E i \in kept : Rank(i) = k
  <2>1. kept \in SUBSET Nat /\ kept \in SUBSET (1..Len(chain)) /\ Len(chain) \in Nat
    OBVIOUS
  <2>2. IsFiniteSet(kept)
    BY <2>1, FS_Interval, FS_Subset
  <2>. HIDE DEF kept
  <2>. QED BY <2>1, <2>2, RanksAreAll
<1>2. /\ kept \subseteq DOMAIN chain /\ kept \in SUBSET Nat
      /\ \A i \in DOMAIN chain : i \in kept <=> chain[i] \notin ids
  OBVIOUS
<1>3. Without(chain, ids) = [k \in 1..n |-> chain[at[k]]]
  <2>1. Without(chain, ids) =
          [k \in 1..n |-> chain[CHOOSE i \in kept : Rank(i) = k]]
    BY DEF Without
  <2>. QED BY <2>1, Zenon
<1>. HIDE DEF kept, Rank, n
<1>4. \A k \in 1..n : at[k] \in kept /\ Rank(at[k]) = k
  BY <1>1
<1>5. \A i \in kept : at[Rank(i)] = i
  BY <1>1, <1>4
<1>6. at \in [1..n -> DOMAIN chain]
  BY <1>2, <1>4
<1>. HIDE DEF at
<1>7. ASSUME NEW k \in 1..n, NEW m \in 1..n, k < m PROVE at[k] < at[m]
  <2>1. at[k] \in kept /\ at[m] \in kept /\ Rank(at[k]) = k /\ Rank(at[m]) = m
    BY <1>4
  <2>2. at[k] \in Nat /\ at[m] \in Nat
    BY <1>2, <2>1
  <2>3. at[k] # at[m]
    BY <1>1, <1>7, <2>1
  <2>4. ~(at[m] < at[k])
    BY <1>1, <1>7, <2>1
  <2>. QED BY <2>2, <2>3, <2>4
<1>8. \A k \in 1..n : chain[at[k]] \notin ids
  BY <1>2, <1>4
<1>9. \A i \in DOMAIN chain : chain[i] \notin ids => \E k \in 1..n : at[k] = i
  BY <1>1, <1>2, <1>5
<1>10. KeptAt(chain, ids, n, at)
  BY <1>3, <1>6, <1>7, <1>8, <1>9 DEF KeptAt
<1>. QED BY <1>1, <1>10

(* Removing nodes from a chain removes them and keeps the others, each     *)
(* once if it was there once.                                              *)
LEMMA WithoutProperties ==
  ASSUME NEW S, NEW chain \in Seq(S), NEW ids
  PROVE  /\ Without(chain, ids) \in Seq(S)
         /\ ToSet(Without(chain, ids)) = ToSet(chain) \ ids
         /\ IsInjective(chain) => IsInjective(Without(chain, ids))
<1>. PICK n \in Nat : \E at : KeptAt(chain, ids, n, at)
  BY WithoutElements, Zenon
<1>. PICK at : KeptAt(chain, ids, n, at)
  OBVIOUS
<1>. DEFINE new == [k \in 1..n |-> chain[at[k]]]
<1>1. /\ \A k \in 1..n : at[k] \in DOMAIN chain /\ chain[at[k]] \notin ids
      /\ \A k, m \in 1..n : k < m => at[k] < at[m]
      /\ \A i \in DOMAIN chain : chain[i] \notin ids => \E k \in 1..n : at[k] = i
  BY DEF KeptAt
<1>2. new \in Seq(S) /\ DOMAIN new = 1..n /\ \A k \in 1..n : new[k] = chain[at[k]]
  BY <1>1
<1>. HIDE DEF new
<1>3. ToSet(new) = ToSet(chain) \ ids
  <2>1. ASSUME NEW x \in ToSet(new) PROVE x \in ToSet(chain) \ ids
    BY <1>1, <1>2 DEF ToSet
  <2>2. ASSUME NEW x \in ToSet(chain) \ ids PROVE x \in ToSet(new)
    BY <1>1, <1>2 DEF ToSet
  <2>. QED BY <2>1, <2>2
<1>4. IsInjective(chain) => IsInjective(new)
  <2>. SUFFICES ASSUME IsInjective(chain), NEW a \in 1..n, NEW b \in 1..n,
                       new[a] = new[b]
       PROVE  a = b
    BY <1>2 DEF IsInjective
  <2>1. at[a] = at[b]
    BY <1>1, <1>2 DEF IsInjective
  <2>2. at[a] \in Nat
    BY <1>1
  <2>3. ~(a < b) /\ ~(b < a)
    BY <1>1, <2>1, <2>2
  <2>. QED BY <2>3
<1>5. Without(chain, ids) = new
  BY DEF new, KeptAt
<1>. QED BY <1>2, <1>3, <1>4, <1>5

-----------------------------------------------------------------------------
(* The state machine. *)

LEMMA IndexFound ==
  ASSUME NEW r, r.chain \in Seq(Nodes), NEW n
  PROVE  LET i == findNodeIndex(r, n)
         IN  IF n \in ToSet(r.chain)
             THEN i \in DOMAIN r.chain /\ r.chain[i] = n ELSE i = 0
<1>. DEFINE chain == r.chain
            First(i) == chain[i] = n /\ \A k \in 1..i - 1 : chain[k] # n
<1>1. CASE n \in ToSet(chain)
  <2>1. \E i \in DOMAIN chain : First(i)
    <3>. DEFINE found == {i \in DOMAIN chain : chain[i] = n}
    <3>1. found \in SUBSET Nat /\ found # {}
      BY <1>1 DEF ToSet
    <3>2. PICK i \in found : \A k \in found : i <= k
      BY <3>1, SmallestNumber
    <3>3. \A k \in 1..i - 1 : k \in DOMAIN chain /\ ~(i <= k)
      BY <3>2
    <3>. QED BY <3>2, <3>3
  <2>2. findNodeIndex(r, n) = CHOOSE i \in DOMAIN chain : First(i)
    BY <1>1 DEF findNodeIndex
  <2>. HIDE DEF chain
  <2>3. findNodeIndex(r, n) \in DOMAIN chain /\ First(findNodeIndex(r, n))
    BY <2>1, <2>2
  <2>. QED BY <1>1, <2>3 DEF chain
<1>2. CASE n \notin ToSet(chain)
  BY <1>2 DEF findNodeIndex
<1>. QED BY <1>1, <1>2

(* Typed replicas stay so and give typed results. *)
LEMMA ExecutedTyped ==
  ASSUME NEW r, IsReplica(r), TypedReplica(r),
         NEW c \in Commands, ~Panics(r, c)
  PROVE  /\ TypedReplica(Executed(r, c).state)
         /\ Executed(r, c).result \in
              [ok : BOOLEAN, pred : SomeNode, succ : SomeNode]
<1>. DEFINE e == Executed(r, c)
            n == TheId(c)
<1>1. c.op \in Ops /\ r.chain \in Seq(Nodes)
  BY DEF Commands, TypedReplica
<1>2. Failed \in [ok : BOOLEAN, pred : SomeNode, succ : SomeNode]
  BY DEF Failed, SomeNode
<1>3. \A p, q \in SomeNode :
        Result(p, q) \in [ok : BOOLEAN, pred : SomeNode, succ : SomeNode]
  BY DEF Result
<1>4. c.op \in {"register", "unregister"} => n \in Nodes
  BY DEF Commands, TheId
<1>5. Nil \in SomeNode /\ Nodes \subseteq SomeNode
  BY DEF SomeNode
<1>6. CASE c.op = "register"
  <2>1. e = registerNode(r, n)
    BY <1>6 DEF Executed
  <2>2. n \in Nodes
    BY <1>4, <1>6
  <2>3. getTail(r) \in SomeNode
    BY <1>1, <1>5 DEF getTail, Last
  <2>4. appendNode(r, n) = [r EXCEPT !.chain = Append(r.chain, n),
                                     !.nodes = r.nodes \cup {n}]
    BY DEF appendNode, IsReplica
  <2>5. TypedReplica(appendNode(r, n))
    BY <1>1, <2>2, <2>4 DEF IsReplica, TypedReplica
  <2>. QED BY <1>2, <1>3, <1>5, <2>1, <2>3, <2>5 DEF registerNode
<1>7. CASE c.op = "unregister"
  <2>. DEFINE i == findNodeIndex(r, n)
  <2>1. e = unregisterNode(r, n)
    BY <1>7 DEF Executed
  <2>2. CASE i = 0
    BY <1>2, <2>1, <2>2 DEF unregisterNode
  <2>3. CASE i # 0
    <3>1. i \in DOMAIN r.chain
      BY <1>1, <2>3, IndexFound
    <3>2. RemoveAt(r.chain, i) \in Seq(Nodes)
      BY <1>1, <3>1, RemoveAtKeepsOrder
    <3>3. TypedReplica(removeNode(r, i))
      BY <3>2 DEF removeNode, IsReplica, TypedReplica
    <3>4. /\ (IF i = 1 THEN Nil ELSE r.chain[i - 1]) \in SomeNode
          /\ (IF i = Len(r.chain) THEN Nil ELSE r.chain[i + 1]) \in SomeNode
      BY <1>1, <1>5, <3>1
    <3>. QED BY <1>3, <2>1, <2>3, <3>3, <3>4 DEF unregisterNode
  <2>. QED BY <2>2, <2>3
<1>8. CASE c.op = "update"
  <2>1. e = updateChain(r, c.ids)
    BY <1>8 DEF Executed
  <2>2. Without(r.chain, c.ids) \in Seq(Nodes)
    BY <1>1, WithoutProperties
  <2>3. TypedReplica(updateChain(r, c.ids).state)
    BY <2>2 DEF updateChain, IsReplica, TypedReplica
  <2>. QED BY <1>3, <1>5, <2>1, <2>3 DEF updateChain
<1>9. CASE c.op = "subscribe"
  <2>1. e = getSubscriptionNode(r)
    BY <1>9 DEF Executed
  <2>2. CASE r.nodes = {}
    BY <1>2, <2>1, <2>2 DEF getSubscriptionNode
  <2>3. CASE r.nodes # {}
    <3>1. r.chain # <<>> /\ NextIndex(r) < Len(r.chain)
      BY <1>9, <2>3 DEF Panics
    <3>2. NextIndex(r) \in Nat
      BY <1>1, <3>1 DEF NextIndex, TypedReplica
    <3>3. NextIndex(r) + 1 \in DOMAIN r.chain
      BY <1>1, <3>1, <3>2
    <3>4. Result(r.chain[NextIndex(r) + 1], Nil) \in
            [ok : BOOLEAN, pred : SomeNode, succ : SomeNode]
      BY <1>1, <1>3, <1>5, <3>3
    <3>5. TypedReplica([r EXCEPT !.lastControlIndex = NextIndex(r)])
      BY <3>2 DEF IsReplica, TypedReplica
    <3>. QED BY <2>1, <2>3, <3>4, <3>5 DEF getSubscriptionNode
  <2>. QED BY <2>2, <2>3
<1>. QED BY <1>1, <1>6, <1>7, <1>8, <1>9 DEF Ops

(* A replica whose chain lists its nodes never panics, ... *)
LEMMA MatchedNeverPanics ==
  ASSUME NEW r, Matched(r), NEW c PROVE ~Panics(r, c)
<1>1. r.chain \in Seq(Nodes) /\ r.nodes = ToSet(r.chain)
  BY DEF Matched
<1>2. r.chain # <<>> => getTail(r) \in r.nodes
  BY <1>1 DEF getTail, Last, ToSet
<1>3. r.nodes # {} => r.chain # <<>> /\ NextIndex(r) < Len(r.chain)
  <2>. SUFFICES ASSUME r.nodes # {}
       PROVE  r.chain # <<>> /\ NextIndex(r) < Len(r.chain)
    OBVIOUS
  <2>1. r.chain # <<>> /\ Len(r.chain) \in Nat \ {0}
    BY <1>1 DEF ToSet
  <2>. QED BY <2>1 DEF NextIndex, Matched
<1>. QED BY <1>1, <1>2, <1>3 DEF Panics

(* ... and its chain lists its nodes after every command. *)
LEMMA ExecutedMatched ==
  ASSUME NEW r, IsReplica(r), Matched(r), NEW c \in Commands
  PROVE  Matched(Executed(r, c).state)
<1>. DEFINE e == Executed(r, c).state
            n == TheId(c)
<1>1. c.op \in Ops /\ r.chain \in Seq(Nodes) /\ r.nodes = ToSet(r.chain)
      /\ IsInjective(r.chain)
  BY DEF Commands, Matched
<1>2. TypedReplica(r) /\ ~Panics(r, c)
  <2>1. r.nodes \subseteq Nodes
    BY <1>1 DEF ToSet
  <2>. QED BY <2>1, MatchedNeverPanics DEF Matched, TypedReplica
<1>3. TypedReplica(e)
  BY <1>2, ExecutedTyped
<1>4. c.op \in {"register", "unregister"} => n \in Nodes
  BY DEF Commands, TheId
<1>5. IsInjective(e.chain) /\ e.nodes = ToSet(e.chain)
  <2>1. CASE c.op = "register"
    <3>1. e = r \/ (n \notin r.nodes /\ e = appendNode(r, n))
      BY <2>1 DEF Executed, registerNode
    <3>2. appendNode(r, n).chain = Append(r.chain, n)
          /\ appendNode(r, n).nodes = r.nodes \cup {n}
      BY DEF appendNode, IsReplica
    <3>3. ASSUME n \notin r.nodes
          PROVE  /\ IsInjective(Append(r.chain, n))
                 /\ ToSet(Append(r.chain, n)) = r.nodes \cup {n}
      BY <1>1, <1>4, <2>1, <3>3, AppendKeepsOrder
    <3>. HIDE DEF e
    <3>4. CASE e = r
      BY <1>1, <3>4
    <3>5. CASE n \notin r.nodes /\ e = appendNode(r, n)
      BY <3>2, <3>3, <3>5
    <3>. QED BY <3>1, <3>4, <3>5
  <2>2. CASE c.op = "unregister"
    <3>. DEFINE i == findNodeIndex(r, n)
    <3>1. e = r \/ (i # 0 /\ e = removeNode(r, i))
      BY <2>2 DEF Executed, unregisterNode
    <3>2. removeNode(r, i).chain = RemoveAt(r.chain, i)
          /\ removeNode(r, i).nodes = r.nodes \ {r.chain[i]}
      BY DEF removeNode, IsReplica
    <3>3. i # 0 => i \in DOMAIN r.chain
      BY <1>1, IndexFound
    <3>. HIDE DEF i, e
    <3>4. CASE e = r
      BY <1>1, <3>4
    <3>5. CASE i # 0 /\ e = removeNode(r, i)
      <4>1. /\ IsInjective(RemoveAt(r.chain, i))
            /\ ToSet(RemoveAt(r.chain, i)) = ToSet(r.chain) \ {r.chain[i]}
        BY <1>1, <3>3, <3>5, RemoveAtKeepsOrder
      <4>. QED BY <1>1, <3>2, <3>5, <4>1
    <3>. QED BY <3>1, <3>4, <3>5
  <2>3. CASE c.op = "update"
    <3>1. e.chain = Without(r.chain, c.ids)
          /\ e.nodes = r.nodes \ (c.ids \cap ToSet(r.chain))
      BY <2>3 DEF Executed, updateChain, IsReplica
    <3>. QED BY <1>1, <3>1, WithoutProperties
  <2>4. CASE c.op = "subscribe"
    <3>1. e.chain = r.chain /\ e.nodes = r.nodes
      BY <2>4 DEF Executed, getSubscriptionNode, IsReplica
    <3>. QED BY <1>1, <3>1
  <2>. QED BY <1>1, <2>1, <2>2, <2>3, <2>4 DEF Ops
<1>. QED BY <1>3, <1>5 DEF Matched, TypedReplica

-----------------------------------------------------------------------------
(* A command makes a replica of a replica. *)
LEMMA ExecutedIsReplica ==
  ASSUME NEW r, IsReplica(r), NEW c \in Commands, NEW i
  PROVE  IsReplica(StateAfter(r, c, i)) /\ StateAfter(r, c, i).applied = i
<1>. DEFINE e == Executed(r, c).state
<1>1. c.op \in Ops
  BY DEF Commands
<1>2. IsReplica(e)
  <2>1. CASE c.op = "register"
    BY <2>1 DEF Executed, registerNode, appendNode, IsReplica
  <2>2. CASE c.op = "unregister"
    BY <2>2 DEF Executed, unregisterNode, removeNode, IsReplica
  <2>3. CASE c.op = "update"
    <3>1. e = [r EXCEPT !.chain = updateChain(r, c.ids).state.chain,
                        !.nodes = updateChain(r, c.ids).state.nodes]
      BY <2>3 DEF Executed, updateChain, IsReplica
    <3>. QED BY <3>1 DEF IsReplica
  <2>4. CASE c.op = "subscribe"
    BY <2>4 DEF Executed, getSubscriptionNode, IsReplica
  <2>. QED BY <1>1, <2>1, <2>2, <2>3, <2>4 DEF Ops
<1>3. StateAfter(r, c, i) = [e EXCEPT !.applied = i]
  BY DEF StateAfter
<1>. HIDE DEF e
<1>. QED BY <1>2, <1>3 DEF IsReplica

(* Applying a command changes a snapshot at most in its chain, and says    *)
(* so.                                                                     *)
LEMMA SnapshotAfterIsMarked ==
  ASSUME IsSnapshot(snapshot), NEW s, NEW c,
         NEW x \in SnapshotAfter(s, c)
  PROVE  /\ IsSnapshot(x)
         /\ x.pc = snapshot.pc /\ x.state.applied = snapshot.state.applied
         /\ ~x.overwritten => ~snapshot.overwritten /\ x.state = snapshot.state
         /\ snapshot.pc # "persisting" => x = snapshot
<1>. DEFINE i == findNodeIndex(replica[s], TheId(c))
            moved == Shifted(snapshot.state.chain, replica[s].chain, i)
<1>1. \/ x = snapshot
      \/ /\ snapshot.pc = "persisting"
         /\ \/ \E b \in BOOLEAN : x = [snapshot EXCEPT !.shared = b]
            \/ x = [snapshot EXCEPT
                      !.state.chain = moved,
                      !.overwritten = snapshot.overwritten
                                      \/ moved # snapshot.state.chain]
  BY DEF SnapshotAfter
<1>. HIDE DEF moved
<1>2. CASE x = snapshot
  BY <1>2
<1>3. ASSUME NEW b \in BOOLEAN, x = [snapshot EXCEPT !.shared = b],
             snapshot.pc = "persisting"
      PROVE  /\ IsSnapshot(x)
             /\ x.pc = snapshot.pc /\ x.state.applied = snapshot.state.applied
             /\ ~x.overwritten =>
                  ~snapshot.overwritten /\ x.state = snapshot.state
  BY <1>3 DEF IsSnapshot
<1>4. CASE /\ snapshot.pc = "persisting"
           /\ x = [snapshot EXCEPT
                      !.state.chain = moved,
                      !.overwritten = snapshot.overwritten
                                      \/ moved # snapshot.state.chain]
  <2>1. /\ x.state = [snapshot.state EXCEPT !.chain = moved]
        /\ x.pc = snapshot.pc
        /\ x.overwritten = (snapshot.overwritten
                            \/ moved # snapshot.state.chain)
        /\ x = [pc |-> x.pc, server |-> x.server, state |-> x.state,
                shared |-> x.shared, overwritten |-> x.overwritten]
    BY <1>4 DEF IsSnapshot
  <2>2. IsReplica(x.state) /\ x.state.applied = snapshot.state.applied
    BY <2>1 DEF IsSnapshot, IsReplica
  <2>3. moved = snapshot.state.chain => x.state = snapshot.state
    BY <2>1 DEF IsSnapshot, IsReplica
  <2>. QED BY <1>4, <2>1, <2>2, <2>3 DEF IsSnapshot
<1>. QED BY <1>1, <1>2, <1>3, <1>4

-----------------------------------------------------------------------------
LEMMA InitIInv == Init => IInv
<1>. SUFFICES ASSUME Init PROVE IInv
  OBVIOUS
<1>. DEFINE first == FirstState
<1>1. Initial \in Seq(Nodes)
  BY ControlPlaneAssumption DEF ControlPlaneAssumption
<1>2. log \in Seq(Commands) /\ Len(log) = Len(Initial)
  <2>1. ASSUME NEW i \in 1..Len(Initial)
        PROVE  Command("register", {Initial[i]}) \in Commands
    BY <1>1 DEF Command, Commands, Ops
  <2>2. log = [i \in 1..Len(Initial) |-> Command("register", {Initial[i]})]
    BY <1>1 DEF Init
  <2>. QED BY <1>1, <2>1, <2>2
<1>3. /\ DOMAIN replica = Servers
      /\ \A s \in Servers : replica[s] = first
  BY DEF Init, FirstState
<1>4. IsReplica(first) /\ first.applied = Len(Initial)
  BY DEF IsReplica, FirstState
<1>5. IsSnapshot(snapshot) /\ snapshot.pc = "none"
  BY DEF Init, NoSnapshot, EmptyReplica, IsSnapshot, IsReplica
<1>6. Len(Initial) \in Nat /\ LogLengths = {Len(Initial)}
  BY <1>1, <1>2 DEF LogLengths
<1>7. ShapeInv
  BY <1>2, <1>3, <1>4, <1>5, <1>6 DEF ShapeInv
<1>8. LogDetermines
  <2>. DEFINE states == [i \in LogLengths |-> first]
  <2>1. Replays(states)
    BY <1>2, <1>4, <1>6 DEF Replays
  <2>2. \A s \in Servers : replica[s] = states[replica[s].applied]
    BY <1>3, <1>4, <1>6
  <2>. HIDE DEF states
  <2>. QED BY <1>5, <2>1, <2>2 DEF LogDetermines
<1>. QED BY <1>7, <1>8 DEF IInv

(* Steps that leave log, replicas and snapshot alone. *)
LEMMA OtherStepsKeep ==
  ASSUME IInv, UNCHANGED <<log, replica, snapshot>> PROVE IInv'
BY DEF IInv, ShapeInv, LogDetermines, Replays, Clean, LogLengths

(* A command is added to the log: the states it had remain. *)
LEMMA ProposeKeeps ==
  ASSUME IInv, UNCHANGED <<replica, snapshot>>,
         NEW c \in Commands, log' = Append(log, c)
  PROVE  IInv'
<1>. USE DEF IInv
<1>. DEFINE k == Len(log)
<1>1. /\ log' \in Seq(Commands) /\ Len(log') = k + 1 /\ log'[k + 1] = c
      /\ \A i \in 1..k : log'[i] = log[i]
      /\ k \in Nat /\ Len(Initial) \in Nat /\ Len(Initial) <= k
  BY ControlPlaneAssumption DEF ControlPlaneAssumption, ShapeInv
<1>2. LogLengths' = LogLengths \cup {k + 1} /\ LogLengths \subseteq Nat
      /\ k \in LogLengths /\ k + 1 \notin LogLengths
      /\ \A i \in LogLengths : i <= k
  BY <1>1 DEF LogLengths
<1>3. ShapeInv'
  BY <1>1, <1>2 DEF ShapeInv
<1>4. LogDetermines'
  <2>1. PICK states :
          /\ Replays(states)
          /\ Clean => \A s \in Servers : replica[s] = states[replica[s].applied]
          /\ snapshot.pc # "none" /\ ~snapshot.overwritten =>
               snapshot.state = states[snapshot.state.applied]
    BY DEF LogDetermines
  <2>. PICK more : more = [i \in LogLengths \cup {k + 1} |->
                             IF i = k + 1 THEN StateAfter(states[k], c, k + 1)
                             ELSE states[i]]
    OBVIOUS
  <2>2. /\ \A i \in LogLengths : more[i] = states[i]
        /\ more[k + 1] = StateAfter(states[k], c, k + 1)
    BY <1>2
  <2>3. IsReplica(more[k + 1]) /\ more[k + 1].applied = k + 1
    BY <1>2, <2>1, <2>2, ExecutedIsReplica DEF Replays
  <2>4. Replays(more)'
    <3>1. \A i \in LogLengths' : IsReplica(more[i]) /\ more[i].applied = i
      BY <1>2, <2>1, <2>2, <2>3 DEF Replays
    <3>2. ASSUME NEW i \in LogLengths', i < Len(log')
          PROVE  more[i + 1] = StateAfter(more[i], log'[i + 1], i + 1)
      <4>1. CASE i = k
        BY <1>1, <1>2, <2>2, <4>1
      <4>2. CASE i # k
        <5>1. i \in LogLengths /\ i + 1 \in LogLengths /\ i + 1 \in 1..k /\ i < k
          BY <1>1, <1>2, <3>2, <4>2 DEF LogLengths
        <5>. QED BY <1>1, <2>1, <2>2, <5>1 DEF Replays
      <4>. QED BY <4>1, <4>2
    <3>3. more[Len(Initial)] = FirstState
      BY <1>1, <1>2, <2>1, <2>2 DEF Replays, LogLengths
    <3>. QED BY <3>1, <3>2, <3>3, Zenon DEF Replays
  <2>5. Clean => \A s \in Servers : replica[s] = more[replica[s].applied]
    BY <2>1, <2>2 DEF ShapeInv
  <2>6. snapshot.pc # "none" /\ ~snapshot.overwritten =>
          snapshot.state = more[snapshot.state.applied]
    BY <2>1, <2>2 DEF ShapeInv
  <2>. QED BY <2>4, <2>5, <2>6 DEF LogDetermines, Clean
<1>. QED BY <1>3, <1>4

(* A replica moves on to the next state, and a snapshot it is writing is   *)
(* marked if that changes it.                                              *)
LEMMA ApplyNextKeeps ==
  ASSUME IInv, NEW s \in Servers, HasNext(s), ApplyNext(s) PROVE IInv'
<1>. USE DEF IInv
<1>. DEFINE i == replica[s].applied + 1
            r == StateAfter(replica[s], log[i], i)
<1>1. /\ log' = log /\ i - 1 \in LogLengths /\ i \in LogLengths /\ i - 1 < Len(log)
      /\ log[i] \in Commands /\ LogLengths' = LogLengths
      /\ i = (i - 1) + 1 /\ replica[s].applied = i - 1
  <2>1. log' = log /\ replica[s].applied < Len(log)
    BY DEF HasNext, ApplyNext, raftVars
  <2>2. Len(Initial) \in Nat /\ Len(log) \in Nat
    BY ControlPlaneAssumption DEF ControlPlaneAssumption, ShapeInv
  <2>3. replica[s].applied \in Len(Initial)..Len(log) /\ i \in 1..Len(log)
    BY <2>1, <2>2 DEF ShapeInv, LogLengths
  <2>4. log[i] \in Commands
    BY <2>3 DEF ShapeInv
  <2>. QED BY <2>1, <2>2, <2>3, <2>4 DEF LogLengths
<1>2. replica' = [replica EXCEPT ![s] = r]
  BY DEF ApplyNext, StateAfter
<1>3. IsReplica(r) /\ r.applied = i
  BY <1>1, ExecutedIsReplica DEF ShapeInv
<1>4. PICK c : snapshot' \in SnapshotAfter(s, c)
  BY DEF ApplyNext
<1>5. /\ IsSnapshot(snapshot')
      /\ snapshot'.pc = snapshot.pc
      /\ snapshot'.state.applied = snapshot.state.applied
      /\ ~snapshot'.overwritten =>
           ~snapshot.overwritten /\ snapshot'.state = snapshot.state
      /\ snapshot.pc # "persisting" => snapshot' = snapshot
  BY <1>4, SnapshotAfterIsMarked DEF ShapeInv
<1>. HIDE DEF r, i
<1>6. ShapeInv'
  BY <1>1, <1>2, <1>3, <1>5 DEF ShapeInv
<1>7. LogDetermines'
  <2>1. PICK states :
          /\ Replays(states)
          /\ Clean => \A t \in Servers : replica[t] = states[replica[t].applied]
          /\ snapshot.pc # "none" /\ ~snapshot.overwritten =>
               snapshot.state = states[snapshot.state.applied]
    BY DEF LogDetermines
  <2>2. Replays(states)'
    BY <1>1, <2>1 DEF Replays
  <2>3. Clean' => Clean
    BY <1>5 DEF Clean
  <2>4. Clean' => \A t \in Servers : replica'[t] = states[replica'[t].applied]
    <3>. SUFFICES ASSUME Clean', NEW t \in Servers
         PROVE  replica'[t] = states[replica'[t].applied]
      OBVIOUS
    <3>1. CASE t = s
      <4>1. replica[s] = states[i - 1]
        BY <1>1, <2>1, <2>3
      <4>2. states[i] = StateAfter(states[i - 1], log[i], i)
        BY <1>1, <2>1 DEF Replays
      <4>. QED BY <1>2, <1>3, <3>1, <4>1, <4>2 DEF ShapeInv, r
    <3>2. CASE t # s
      BY <1>2, <2>1, <2>3, <3>2 DEF ShapeInv
    <3>. QED BY <3>1, <3>2
  <2>5. snapshot'.pc # "none" /\ ~snapshot'.overwritten =>
          snapshot'.state = states[snapshot'.state.applied]
    BY <1>5, <2>1
  <2>. QED BY <2>2, <2>4, <2>5 DEF LogDetermines
<1>. QED BY <1>6, <1>7

LEMMA SnapshotKeeps ==
  ASSUME IInv, NEW s \in Servers, Snapshot(s) PROVE IInv'
<1>. USE DEF IInv
<1>1. /\ log' = log /\ replica' = replica /\ LogLengths' = LogLengths
      /\ snapshot'.state = replica[s] /\ ~snapshot'.overwritten
      /\ snapshot'.pc = "persisting" /\ IsSnapshot(snapshot')
  BY DEF Snapshot, raftVars, LogLengths, IsSnapshot, ShapeInv
<1>2. Clean
  BY DEF Snapshot, NoSnapshot, Clean
<1>3. ShapeInv'
  BY <1>1 DEF ShapeInv
<1>4. LogDetermines'
  BY <1>1, <1>2 DEF LogDetermines, Replays
<1>. QED BY <1>3, <1>4

LEMMA PersistKeeps == ASSUME IInv, Persist PROVE IInv'
<1>. USE DEF IInv
<1>1. /\ log' = log /\ replica' = replica /\ LogLengths' = LogLengths
      /\ snapshot.pc = "persisting" /\ snapshot'.pc = "stored"
      /\ snapshot'.state = snapshot.state
      /\ snapshot'.overwritten = snapshot.overwritten
      /\ IsSnapshot(snapshot')
  BY DEF Persist, raftVars, LogLengths, IsSnapshot, ShapeInv
<1>2. Clean
  BY <1>1 DEF Clean
<1>3. ShapeInv'
  BY <1>1 DEF ShapeInv
<1>4. LogDetermines'
  BY <1>1, <1>2 DEF LogDetermines, Replays
<1>. QED BY <1>3, <1>4

LEMMA RestoreKeeps ==
  ASSUME IInv, NEW s \in Servers, Restore(s) PROVE IInv'
<1>. USE DEF IInv
<1>1. /\ log' = log /\ snapshot' = snapshot /\ LogLengths' = LogLengths
      /\ snapshot.pc = "stored"
      /\ replica' = [replica EXCEPT ![s] = snapshot.state]
  BY DEF Restore, Restored, raftVars, LogLengths
<1>2. ShapeInv'
  BY <1>1 DEF ShapeInv, IsSnapshot
<1>3. LogDetermines'
  <2>1. PICK states :
          /\ Replays(states)
          /\ Clean => \A t \in Servers : replica[t] = states[replica[t].applied]
          /\ snapshot.pc # "none" /\ ~snapshot.overwritten =>
               snapshot.state = states[snapshot.state.applied]
    BY DEF LogDetermines
  <2>2. Replays(states)'
    BY <1>1, <2>1 DEF Replays
  <2>3. Clean' => \A t \in Servers : replica'[t] = states[replica'[t].applied]
    BY <1>1, <2>1 DEF Clean, ShapeInv
  <2>. QED BY <1>1, <2>1, <2>2, <2>3 DEF LogDetermines
<1>. QED BY <1>2, <1>3

(* A server that ends takes with it the snapshot it was writing. *)
LEMMA EndServerKeeps ==
  ASSUME IInv, NEW s \in Servers, EndServer(s) PROVE IInv'
<1>. USE DEF IInv
<1>1. log' = log /\ replica' = replica /\ LogLengths' = LogLengths
  BY DEF EndServer, LogLengths
<1>2. CASE snapshot' = snapshot
  BY <1>1, <1>2, OtherStepsKeep
<1>3. CASE snapshot.pc = "persisting" /\ snapshot' = NoSnapshot
  <2>1. IsSnapshot(snapshot') /\ snapshot'.pc = "none"
    BY <1>3 DEF NoSnapshot, EmptyReplica, IsSnapshot, IsReplica
  <2>2. Clean
    BY <1>3 DEF Clean
  <2>3. ShapeInv'
    BY <1>1, <2>1 DEF ShapeInv
  <2>4. LogDetermines'
    BY <1>1, <2>1, <2>2 DEF LogDetermines, Replays
  <2>. QED BY <2>3, <2>4
<1>. QED BY <1>2, <1>3 DEF EndServer

-----------------------------------------------------------------------------
LEMMA ProposalKeeps ==
  ASSUME IInv, NEW s, NEW op, NEW ids, NEW old, Command(op, ids) \in Commands,
         Propose(s, op, ids, old), UNCHANGED <<replica, snapshot>>
  PROVE  IInv'
<1>1. CASE log' = log
  BY <1>1, OtherStepsKeep
<1>2. CASE log' = Append(log, Command(op, ids))
  BY <1>2, ProposeKeeps
<1>. QED BY <1>1, <1>2 DEF Propose

(* What is proposed is a command. *)
LEMMA ProposedCommands ==
  /\ Command("subscribe", {}) \in Commands
  /\ \A dead \in SUBSET Nodes : Command("update", dead) \in Commands
  /\ \A n \in Nodes, op \in {"register", "unregister"} :
       Command(op, {n}) \in Commands
BY DEF Command, Commands, Ops

LEMMA NextIInv == IInv /\ [Next]_vars => IInv'
<1>. SUFFICES ASSUME IInv, [Next]_vars PROVE IInv'
  OBVIOUS
<1>1. ASSUME NEW s \in Servers, Elect(s) \/ StepDown(s) PROVE IInv'
  BY <1>1, OtherStepsKeep DEF Elect, StepDown
<1>2. ASSUME NEW s \in Servers, CrashServer(s) PROVE IInv'
  BY <1>2, EndServerKeeps DEF CrashServer
<1>3. ASSUME NEW s \in Servers, Apply(s) PROVE IInv'
  BY <1>3, ApplyNextKeeps, EndServerKeeps DEF Apply, Panic
<1>4. ASSUME NEW s \in Servers, Snapshot(s) \/ Restore(s) PROVE IInv'
  BY <1>4, SnapshotKeeps, RestoreKeeps
<1>5. CASE Persist
  BY <1>5, PersistKeeps
<1>6. ASSUME NEW s \in Servers, GetSubscriptionNode(s) PROVE IInv'
  BY <1>6, ProposalKeeps, ProposedCommands DEF GetSubscriptionNode
<1>7. ASSUME NEW s \in Servers, IdentifyDeadNodes(s) PROVE IInv'
  <2>1. CASE Panic(s)
    BY <2>1, EndServerKeeps DEF Panic
  <2>2. CASE RemoveNodesViaRaft(s)
    <3>1. PICK dead \in SUBSET (ToSet(replica[s].chain) \cap Silent) :
            /\ Propose(s, "update", dead, replica[s].chain)
            /\ UNCHANGED <<replica, snapshot>>
      BY <2>2 DEF RemoveNodesViaRaft
    <3>2. dead \in SUBSET Nodes
      BY ControlPlaneAssumption DEF ControlPlaneAssumption, Silent
    <3>. QED BY <3>1, <3>2, ProposalKeeps, ProposedCommands
  <2>. QED BY <1>7, <2>1, <2>2 DEF IdentifyDeadNodes
<1>8. ASSUME NEW n \in Nodes, StartNode(n) \/ Shutdown(n) \/ CrashNode(n)
                              \/ GiveUp(n)
      PROVE  IInv'
  BY <1>8, OtherStepsKeep
     DEF StartNode, Shutdown, CrashNode, GiveUp, Begin, raftVars
<1>9. ASSUME NEW n \in Nodes, TryNextServer(n) PROVE IInv'
  <2>. DEFINE s == Head(member[n].toTry)
              op == IF member[n].pc = "registering" THEN "register"
                    ELSE "unregister"
  <2>1. UNCHANGED <<replica, snapshot>>
    BY <1>9 DEF TryNextServer
  <2>2. CASE Propose(s, op, {n}, <<>>)
    BY <1>9, <2>1, <2>2, ProposalKeeps, ProposedCommands
  <2>3. CASE UNCHANGED log
    BY <2>1, <2>3, OtherStepsKeep
  <2>. QED BY <1>9, <2>2, <2>3 DEF TryNextServer, raftVars
<1>10. ASSUME NEW h \in handlers,
              \/ LookUpPredecessor(h) \/ AnswerRegistration(h)
              \/ RefuseRegistration(h) \/ AnswerUnregistration(h)
              \/ LookUpSubscriptionNode(h) \/ AnswerSubscription(h)
              \/ ReconnectChain(h)
       PROVE  IInv'
  BY <1>10, OtherStepsKeep
     DEF LookUpPredecessor, AnswerRegistration, RefuseRegistration,
         AnswerUnregistration, LookUpSubscriptionNode, AnswerSubscription,
         ReconnectChain, raftVars
<1>11. ASSUME NEW j \in jobs, SetPredecessor(j) \/ SetSuccessor(j)
       PROVE  IInv'
  BY <1>11, OtherStepsKeep DEF SetPredecessor, SetSuccessor, raftVars
<1>12. CASE UNCHANGED vars
  BY <1>12, OtherStepsKeep DEF vars, raftVars
<1>. QED BY <1>1, <1>2, <1>3, <1>4, <1>5, <1>6, <1>7, <1>8, <1>9, <1>10,
            <1>11, <1>12 DEF Next

LEMMA InductiveInvariant == Spec => []IInv
BY InitIInv, NextIInv, PTL DEF Spec

(* Servers that have applied as much of the log as one another are in the  *)
(* same state, whether they applied it entry by entry or were restored     *)
(* (Apply, Snapshot, Restore), unless a snapshot was changed while it was  *)
(* being written.                                                          *)
THEOREM ReplicasAgreeAlways == Spec => []ReplicasAgree
<1>1. IInv => ReplicasAgree
  BY DEF IInv, LogDetermines, Clean, ReplicasAgree
<1>. QED BY <1>1, InductiveInvariant, PTL

-----------------------------------------------------------------------------
(* Type correctness. *)

(* A handler's claims outlive what is added to the log. *)
LEMMA HandlerStaysOK ==
  ASSUME IInv, NEW h, HandlerOK(h),
         \/ log' = log
         \/ \E c \in Commands : log' = Append(log, c),
         leads'[h.server] > 0 \/ h.pc # "raft",
         h.pc = "raft" /\ h.index > 0 =>
           \/ replica'[h.server].applied = replica[h.server].applied
           \/ replica'[h.server].applied < h.index
  PROVE  HandlerOK(h)'
<1>1. log \in Seq(Commands) /\ Len(log) \in Nat
  BY DEF IInv, ShapeInv
<1>2. h.index \in Nat
  BY DEF HandlerOK, HandlerRecord
<1>3. h.index > 0 =>
        h.index <= Len(log') /\ log'[h.index] = Command(h.op, h.ids)
  <2>1. h.index > 0 => h.index \in 1..Len(log) /\ log[h.index] = Command(h.op, h.ids)
    BY <1>1, <1>2 DEF HandlerOK
  <2>2. CASE log' = log
    BY <1>1, <2>1, <2>2
  <2>3. ASSUME NEW c \in Commands, log' = Append(log, c)
        PROVE  /\ Len(log') = Len(log) + 1
               /\ \A i \in 1..Len(log) : log'[i] = log[i]
    BY <1>1, <2>3
  <2>. QED BY <1>1, <1>2, <2>1, <2>2, <2>3
<1>. QED BY <1>3 DEF HandlerOK

LEMMA ProposeTypes ==
  ASSUME IInv, TypeInv, NEW s \in Servers, IsLeader(s),
         NEW op \in Ops, NEW ids \in SUBSET Nodes, NEW old \in Seq(Nodes),
         Command(op, ids) \in Commands,
         Propose(s, op, ids, old), replica' = replica
  PROVE  RaftTypes' /\ HandlerTypes' /\ disturbed' \in BOOLEAN
<1>1. log \in Seq(Commands) /\ Len(log) \in Nat
  BY DEF IInv, ShapeInv
<1>2. UNCHANGED <<term, leads, downServers, panicked>>
  BY DEF Propose
<1>3. leads[s] \in 0..term /\ leads[s] > 0 /\ term \in Nat
  BY DEF TypeInv, RaftTypes, IsLeader
<1>. DEFINE h == Handler(s, op, ids, old)
<1>4. /\ h = [op |-> op, ids |-> ids, server |-> s, pc |-> "raft",
              result |-> Failed,
              index |-> IF leads[s] = term THEN Len(log) + 1 ELSE 0,
              old |-> old]
      /\ h \in HandlerRecord
  <2>1. Failed \in [ok : BOOLEAN, pred : SomeNode, succ : SomeNode]
    BY DEF Failed, SomeNode
  <2>. QED BY <1>1, <2>1 DEF Handler, HandlerRecord
<1>5. h.index > 0 => /\ h.index <= Len(log')
                     /\ log'[h.index] = Command(op, ids)
                     /\ replica[s].applied < h.index
  <2>. SUFFICES ASSUME leads[s] = term, h.index = Len(log) + 1
       PROVE  /\ h.index <= Len(log')
              /\ log'[h.index] = Command(op, ids)
              /\ replica[s].applied < h.index
    BY <1>4
  <2>1. log' = Append(log, Command(op, ids))
    BY DEF Propose
  <2>2. replica[s].applied \in Int /\ replica[s].applied <= Len(log)
    BY <1>1, ControlPlaneAssumption
       DEF ControlPlaneAssumption, IInv, ShapeInv, LogLengths
  <2>. HIDE DEF h
  <2>. QED BY <1>1, <2>1, <2>2
<1>6. ASSUME NEW g \in handlers' PROVE HandlerOK(g)'
  <2>1. CASE g = h
    <3>1. g.op = op /\ g.ids = ids /\ g.server = s /\ g \in HandlerRecord
      BY <1>4, <2>1
    <3>. HIDE DEF h
    <3>. QED BY <1>2, <1>3, <1>5, <2>1, <3>1 DEF HandlerOK
  <2>2. CASE g \in handlers
    <3>1. HandlerOK(g)
      BY <2>2 DEF TypeInv, HandlerTypes
    <3>2. log' = log \/ \E c \in Commands : log' = Append(log, c)
      BY DEF Propose
    <3>3. leads'[g.server] > 0 \/ g.pc # "raft"
      BY <1>2, <3>1 DEF HandlerOK
    <3>. QED BY <3>1, <3>2, <3>3, HandlerStaysOK
  <2>. QED BY <1>6, <2>1, <2>2 DEF Propose
<1>7. RaftTypes'
  BY <1>2 DEF TypeInv, RaftTypes
<1>8. disturbed' \in BOOLEAN
  BY DEF Propose
<1>. QED BY <1>6, <1>7, <1>8 DEF HandlerTypes

LEMMA DisconnectTypes ==
  ASSUME TypeInv, NEW gone, NEW goroutines, Disconnect(gone, goroutines)
  PROVE  /\ member' \in [Nodes -> MemberRecord]
         /\ answerLost' \subseteq Nodes /\ disturbed' \in BOOLEAN
<1>1. ASSUME NEW n \in Nodes, NEW b \in BOOLEAN
      PROVE  [member[n] EXCEPT !.waiting = @ /\ b] \in MemberRecord
  BY DEF TypeInv, MemberRecord
<1>2. member' \in [Nodes -> MemberRecord]
  BY <1>1 DEF Disconnect
<1>3. answerLost' \subseteq Nodes
  BY DEF Disconnect, Callers, TypeInv
<1>4. disturbed' \in BOOLEAN
  BY DEF Disconnect
<1>. QED BY <1>2, <1>3, <1>4

LEMMA ElectTypes ==
  ASSUME IInv, TypeInv, NEW s \in Servers, Elect(s) PROVE TypeInv'
<1>1. /\ term' = term + 1 /\ leads' = [leads EXCEPT ![s] = term + 1]
      /\ UNCHANGED <<log, downServers, panicked, replica, snapshot, handlers,
                     jobs, member, answerLost, disturbed>>
  BY DEF Elect, historyVars
<1>2. term \in Nat \ {0} /\ leads \in [Servers -> 0..term]
  BY DEF TypeInv, RaftTypes
<1>3. term' \in Nat \ {0} /\ leads' \in [Servers -> 0..term']
  BY <1>1, <1>2
<1>4. \A t \in Servers : leads[t] > 0 => leads'[t] > 0
  BY <1>1, <1>2
<1>5. ASSUME NEW h \in handlers PROVE HandlerOK(h)'
  <2>1. HandlerOK(h) /\ h.server \in Servers
    BY DEF TypeInv, HandlerTypes, HandlerOK, HandlerRecord
  <2>. QED BY <1>1, <1>4, <2>1, HandlerStaysOK DEF HandlerOK
<1>. QED BY <1>1, <1>3, <1>5
         DEF TypeInv, RaftTypes, ReplicaTypes, HandlerTypes

LEMMA StepDownTypes ==
  ASSUME IInv, TypeInv, NEW s \in Servers, StepDown(s) PROVE TypeInv'
<1>. DEFINE gone == {h \in handlers : h.server = s /\ h.pc = "raft"}
            monitors == {h \in gone : h.op = "update"}
<1>1. /\ leads' = [leads EXCEPT ![s] = 0]
      /\ handlers' = (handlers \ gone) \cup
                       {[h EXCEPT !.pc = "applied"] : h \in monitors}
      /\ Disconnect(gone, {})
      /\ UNCHANGED <<log, term, downServers, panicked, replica, snapshot, jobs>>
  BY DEF StepDown
<1>2. term \in Nat \ {0} /\ leads \in [Servers -> 0..term]
  BY DEF TypeInv, RaftTypes
<1>3. leads' \in [Servers -> 0..term'] /\ term' = term
  BY <1>1, <1>2
<1>4. ASSUME NEW h \in handlers \ gone PROVE HandlerOK(h)'
  <2>1. HandlerOK(h) /\ h.server \in Servers
    BY DEF TypeInv, HandlerTypes, HandlerOK, HandlerRecord
  <2>2. leads'[h.server] > 0 \/ h.pc # "raft"
    BY <1>1, <1>2, <2>1 DEF HandlerOK
  <2>. HIDE DEF gone
  <2>. QED BY <1>1, <2>1, <2>2, HandlerStaysOK
<1>5. ASSUME NEW g \in monitors PROVE HandlerOK([g EXCEPT !.pc = "applied"])'
  <2>1. HandlerOK(g)
    BY DEF TypeInv, HandlerTypes
  <2>. DEFINE h == [g EXCEPT !.pc = "applied"]
  <2>2. /\ h \in HandlerRecord /\ h.pc = "applied"
        /\ h.op = g.op /\ h.ids = g.ids /\ h.index = g.index
    BY <2>1 DEF HandlerOK, HandlerRecord
  <2>. HIDE DEF h
  <2>3. HandlerOK(h)'
    BY <1>1, <2>1, <2>2 DEF HandlerOK
  <2>. QED BY <2>3 DEF h
<1>6. HandlerTypes'
  <2>. SUFFICES ASSUME NEW h \in handlers' PROVE HandlerOK(h)'
    BY DEF HandlerTypes
  <2>1. CASE h \in handlers \ gone
    BY <1>4, <2>1
  <2>2. CASE h \in {[g EXCEPT !.pc = "applied"] : g \in monitors}
    BY <1>5, <2>2
  <2>. HIDE DEF gone, monitors
  <2>. QED BY <1>1, <2>1, <2>2
<1>. HIDE DEF gone, monitors
<1>7. /\ member' \in [Nodes -> MemberRecord]
      /\ answerLost' \subseteq Nodes /\ disturbed' \in BOOLEAN
  BY <1>1, DisconnectTypes
<1>. QED BY <1>1, <1>3, <1>6, <1>7 DEF TypeInv, RaftTypes, ReplicaTypes

LEMMA EndServerTypes ==
  ASSUME IInv, TypeInv, NEW s \in Servers, EndServer(s),
         panicked' = panicked \/ panicked' = panicked \cup {s}
  PROVE  TypeInv'
<1>. DEFINE gone == {h \in handlers : h.server = s}
            mine == {j \in jobs : j.server = s}
<1>1. /\ downServers' = downServers \cup {s}
      /\ leads' = [leads EXCEPT ![s] = 0]
      /\ handlers' = handlers \ gone /\ jobs' = jobs \ mine
      /\ Disconnect(gone, mine)
      /\ snapshot' = snapshot \/ snapshot' = NoSnapshot
      /\ UNCHANGED <<log, term, replica>>
  BY DEF EndServer
<1>2. term \in Nat \ {0} /\ leads \in [Servers -> 0..term]
  BY DEF TypeInv, RaftTypes
<1>3. RaftTypes'
  BY <1>1, <1>2 DEF TypeInv, RaftTypes
<1>4. ASSUME NEW h \in handlers' PROVE HandlerOK(h)'
  <2>1. h \in handlers /\ h.server # s
    BY <1>1, <1>4
  <2>2. HandlerOK(h) /\ h.server \in Servers
    BY <2>1 DEF TypeInv, HandlerTypes, HandlerOK, HandlerRecord
  <2>3. leads'[h.server] > 0 \/ h.pc # "raft"
    BY <1>1, <1>2, <2>1, <2>2 DEF HandlerOK
  <2>. HIDE DEF gone
  <2>. QED BY <1>1, <2>2, <2>3, HandlerStaysOK
<1>5. ReplicaTypes'
  <2>1. TypedReplica(NoSnapshot.state) /\ NoSnapshot.server = Nil
    <3>1. <<>> \in Seq(Nodes) /\ {} \subseteq Nodes
      OBVIOUS
    <3>2. /\ NoSnapshot.state.chain = <<>> /\ NoSnapshot.state.nodes = {}
          /\ NoSnapshot.state.lastControlIndex = 0
          /\ NoSnapshot.server = Nil
      BY DEF NoSnapshot, EmptyReplica
    <3>. QED BY <3>1, <3>2 DEF TypedReplica
  <2>. QED BY <1>1, <2>1 DEF TypeInv, ReplicaTypes
<1>6. jobs' \subseteq JobRecord
  BY <1>1 DEF TypeInv
<1>. HIDE DEF gone, mine
<1>7. /\ member' \in [Nodes -> MemberRecord]
      /\ answerLost' \subseteq Nodes /\ disturbed' \in BOOLEAN
  BY <1>1, DisconnectTypes
<1>. QED BY <1>3, <1>4, <1>5, <1>6, <1>7 DEF TypeInv, HandlerTypes

(* Moving nodes within an array leaves a chain of nodes. *)
LEMMA SnapshotAfterTyped ==
  ASSUME IsSnapshot(snapshot), TypedReplica(snapshot.state), NEW s, NEW c,
         TypedReplica(replica[s]), NEW x \in SnapshotAfter(s, c)
  PROVE  /\ TypedReplica(x.state) /\ x.server = snapshot.server
         /\ x.state.nodes = snapshot.state.nodes
<1>. DEFINE i == findNodeIndex(replica[s], TheId(c))
            old == snapshot.state.chain
            chain == replica[s].chain
            moved == Shifted(old, chain, i)
<1>1. \/ x = snapshot
      \/ \E b \in BOOLEAN : x = [snapshot EXCEPT !.shared = b]
      \/ /\ x = [snapshot EXCEPT
                      !.state.chain = moved,
                      !.overwritten = snapshot.overwritten \/ moved # old]
         /\ i > 0
  BY DEF SnapshotAfter
<1>2. old \in Seq(Nodes) /\ chain \in Seq(Nodes)
  BY DEF TypedReplica
<1>3. ASSUME i > 0 PROVE moved \in Seq(Nodes)
  <2>1. i \in DOMAIN chain
    BY <1>2, <1>3, IndexFound
  <2>. HIDE DEF i, old, chain
  <2>2. \A k \in 1..Len(old) :
          (IF i <= k /\ k < Len(chain) THEN chain[k + 1] ELSE old[k]) \in Nodes
    BY <1>2, <2>1
  <2>. QED BY <1>2, <2>2 DEF Shifted
<1>. HIDE DEF moved, i
<1>4. CASE x = snapshot
  BY <1>4
<1>5. CASE \E b \in BOOLEAN : x = [snapshot EXCEPT !.shared = b]
  BY <1>5 DEF IsSnapshot
<1>6. CASE i > 0 /\ x = [snapshot EXCEPT
                      !.state.chain = moved,
                      !.overwritten = snapshot.overwritten \/ moved # old]
  <2>1. x.state = [snapshot.state EXCEPT !.chain = moved]
        /\ x.server = snapshot.server
    BY <1>6 DEF IsSnapshot
  <2>. QED BY <1>3, <1>6, <2>1 DEF IsSnapshot, IsReplica, TypedReplica
<1>. QED BY <1>1, <1>4, <1>5, <1>6

LEMMA ApplyNextTypes ==
  ASSUME IInv, TypeInv, NEW s \in Servers, HasNext(s), ApplyNext(s),
         ~Panics(replica[s], log[replica[s].applied + 1])
  PROVE  TypeInv'
<1>. DEFINE i == replica[s].applied + 1
            r == replica[s]
            done == Executed(r, log[i])
            waiting == {h \in handlers : h.server = s /\ h.index = i}
<1>. PICK result : result = done.result
  OBVIOUS
<1>1. /\ replica' = [replica EXCEPT ![s] = [done.state EXCEPT !.applied = i]]
      /\ handlers' = (handlers \ waiting) \cup
           {[h EXCEPT !.pc = "applied", !.result = result] : h \in waiting}
      /\ snapshot' \in SnapshotAfter(s, log[i])
      /\ UNCHANGED <<log, term, leads, downServers, panicked, jobs, member,
                     answerLost, disturbed>>
  BY DEF ApplyNext, raftVars, historyVars
<1>2. log \in Seq(Commands) /\ r.applied \in Nat /\ i \in 1..Len(log)
      /\ DOMAIN replica = Servers /\ IsReplica(r)
  <2>1. r.applied \in Len(Initial)..Len(log) /\ Len(Initial) \in Nat
        /\ log \in Seq(Commands)
    BY ControlPlaneAssumption
       DEF ControlPlaneAssumption, IInv, ShapeInv, LogLengths
  <2>. QED BY <2>1 DEF HasNext, IInv, ShapeInv
<1>3. /\ IsReplica(StateAfter(r, log[i], i))
      /\ StateAfter(r, log[i], i).applied = i
      /\ TypedReplica(done.state)
      /\ result \in [ok : BOOLEAN, pred : SomeNode, succ : SomeNode]
  <2>1. log[i] \in Commands /\ TypedReplica(r)
    BY <1>2 DEF TypeInv, ReplicaTypes
  <2>. QED BY <1>2, <2>1, ExecutedTyped, ExecutedIsReplica
<1>4. replica'[s] = StateAfter(r, log[i], i)
      /\ \A t \in Servers \ {s} : replica'[t] = replica[t]
  BY <1>1, <1>2 DEF StateAfter
<1>5. TypedReplica(StateAfter(r, log[i], i))
  BY <1>3 DEF StateAfter, TypedReplica
<1>. HIDE DEF done
<1>6. ASSUME NEW h \in handlers \ waiting PROVE HandlerOK(h)'
  <2>1. HandlerOK(h) /\ h.server \in Servers /\ h.index \in Nat
    BY DEF TypeInv, HandlerTypes, HandlerOK, HandlerRecord
  <2>2. leads'[h.server] > 0 \/ h.pc # "raft"
    BY <1>1, <2>1 DEF HandlerOK
  <2>3. h.pc = "raft" /\ h.index > 0 =>
          \/ replica'[h.server].applied = replica[h.server].applied
          \/ replica'[h.server].applied < h.index
    <3>1. CASE h.server # s
      BY <1>4, <2>1, <3>1
    <3>2. CASE h.server = s
      <4>1. replica'[s].applied = i /\ h.index # i
        BY <1>3, <1>4, <3>2
      <4>2. h.pc = "raft" /\ h.index > 0 => i - 1 < h.index
        BY <1>2, <2>1, <3>2 DEF HandlerOK
      <4>. QED BY <1>2, <2>1, <3>2, <4>1, <4>2
    <3>. QED BY <3>1, <3>2
  <2>. HIDE DEF waiting
  <2>. QED BY <1>1, <2>1, <2>2, <2>3, HandlerStaysOK
<1>7. ASSUME NEW g \in waiting
      PROVE  HandlerOK([g EXCEPT !.pc = "applied", !.result = result])'
  <2>1. HandlerOK(g)
    BY DEF TypeInv, HandlerTypes
  <2>. HIDE DEF waiting
  <2>. DEFINE h == [g EXCEPT !.pc = "applied", !.result = result]
  <2>2. /\ h \in HandlerRecord /\ h.pc = "applied"
        /\ h.op = g.op /\ h.ids = g.ids /\ h.index = g.index
    BY <1>3, <2>1 DEF HandlerOK, HandlerRecord
  <2>. HIDE DEF h
  <2>3. log' = log /\ h.pc # "raft"
    BY <1>1, <2>2
  <2>4. HandlerOK(h)'
    BY <2>1, <2>2, <2>3 DEF HandlerOK
  <2>. QED BY <2>4 DEF h
<1>8. HandlerTypes'
  <2>. SUFFICES ASSUME NEW h \in handlers' PROVE HandlerOK(h)'
    BY DEF HandlerTypes
  <2>1. CASE h \in handlers \ waiting
    BY <1>6, <2>1
  <2>2. CASE h \in {[g EXCEPT !.pc = "applied", !.result = result] :
                      g \in waiting}
    BY <1>7, <2>2
  <2>3. handlers' = (handlers \ waiting) \cup
           {[g EXCEPT !.pc = "applied", !.result = result] : g \in waiting}
    BY <1>1
  <2>. HIDE DEF waiting
  <2>. QED BY <2>1, <2>2, <2>3
<1>9. TypedReplica(snapshot'.state) /\ snapshot'.server = snapshot.server
  BY <1>1, <1>2, SnapshotAfterTyped DEF TypeInv, ReplicaTypes, IInv, ShapeInv
<1>10. ReplicaTypes'
  BY <1>4, <1>5, <1>9 DEF TypeInv, ReplicaTypes
<1>. QED BY <1>1, <1>8, <1>10 DEF TypeInv, RaftTypes

LEMMA SnapshotsTyped ==
  ASSUME IInv, TypeInv, NEW s,
         Persist \/ (s \in Servers /\ (Snapshot(s) \/ Restore(s)))
  PROVE  TypeInv'
<1>1. /\ UNCHANGED <<log, term, leads, downServers, panicked, handlers, jobs,
                     member, answerLost, disturbed>>
      /\ UNCHANGED replica \/ Restore(s)
  BY DEF Snapshot, Persist, Restore, raftVars, historyVars
<1>2. IsSnapshot(snapshot) /\ DOMAIN replica = Servers /\ ReplicaTypes
  BY DEF IInv, ShapeInv, TypeInv
<1>3. ReplicaTypes'
  <2>1. CASE s \in Servers /\ Snapshot(s)
    <3>1. replica' = replica /\ snapshot'.state = replica[s]
          /\ snapshot'.server = s
      BY <2>1 DEF Snapshot
    <3>. QED BY <1>2, <2>1, <3>1 DEF ReplicaTypes
  <2>2. CASE Persist
    <3>1. replica' = replica /\ snapshot'.state = snapshot.state
          /\ snapshot'.server = snapshot.server
      BY <1>2, <2>2 DEF Persist, IsSnapshot
    <3>. QED BY <1>2, <3>1 DEF ReplicaTypes
  <2>3. CASE s \in Servers /\ Restore(s)
    BY <1>2, <2>3 DEF Restore, Restored, ReplicaTypes
  <2>. QED BY <2>1, <2>2, <2>3
<1>4. ASSUME NEW h \in handlers PROVE HandlerOK(h)'
  <2>1. HandlerOK(h) /\ h.server \in Servers
    BY DEF TypeInv, HandlerTypes, HandlerOK, HandlerRecord
  <2>2. h.pc = "raft" => leads[h.server] > 0 /\ leads'[h.server] > 0
    BY <1>1, <2>1 DEF HandlerOK
  <2>3. h.pc = "raft" => replica'[h.server] = replica[h.server]
    <3>1. CASE Restore(s)
      <4>1. leads[s] = 0 /\ replica' = [replica EXCEPT ![s] = snapshot.state]
        BY <3>1 DEF Restore, Restored
      <4>2. h.pc = "raft" => h.server # s
        BY <2>2, <4>1
      <4>. QED BY <1>2, <2>1, <4>1, <4>2
    <3>. QED BY <1>1, <3>1
  <2>. QED BY <1>1, <2>1, <2>2, <2>3, HandlerStaysOK
<1>. QED BY <1>1, <1>3, <1>4 DEF TypeInv, RaftTypes, HandlerTypes

-----------------------------------------------------------------------------
(* The nodes. *)

(* What a step of a node leaves alone. *)
LEMMA MemberSteps ==
  ASSUME TypeInv, IInv, member' \in [Nodes -> MemberRecord],
         handlers' \subseteq handlers, jobs' \subseteq JobRecord,
         UNCHANGED <<raftVars, replica, snapshot, historyVars>>
  PROVE  TypeInv'
<1>1. UNCHANGED <<log, term, leads, downServers, panicked, answerLost, disturbed>>
  BY DEF raftVars, historyVars
<1>2. ASSUME NEW h \in handlers' PROVE HandlerOK(h)'
  BY <1>1 DEF TypeInv, HandlerTypes, HandlerOK
<1>. QED BY <1>1, <1>2 DEF TypeInv, RaftTypes, ReplicaTypes, HandlerTypes

LEMMA BeginTypes ==
  ASSUME TypeInv, IInv, NEW n \in Nodes, NEW pc, NEW toTry \in Seq(Servers),
         pc \in {"registering", "leaving", "crashed"}, Begin(n, pc, toTry)
  PROVE  TypeInv'
<1>1. member \in [Nodes -> MemberRecord]
  BY DEF TypeInv
<1>2. [member[n] EXCEPT !.pc = pc, !.toTry = toTry] \in MemberRecord
  BY <1>1 DEF MemberRecord, Dead
<1>3. member' = [member EXCEPT
                   ![n] = [member[n] EXCEPT !.pc = pc, !.toTry = toTry]]
  BY <1>1 DEF Begin
<1>4. member' \in [Nodes -> MemberRecord]
  BY <1>1, <1>2, <1>3
<1>. QED BY <1>4, MemberSteps DEF Begin, TypeInv

LEMMA NodeTypes ==
  ASSUME TypeInv, IInv, NEW n \in Nodes,
         StartNode(n) \/ Shutdown(n) \/ CrashNode(n)
  PROVE  TypeInv'
<1>1. ServerList \in Seq(Servers) /\ <<>> \in Seq(Servers)
      /\ \A s \in Servers : <<s>> \o ServerList \in Seq(Servers)
  BY ControlPlaneAssumption DEF ControlPlaneAssumption
<1>2. CASE StartNode(n)
  BY <1>1, <1>2, BeginTypes DEF StartNode
<1>3. CASE Shutdown(n)
  BY <1>1, <1>3, BeginTypes DEF Shutdown
<1>4. CASE CrashNode(n)
  BY <1>1, <1>4, BeginTypes DEF CrashNode
<1>. QED BY <1>2, <1>3, <1>4

LEMMA GiveUpTypes ==
  ASSUME TypeInv, IInv, NEW n \in Nodes, GiveUp(n) PROVE TypeInv'
<1>1. member \in [Nodes -> MemberRecord]
  BY DEF TypeInv
<1>2. PICK pc \in Dead : member' = [member EXCEPT
        ![n] = [member[n] EXCEPT !.pc = pc, !.toTry = <<>>, !.waiting = FALSE]]
  BY <1>1 DEF GiveUp, Dead
<1>3. <<>> \in Seq(Servers)
  OBVIOUS
<1>4. [member[n] EXCEPT !.pc = pc, !.toTry = <<>>, !.waiting = FALSE]
        \in MemberRecord
  BY <1>1, <1>3 DEF MemberRecord
<1>5. member' \in [Nodes -> MemberRecord]
  BY <1>1, <1>2, <1>4
<1>. QED BY <1>5, MemberSteps DEF GiveUp, TypeInv

LEMMA TryNextServerTypes ==
  ASSUME TypeInv, IInv, NEW n \in Nodes, TryNextServer(n) PROVE TypeInv'
<1>. DEFINE s == Head(member[n].toTry)
            op == IF member[n].pc = "registering" THEN "register"
                  ELSE "unregister"
<1>1. member \in [Nodes -> MemberRecord]
  BY DEF TypeInv
<1>2. member[n].toTry \in Seq(Servers) /\ member[n].toTry # <<>>
  BY <1>1 DEF MemberRecord, TryNextServer
<1>3. s \in Servers /\ Tail(member[n].toTry) \in Seq(Servers)
  BY <1>2
<1>4. PICK b \in BOOLEAN : member' = [member EXCEPT
        ![n] = [member[n] EXCEPT !.toTry = Tail(member[n].toTry),
                                 !.waiting = b]]
  BY <1>1 DEF TryNextServer, IsLeader
<1>5. [member[n] EXCEPT !.toTry = Tail(member[n].toTry), !.waiting = b]
        \in MemberRecord
  BY <1>1, <1>3 DEF MemberRecord
<1>6. member' \in [Nodes -> MemberRecord]
  BY <1>1, <1>4, <1>5
<1>7. UNCHANGED <<replica, snapshot, jobs, answerLost>>
  BY DEF TryNextServer
<1>8. CASE IsLeader(s)
  <2>1. Propose(s, op, {n}, <<>>)
    BY <1>8 DEF TryNextServer
  <2>2. Command(op, {n}) \in Commands /\ op \in Ops /\ <<>> \in Seq(Nodes)
    BY ProposedCommands DEF Ops
  <2>. HIDE DEF op, s
  <2>3. RaftTypes' /\ HandlerTypes' /\ disturbed' \in BOOLEAN
    BY <1>3, <1>7, <1>8, <2>1, <2>2, ProposeTypes
  <2>. QED BY <1>6, <1>7, <2>3 DEF TypeInv, ReplicaTypes
<1>9. CASE ~IsLeader(s)
  BY <1>6, <1>7, <1>9, MemberSteps DEF TryNextServer, TypeInv, historyVars
<1>. QED BY <1>8, <1>9

-----------------------------------------------------------------------------
(* The servers' handlers and goroutines. *)

LEMMA GetSubscriptionNodeTypes ==
  ASSUME TypeInv, IInv, NEW s \in Servers, GetSubscriptionNode(s)
  PROVE  TypeInv'
<1>1. /\ IsLeader(s) /\ Propose(s, "subscribe", {}, <<>>)
      /\ UNCHANGED <<replica, snapshot, jobs, member, answerLost>>
  BY DEF GetSubscriptionNode
<1>2. "subscribe" \in Ops /\ {} \in SUBSET Nodes /\ <<>> \in Seq(Nodes)
  BY DEF Ops
<1>3. RaftTypes' /\ HandlerTypes' /\ disturbed' \in BOOLEAN
  BY <1>1, <1>2, ProposedCommands, ProposeTypes
<1>. QED BY <1>1, <1>3 DEF TypeInv, ReplicaTypes

LEMMA RemoveNodesTypes ==
  ASSUME TypeInv, IInv, NEW s \in Servers, Monitoring(s), RemoveNodesViaRaft(s)
  PROVE  TypeInv'
<1>1. PICK dead \in SUBSET (ToSet(replica[s].chain) \cap Silent) :
        /\ Propose(s, "update", dead, replica[s].chain)
        /\ UNCHANGED <<replica, snapshot, jobs, member, answerLost>>
  BY DEF RemoveNodesViaRaft
<1>2. "update" \in Ops /\ dead \in SUBSET Nodes /\ replica[s].chain \in Seq(Nodes)
  <2>1. replica[s].chain \in Seq(Nodes)
    BY DEF TypeInv, ReplicaTypes, TypedReplica
  <2>. QED BY <2>1 DEF Ops, ToSet
<1>3. IsLeader(s)
  BY DEF Monitoring
<1>4. RaftTypes' /\ HandlerTypes' /\ disturbed' \in BOOLEAN
  BY <1>1, <1>2, <1>3, ProposedCommands, ProposeTypes
<1>. QED BY <1>1, <1>4 DEF TypeInv, ReplicaTypes

LEMMA LookUpTypes ==
  ASSUME TypeInv, IInv, NEW h \in handlers,
         LookUpPredecessor(h) \/ LookUpSubscriptionNode(h)
  PROVE  TypeInv'
<1>1. /\ UNCHANGED <<log, term, leads, downServers, panicked, replica, snapshot,
                     jobs, member, answerLost, disturbed>>
  BY DEF LookUpPredecessor, LookUpSubscriptionNode, raftVars, historyVars
<1>2. HandlerOK(h) /\ \A g \in handlers : HandlerOK(g)'
  BY <1>1 DEF TypeInv, HandlerTypes, HandlerOK
<1>3. PICK pred \in SomeNode :
        handlers' \subseteq handlers \cup
          {[h EXCEPT !.pc = "call", !.result.pred = pred], [h EXCEPT !.pc = "call"]}
  <2>1. h.result.pred \in SomeNode
    BY <1>2 DEF HandlerOK, HandlerRecord
  <2>2. Known(h.server, h.result.pred) \in SomeNode
    BY <2>1 DEF Known, SomeNode
  <2>3. CASE LookUpPredecessor(h)
    <3>1. handlers' = (handlers \ {h}) \cup
            {[h EXCEPT !.pc = "call",
                       !.result.pred = Known(h.server, h.result.pred)]}
      BY <1>2, <2>3 DEF LookUpPredecessor, HandlerOK, HandlerRecord
    <3>. QED BY <2>2, <3>1
  <2>4. CASE LookUpSubscriptionNode(h)
    BY <2>1, <2>4 DEF LookUpSubscriptionNode
  <2>. QED BY <2>3, <2>4
<1>4. ASSUME NEW g \in {[h EXCEPT !.pc = "call", !.result.pred = pred],
                        [h EXCEPT !.pc = "call"]}
      PROVE  HandlerOK(g)'
  <2>1. /\ g \in HandlerRecord /\ g.pc = "call"
        /\ g.op = h.op /\ g.ids = h.ids /\ g.index = h.index
    <3>1. h \in HandlerRecord
      BY <1>2 DEF HandlerOK
    <3>2. [h.result EXCEPT !.pred = pred]
            \in [ok : BOOLEAN, pred : SomeNode, succ : SomeNode]
      BY <3>1 DEF HandlerRecord
    <3>3. g = [h EXCEPT !.pc = "call"] \/
          g = [h EXCEPT !.pc = "call", !.result = [h.result EXCEPT !.pred = pred]]
      BY <3>1 DEF HandlerRecord
    <3>. QED BY <3>1, <3>2, <3>3 DEF HandlerRecord
  <2>. QED BY <1>1, <1>2, <2>1 DEF HandlerOK
<1>5. HandlerTypes'
  BY <1>2, <1>3, <1>4 DEF HandlerTypes
<1>. QED BY <1>1, <1>5 DEF TypeInv, RaftTypes, ReplicaTypes

(* One node's record changes in some of its fields. *)
LEMMA WireTypes ==
  ASSUME TypeInv, NEW n, NEW field \in {"predecessor", "successor"},
         NEW value \in SomeNode
  PROVE  /\ Wire(n, field, value) \in [Nodes -> MemberRecord]
         /\ \A m \in Nodes : Wire(n, field, value)[m].pc = member[m].pc
                          /\ Wire(n, field, value)[m].waiting = member[m].waiting
<1>1. member \in [Nodes -> MemberRecord]
  BY DEF TypeInv
<1>2. ASSUME NEW m \in Nodes
      PROVE  /\ [member[m] EXCEPT ![field] = value] \in MemberRecord
             /\ [member[m] EXCEPT ![field] = value].pc = member[m].pc
             /\ [member[m] EXCEPT ![field] = value].waiting = member[m].waiting
  BY <1>1 DEF MemberRecord
<1>3. Wire(n, field, value) =
        [member EXCEPT ![n] = [member[n] EXCEPT ![field] = value]]
  BY DEF Wire
<1>. QED BY <1>1, <1>2, <1>3

LEMMA AnswerRegistrationTypes ==
  ASSUME TypeInv, IInv, NEW h \in handlers, AnswerRegistration(h) PROVE TypeInv'
<1>. DEFINE n == TheId(h)
            pred == h.result.pred
<1>1. HandlerOK(h)
  BY DEF TypeInv, HandlerTypes
<1>2. n \in Nodes /\ pred \in SomeNode
  BY <1>1 DEF AnswerRegistration, HandlerOK, HandlerRecord, Command, Commands,
              TheId
<1>3. PICK told \in [Nodes -> MemberRecord] :
        member' = [told EXCEPT
           ![n].pc = "running", ![n].waiting = FALSE, ![n].toTry = <<>>,
           ![n].predecessor = IF pred = Nil THEN @ ELSE pred]
  <2>1. Wire(pred, "successor", n) \in [Nodes -> MemberRecord]
    BY <1>2, WireTypes DEF SomeNode
  <2>. QED BY <2>1 DEF AnswerRegistration, TypeInv
<1>. HIDE DEF n, pred
<1>4. PICK p \in SomeNode : member' = [told EXCEPT
        ![n] = [told[n] EXCEPT !.pc = "running", !.waiting = FALSE,
                               !.toTry = <<>>, !.predecessor = p]]
  BY <1>2, <1>3 DEF MemberRecord
<1>5. <<>> \in Seq(Servers)
  OBVIOUS
<1>6. [told[n] EXCEPT !.pc = "running", !.waiting = FALSE, !.toTry = <<>>,
                      !.predecessor = p] \in MemberRecord
  BY <1>2, <1>5 DEF MemberRecord
<1>7. member' \in [Nodes -> MemberRecord]
  BY <1>2, <1>4, <1>6
<1>. QED BY <1>7, MemberSteps DEF AnswerRegistration, TypeInv

LEMMA AnswerTypes ==
  ASSUME TypeInv, IInv, NEW h \in handlers,
         RefuseRegistration(h) \/ AnswerUnregistration(h)
  PROVE  TypeInv'
<1>1. member \in [Nodes -> MemberRecord] /\ HandlerOK(h)
  BY DEF TypeInv, HandlerTypes
<1>2. <<>> \in Seq(Servers)
  OBVIOUS
<1>3. ASSUME NEW m \in Nodes, NEW pc \in Dead
      PROVE  [member[m] EXCEPT !.pc = pc, !.waiting = FALSE, !.toTry = <<>>]
               \in MemberRecord
  BY <1>1, <1>2 DEF MemberRecord
<1>4. member' \in [Nodes -> MemberRecord]
  BY <1>1, <1>3 DEF RefuseRegistration, AnswerUnregistration, Dead
<1>5. jobs' \subseteq JobRecord
  <2>1. CASE RefuseRegistration(h)
    BY <2>1 DEF RefuseRegistration, TypeInv
  <2>2. CASE AnswerUnregistration(h)
    <3>1. Job(h.server, h.result.pred, h.result.succ) \in JobRecord
      BY <1>1 DEF Job, JobRecord, HandlerOK, HandlerRecord
    <3>. QED BY <2>2, <3>1 DEF AnswerUnregistration, TypeInv
  <2>. QED BY <2>1, <2>2
<1>. QED BY <1>4, <1>5, MemberSteps DEF RefuseRegistration, AnswerUnregistration

LEMMA ReconnectionsTypes ==
  ASSUME TypeInv, NEW s \in Servers, NEW old \in Seq(Nodes), NEW dead
  PROVE  Reconnections(s, old, dead) \subseteq JobRecord
<1>1. ASSUME NEW p \in SomeNode, NEW q \in SomeNode
      PROVE  Job(s, p, q) \in JobRecord
  BY DEF Job, JobRecord
<1>2. Nodes \subseteq SomeNode /\ Nil \in SomeNode
  BY DEF SomeNode
<1>3. \A i \in DOMAIN old : old[i] \in SomeNode
  BY <1>2
<1>4. getHead(replica[s]) \in SomeNode
  BY <1>2 DEF getHead, TypeInv, ReplicaTypes, TypedReplica
<1>. QED BY <1>1, <1>2, <1>3, <1>4 DEF Reconnections

LEMMA ReconnectTypes ==
  ASSUME TypeInv, IInv, NEW h \in handlers,
         ReconnectChain(h) \/ AnswerSubscription(h)
  PROVE  TypeInv'
<1>1. CASE ReconnectChain(h)
  <2>1. h.server \in Servers /\ h.old \in Seq(Nodes)
    BY DEF TypeInv, HandlerTypes, HandlerOK, HandlerRecord
  <2>2. jobs' \subseteq JobRecord
    BY <1>1, <2>1, ReconnectionsTypes DEF ReconnectChain, TypeInv
  <2>. QED BY <1>1, <2>2, MemberSteps DEF ReconnectChain, TypeInv
<1>2. CASE AnswerSubscription(h)
  BY <1>2, MemberSteps DEF AnswerSubscription, TypeInv
<1>. QED BY <1>1, <1>2

LEMMA NeighbourTypes ==
  ASSUME TypeInv, IInv, NEW j \in jobs, SetPredecessor(j) \/ SetSuccessor(j)
  PROVE  TypeInv'
<1>1. j \in JobRecord
  BY DEF TypeInv
<1>2. /\ Wire(j.succ, "predecessor", j.pred) \in [Nodes -> MemberRecord]
      /\ Wire(j.pred, "successor", j.succ) \in [Nodes -> MemberRecord]
  BY <1>1, WireTypes DEF JobRecord
<1>3. member' \in [Nodes -> MemberRecord]
  BY <1>2 DEF SetPredecessor, SetSuccessor, TypeInv
<1>4. [j EXCEPT !.pc = "succ"] \in JobRecord
  BY <1>1 DEF JobRecord
<1>5. jobs' \subseteq JobRecord
  BY <1>4 DEF SetPredecessor, SetSuccessor, TypeInv
<1>. QED BY <1>3, <1>5, MemberSteps DEF SetPredecessor, SetSuccessor

-----------------------------------------------------------------------------
LEMMA InitTypeInv == Init => TypeInv
<1>. SUFFICES ASSUME Init PROVE TypeInv
  OBVIOUS
<1>. USE ControlPlaneAssumption DEF ControlPlaneAssumption
<1>1. RaftTypes
  BY DEF Init, RaftTypes
<1>2. ReplicaTypes
  <2>1. TypedReplica(NoSnapshot.state) /\ NoSnapshot.server = Nil
    <3>1. <<>> \in Seq(Nodes) /\ {} \subseteq Nodes
      OBVIOUS
    <3>2. /\ NoSnapshot.state.chain = <<>> /\ NoSnapshot.state.nodes = {}
          /\ NoSnapshot.state.lastControlIndex = 0
          /\ NoSnapshot.server = Nil
      BY DEF NoSnapshot, EmptyReplica
    <3>. QED BY <3>1, <3>2 DEF TypedReplica
  <2>2. \A s \in Servers : TypedReplica(replica[s])
    BY DEF Init, TypedReplica, ToSet
  <2>. QED BY <2>1, <2>2 DEF Init, ReplicaTypes
<1>3. member \in [Nodes -> MemberRecord]
  <2>1. <<>> \in Seq(Servers)
    OBVIOUS
  <2>2. ASSUME NEW p \in SomeNode, NEW q \in SomeNode, NEW pc \in {"new", "running"}
        PROVE  [pc |-> pc, toTry |-> <<>>, waiting |-> FALSE,
                predecessor |-> p, successor |-> q] \in MemberRecord
    BY <2>1 DEF MemberRecord
  <2>3. ASSUME NEW n \in ToSet(Initial)
        PROVE  /\ (IF Position(n) = 1 THEN Nil ELSE Initial[Position(n) - 1])
                    \in SomeNode
               /\ (IF Position(n) = Len(Initial) THEN Nil
                   ELSE Initial[Position(n) + 1]) \in SomeNode
    <3>1. Position(n) \in DOMAIN Initial
      BY DEF ToSet, Position
    <3>. QED BY <3>1 DEF SomeNode
  <2>4. Nil \in SomeNode
    BY DEF SomeNode
  <2>. QED BY <2>2, <2>3, <2>4 DEF Init
<1>. QED BY <1>1, <1>2, <1>3 DEF Init, TypeInv, HandlerTypes

LEMMA NextTypeInv == IInv /\ TypeInv /\ [Next]_vars => TypeInv'
<1>. SUFFICES ASSUME IInv, TypeInv, [Next]_vars PROVE TypeInv'
  OBVIOUS
<1>1. ASSUME NEW s \in Servers, Elect(s) \/ StepDown(s) \/ CrashServer(s)
      PROVE  TypeInv'
  BY <1>1, ElectTypes, StepDownTypes, EndServerTypes DEF CrashServer
<1>2. ASSUME NEW s \in Servers, Apply(s) PROVE TypeInv'
  BY <1>2, ApplyNextTypes, EndServerTypes DEF Apply, Panic
<1>3. ASSUME NEW s \in Servers, Snapshot(s) \/ Restore(s) PROVE TypeInv'
  BY <1>3, SnapshotsTyped
<1>4. CASE Persist
  BY <1>4, SnapshotsTyped
<1>5. ASSUME NEW s \in Servers, GetSubscriptionNode(s) PROVE TypeInv'
  BY <1>5, GetSubscriptionNodeTypes
<1>6. ASSUME NEW s \in Servers, IdentifyDeadNodes(s) PROVE TypeInv'
  BY <1>6, RemoveNodesTypes, EndServerTypes DEF IdentifyDeadNodes, Panic
<1>7. ASSUME NEW n \in Nodes, StartNode(n) \/ Shutdown(n) \/ CrashNode(n)
                              \/ TryNextServer(n) \/ GiveUp(n)
      PROVE  TypeInv'
  BY <1>7, NodeTypes, TryNextServerTypes, GiveUpTypes
<1>8. ASSUME NEW h \in handlers,
             \/ LookUpPredecessor(h) \/ AnswerRegistration(h)
             \/ RefuseRegistration(h) \/ AnswerUnregistration(h)
             \/ LookUpSubscriptionNode(h) \/ AnswerSubscription(h)
             \/ ReconnectChain(h)
      PROVE  TypeInv'
  BY <1>8, LookUpTypes, AnswerRegistrationTypes, AnswerTypes, ReconnectTypes
<1>9. ASSUME NEW j \in jobs, SetPredecessor(j) \/ SetSuccessor(j)
      PROVE  TypeInv'
  BY <1>9, NeighbourTypes
<1>10. CASE UNCHANGED vars
  <2>1. UNCHANGED <<raftVars, replica, snapshot, handlers, jobs, member,
                    historyVars>>
    BY <1>10 DEF vars
  <2>. QED BY <2>1, MemberSteps DEF TypeInv
<1>. QED BY <1>1, <1>2, <1>3, <1>4, <1>5, <1>6, <1>7, <1>8, <1>9, <1>10
         DEF Next

LEMMA TypeInvariant == Spec => [](IInv /\ TypeInv)
<1>1. Init => IInv /\ TypeInv
  BY InitIInv, InitTypeInv
<1>2. IInv /\ TypeInv /\ [Next]_vars => (IInv /\ TypeInv)'
  BY NextIInv, NextTypeInv
<1>. QED BY <1>1, <1>2, PTL DEF Spec

(* Every variable of the control plane stays within its type: a handler's  *)
(* index is a place in the log that its server has not applied while it    *)
(* waits, and no command makes a replica's chain anything but a list of    *)
(* nodes (applyRaftCommand, Apply, Restore).                               *)
THEOREM ControlPlaneTypeCorrect == Spec => []ControlPlaneTypeOK
<1>1. IInv /\ TypeInv => ControlPlaneTypeOK
  <2>. SUFFICES ASSUME IInv, TypeInv PROVE ControlPlaneTypeOK
    OBVIOUS
  <2>1. \A i \in DOMAIN log : log[i].op \in Ops /\ log[i].ids \subseteq Nodes
    BY DEF IInv, ShapeInv, Commands
  <2>2. \A s \in Servers :
          /\ replica[s].applied \in 0..Len(log)
          /\ replica[s].chain \in Seq(Nodes)
          /\ replica[s].nodes \subseteq Nodes
          /\ replica[s].lastControlIndex \in Nat
    <3>1. LogLengths \subseteq 0..Len(log)
      BY ControlPlaneAssumption
         DEF ControlPlaneAssumption, IInv, ShapeInv, LogLengths
    <3>. QED BY <3>1 DEF IInv, ShapeInv, TypeInv, ReplicaTypes, TypedReplica
  <2>3. \A h \in handlers :
          /\ h.op \in Ops /\ h.ids \subseteq Nodes /\ h.server \in Servers
          /\ h.index \in 0..Len(log)
          /\ h.pc = "raft" /\ h.index > 0 => replica[h.server].applied < h.index
          /\ h.pc \in {"raft", "applied", "call"}
          /\ {h.result.pred, h.result.succ} \subseteq Nodes \cup {Nil}
          /\ h.old \in Seq(Nodes)
    <3>. SUFFICES ASSUME NEW h \in handlers
         PROVE  /\ h.op \in Ops /\ h.ids \subseteq Nodes /\ h.server \in Servers
                /\ h.index \in 0..Len(log)
                /\ h.pc = "raft" /\ h.index > 0 =>
                     replica[h.server].applied < h.index
                /\ h.pc \in {"raft", "applied", "call"}
                /\ {h.result.pred, h.result.succ} \subseteq Nodes \cup {Nil}
                /\ h.old \in Seq(Nodes)
      OBVIOUS
    <3>1. HandlerOK(h) /\ h \in HandlerRecord
      BY DEF TypeInv, HandlerTypes, HandlerOK
    <3>2. h.index \in 0..Len(log)
      BY <3>1 DEF HandlerOK, HandlerRecord, IInv, ShapeInv
    <3>. QED BY <3>1, <3>2 DEF HandlerOK, HandlerRecord, SomeNode
  <2>4. \A j \in jobs :
          /\ j.server \in Servers /\ j.pc \in {"pred", "succ"}
          /\ {j.pred, j.succ} \subseteq Nodes \cup {Nil}
    BY DEF TypeInv, JobRecord, SomeNode
  <2>5. \A n \in Nodes :
          /\ member[n].pc \in Dead \cup {"new", "registering", "running",
                                         "leaving"}
          /\ member[n].waiting \in BOOLEAN
          /\ {member[n].predecessor, member[n].successor} \subseteq
               Nodes \cup {Nil}
    BY DEF TypeInv, MemberRecord, SomeNode
  <2>6. /\ snapshot.pc \in {"none", "persisting", "stored"}
        /\ snapshot.server \in Servers \cup {Nil}
        /\ snapshot.state.chain \in Seq(Nodes)
    BY DEF IInv, ShapeInv, TypeInv, ReplicaTypes, TypedReplica
  <2>. QED BY <2>1, <2>2, <2>3, <2>4, <2>5, <2>6
           DEF ControlPlaneTypeOK, TypeInv, RaftTypes
<1>. QED BY <1>1, TypeInvariant, PTL

-----------------------------------------------------------------------------
(* Replicas whose chain lists their nodes. *)

LEMMA InitMatchInv == Init => MatchInv
<1>. SUFFICES ASSUME Init PROVE MatchInv
  OBVIOUS
<1>1. \A s \in Servers : Matched(replica[s])
  BY ControlPlaneAssumption DEF ControlPlaneAssumption, Init, Matched
<1>2. snapshot.pc = "none" /\ panicked = {}
  BY DEF Init, NoSnapshot
<1>. QED BY <1>1, <1>2 DEF MatchInv

(* What MatchInv speaks of, if snapshots stay or are dropped. *)
LEMMA MatchKept ==
  ASSUME MatchInv, UNCHANGED <<panicked, replica>>,
         \/ snapshot' = snapshot
         \/ snapshot.pc = "persisting" /\ snapshot' = NoSnapshot
  PROVE  MatchInv'
<1>1. Clean' => Clean
  BY DEF Clean
<1>2. snapshot'.pc # "none" => snapshot' = snapshot
  BY DEF NoSnapshot
<1>. QED BY <1>1, <1>2 DEF MatchInv

LEMMA EndServerMatch ==
  ASSUME MatchInv, NEW s \in Servers, EndServer(s), panicked' = panicked
  PROVE  MatchInv'
BY MatchKept DEF EndServer

(* A server panics only if a changed snapshot has been stored. *)
LEMMA PanicMatch ==
  ASSUME MatchInv, NEW s \in Servers, Panic(s), ~Clean PROVE MatchInv'
BY DEF Panic, EndServer, MatchInv, Clean

LEMMA ApplyMatch ==
  ASSUME IInv, TypeInv, MatchInv, NEW s \in Servers, Apply(s) PROVE MatchInv'
<1>. DEFINE i == replica[s].applied + 1
            r == replica[s]
<1>1. log[i] \in Commands /\ DOMAIN replica = Servers /\ IsReplica(r)
  <2>1. r.applied \in Len(Initial)..Len(log) /\ Len(Initial) \in Nat
        /\ log \in Seq(Commands) /\ r.applied < Len(log)
    BY ControlPlaneAssumption
       DEF ControlPlaneAssumption, IInv, ShapeInv, LogLengths, Apply, HasNext
  <2>2. i \in 1..Len(log)
    BY <2>1
  <2>. QED BY <2>1, <2>2 DEF IInv, ShapeInv
<1>2. CASE Panics(r, log[i])
  <2>1. Panic(s)
    BY <1>2 DEF Apply
  <2>2. ~Clean
    BY <1>2, MatchedNeverPanics DEF MatchInv
  <2>. QED BY <2>1, <2>2, PanicMatch
<1>3. CASE ~Panics(r, log[i])
  <2>1. ApplyNext(s)
    BY <1>3 DEF Apply
  <2>2. /\ replica' = [replica EXCEPT ![s] = StateAfter(r, log[i], i)]
        /\ snapshot' \in SnapshotAfter(s, log[i]) /\ panicked' = panicked
    BY <2>1 DEF ApplyNext, StateAfter, raftVars
  <2>3. /\ snapshot'.pc = snapshot.pc
        /\ ~snapshot'.overwritten =>
             ~snapshot.overwritten /\ snapshot'.state = snapshot.state
        /\ snapshot.pc # "persisting" => snapshot' = snapshot
    BY <2>2, SnapshotAfterIsMarked DEF IInv, ShapeInv
  <2>4. Clean' => Clean
    BY <2>3 DEF Clean
  <2>5. Matched(r) => Matched(StateAfter(r, log[i], i))
    <3>1. Matched(r) => Matched(Executed(r, log[i]).state)
      BY <1>1, ExecutedMatched
    <3>. QED BY <3>1 DEF Matched, StateAfter
  <2>. HIDE DEF r, i
  <2>6. Clean' => \A t \in Servers : Matched(replica'[t])
    BY <1>1, <2>2, <2>4, <2>5 DEF MatchInv, r
  <2>7. snapshot'.pc # "none" /\ ~snapshot'.overwritten =>
          Matched(snapshot'.state)
    BY <2>3 DEF MatchInv
  <2>. QED BY <2>2, <2>4, <2>6, <2>7 DEF MatchInv
<1>. QED BY <1>2, <1>3

LEMMA SnapshotMatch ==
  ASSUME IInv, MatchInv, NEW s \in Servers, Snapshot(s) PROVE MatchInv'
<1>1. /\ replica' = replica /\ panicked' = panicked
      /\ snapshot'.state = replica[s] /\ snapshot.pc = "none"
      /\ snapshot'.pc = "persisting" /\ ~snapshot'.overwritten
  BY DEF Snapshot, NoSnapshot, raftVars
<1>. QED BY <1>1 DEF MatchInv, Clean

LEMMA PersistMatch == ASSUME IInv, MatchInv, Persist PROVE MatchInv'
<1>1. /\ replica' = replica /\ panicked' = panicked
      /\ snapshot.pc = "persisting" /\ snapshot'.pc = "stored"
      /\ snapshot'.state = snapshot.state
      /\ snapshot'.overwritten = snapshot.overwritten
  BY DEF Persist, IInv, ShapeInv, IsSnapshot, raftVars
<1>. QED BY <1>1 DEF MatchInv, Clean

LEMMA RestoreMatch ==
  ASSUME IInv, MatchInv, NEW s \in Servers, Restore(s) PROVE MatchInv'
<1>1. /\ replica' = [replica EXCEPT ![s] = snapshot.state]
      /\ snapshot' = snapshot /\ panicked' = panicked
      /\ snapshot.pc = "stored" /\ DOMAIN replica = Servers
  BY DEF Restore, Restored, IInv, ShapeInv, raftVars
<1>. QED BY <1>1 DEF MatchInv, Clean

LEMMA NextMatchInv == IInv /\ TypeInv /\ MatchInv /\ [Next]_vars => MatchInv'
<1>. SUFFICES ASSUME IInv, TypeInv, MatchInv, [Next]_vars PROVE MatchInv'
  OBVIOUS
<1>1. ASSUME NEW s \in Servers, Elect(s) \/ StepDown(s) PROVE MatchInv'
  BY <1>1, MatchKept DEF Elect, StepDown
<1>2. ASSUME NEW s \in Servers, CrashServer(s) PROVE MatchInv'
  BY <1>2, EndServerMatch DEF CrashServer
<1>3. ASSUME NEW s \in Servers, Apply(s) PROVE MatchInv'
  BY <1>3, ApplyMatch
<1>4. ASSUME NEW s \in Servers, Snapshot(s) \/ Restore(s) PROVE MatchInv'
  BY <1>4, SnapshotMatch, RestoreMatch
<1>5. CASE Persist
  BY <1>5, PersistMatch
<1>6. ASSUME NEW s \in Servers, GetSubscriptionNode(s) PROVE MatchInv'
  BY <1>6, MatchKept DEF GetSubscriptionNode, Propose
<1>7. ASSUME NEW s \in Servers, IdentifyDeadNodes(s) PROVE MatchInv'
  <2>1. CASE ToSet(replica[s].chain) \subseteq replica[s].nodes
    BY <1>7, <2>1, MatchKept
       DEF IdentifyDeadNodes, RemoveNodesViaRaft, Propose
  <2>2. CASE ~(ToSet(replica[s].chain) \subseteq replica[s].nodes)
    <3>1. ~Clean
      BY <2>2 DEF MatchInv, Matched
    <3>. QED BY <1>7, <2>2, <3>1, PanicMatch DEF IdentifyDeadNodes
  <2>. QED BY <2>1, <2>2
<1>8. ASSUME NEW n \in Nodes, StartNode(n) \/ Shutdown(n) \/ CrashNode(n)
                              \/ TryNextServer(n) \/ GiveUp(n)
      PROVE  MatchInv'
  BY <1>8, MatchKept
     DEF StartNode, Shutdown, CrashNode, Begin, TryNextServer, Propose, GiveUp,
         raftVars
<1>9. ASSUME NEW h \in handlers,
             \/ LookUpPredecessor(h) \/ AnswerRegistration(h)
             \/ RefuseRegistration(h) \/ AnswerUnregistration(h)
             \/ LookUpSubscriptionNode(h) \/ AnswerSubscription(h)
             \/ ReconnectChain(h)
      PROVE  MatchInv'
  BY <1>9, MatchKept
     DEF LookUpPredecessor, AnswerRegistration, RefuseRegistration,
         AnswerUnregistration, LookUpSubscriptionNode, AnswerSubscription,
         ReconnectChain, raftVars
<1>10. ASSUME NEW j \in jobs, SetPredecessor(j) \/ SetSuccessor(j)
       PROVE  MatchInv'
  BY <1>10, MatchKept DEF SetPredecessor, SetSuccessor, raftVars
<1>11. CASE UNCHANGED vars
  BY <1>11, MatchKept DEF vars, raftVars
<1>. QED BY <1>1, <1>2, <1>3, <1>4, <1>5, <1>6, <1>7, <1>8, <1>9, <1>10,
            <1>11 DEF Next

(* No server panics over its replica, however nodes come, go and are       *)
(* removed while subscriptions walk round the chain: the chain always      *)
(* lists the nodes (registerNode, unregisterNode, updateChain,             *)
(* getSubscriptionNode, identifyDeadNodes).  Only a snapshot that was      *)
(* changed while it was being written can break that.                      *)
THEOREM ServersNeverPanic == Spec => []NoServerPanics
<1>1. Init => MatchInv
  BY InitMatchInv
<1>2. IInv /\ TypeInv /\ MatchInv /\ [Next]_vars => MatchInv'
  BY NextMatchInv
<1>3. MatchInv => NoServerPanics
  BY DEF MatchInv, NoServerPanics, Clean
<1>. QED BY <1>1, <1>2, <1>3, TypeInvariant, PTL DEF Spec

-----------------------------------------------------------------------------
(* Registrations. *)

(* A node becomes known with its registration. *)
LEMMA NodesByRegistration ==
  ASSUME NEW r, IsReplica(r), NEW c \in Commands,
         NEW n \in Executed(r, c).state.nodes
  PROVE  n \in r.nodes \/ c = Registration(n)
<1>1. c.op \in Ops /\ c = Command(c.op, c.ids)
  BY DEF Commands, Command
<1>2. CASE c.op = "register"
  <2>1. PICK m \in Nodes : c.ids = {m}
    BY <1>2 DEF Commands
  <2>2. TheId(c) = m
    BY <2>1 DEF TheId
  <2>3. Executed(r, c).state.nodes \subseteq r.nodes \cup {m}
    BY <1>2, <2>2 DEF Executed, registerNode, appendNode, IsReplica
  <2>4. c = Registration(m)
    BY <1>1, <1>2, <2>1 DEF Registration
  <2>. QED BY <2>3, <2>4
<1>3. CASE c.op = "unregister"
  BY <1>3 DEF Executed, unregisterNode, removeNode, IsReplica
<1>4. CASE c.op = "update"
  <2>1. Executed(r, c).state.nodes = r.nodes \ (c.ids \cap ToSet(r.chain))
    BY <1>4 DEF Executed, updateChain, IsReplica
  <2>. QED BY <2>1
<1>5. CASE c.op = "subscribe"
  BY <1>5 DEF Executed, getSubscriptionNode, IsReplica
<1>. QED BY <1>1, <1>2, <1>3, <1>4, <1>5 DEF Ops

(* The entries of the nodes of what has been applied stay in the log. *)
LEMMA EntriesStay ==
  ASSUME IInv, NEW r, r.applied \in LogLengths, HasEntries(r),
         log' = log \/ \E c \in Commands : log' = Append(log, c)
  PROVE  HasEntries(r)'
<1>1. log \in Seq(Commands) /\ Len(log) \in Nat /\ 1..r.applied \subseteq 1..Len(log)
  BY ControlPlaneAssumption
     DEF ControlPlaneAssumption, IInv, ShapeInv, LogLengths
<1>2. \A i \in 1..Len(log) : log'[i] = log[i]
  BY <1>1
<1>. QED BY <1>1, <1>2 DEF HasEntries

LEMMA EntriesKept ==
  ASSUME IInv, NodesHaveEntries, replica' = replica,
         snapshot' = snapshot \/ snapshot'.pc = "none",
         log' = log \/ \E c \in Commands : log' = Append(log, c)
  PROVE  NodesHaveEntries'
<1>1. \A s \in Servers : HasEntries(replica[s])'
  BY EntriesStay DEF IInv, ShapeInv, NodesHaveEntries
<1>2. snapshot.pc # "none" /\ snapshot' = snapshot => HasEntries(snapshot.state)'
  BY EntriesStay DEF IInv, ShapeInv, NodesHaveEntries
<1>. QED BY <1>1, <1>2 DEF NodesHaveEntries, HasEntries

LEMMA ApplyEntries ==
  ASSUME IInv, TypeInv, NodesHaveEntries, NEW s \in Servers, HasNext(s),
         ApplyNext(s)
  PROVE  NodesHaveEntries'
<1>. DEFINE i == replica[s].applied + 1
            r == replica[s]
<1>1. /\ log[i] \in Commands /\ DOMAIN replica = Servers /\ IsReplica(r)
      /\ r.applied \in Nat
  <2>1. r.applied \in Len(Initial)..Len(log) /\ Len(Initial) \in Nat
        /\ log \in Seq(Commands) /\ r.applied < Len(log)
    BY ControlPlaneAssumption
       DEF ControlPlaneAssumption, IInv, ShapeInv, LogLengths, HasNext
  <2>2. i \in 1..Len(log)
    BY <2>1
  <2>. QED BY <2>1, <2>2 DEF IInv, ShapeInv
<1>2. /\ replica' = [replica EXCEPT ![s] = StateAfter(r, log[i], i)]
      /\ snapshot' \in SnapshotAfter(s, log[i]) /\ log' = log
  BY DEF ApplyNext, StateAfter, raftVars
<1>3. /\ StateAfter(r, log[i], i).applied = i
      /\ StateAfter(r, log[i], i).nodes = Executed(r, log[i]).state.nodes
  <2>1. StateAfter(r, log[i], i).applied = i
    BY <1>1, ExecutedIsReplica
  <2>. QED BY <2>1 DEF StateAfter
<1>4. HasEntries(StateAfter(r, log[i], i))
  <2>. SUFFICES ASSUME NEW n \in Executed(r, log[i]).state.nodes
       PROVE  \E k \in 1..i : log[k] = Registration(n)
    BY <1>3 DEF HasEntries
  <2>1. n \in r.nodes \/ log[i] = Registration(n)
    BY <1>1, NodesByRegistration
  <2>2. n \in r.nodes => \E k \in 1..r.applied : log[k] = Registration(n)
    BY DEF NodesHaveEntries, HasEntries
  <2>3. 1..r.applied \subseteq 1..i /\ i \in 1..i
    BY <1>1
  <2>. QED BY <2>1, <2>2, <2>3
<1>5. /\ snapshot'.pc = snapshot.pc
      /\ snapshot'.state.applied = snapshot.state.applied
      /\ snapshot'.state.nodes = snapshot.state.nodes
  BY <1>2, SnapshotAfterIsMarked, SnapshotAfterTyped
     DEF IInv, ShapeInv, TypeInv, ReplicaTypes
<1>. HIDE DEF i, r
<1>6. \A t \in Servers : HasEntries(replica[t])'
  <2>1. \A t \in Servers : HasEntries(replica'[t])
    BY <1>1, <1>2, <1>4 DEF NodesHaveEntries
  <2>. QED BY <1>2, <2>1 DEF HasEntries
<1>7. snapshot'.pc # "none" => HasEntries(snapshot.state)'
  BY <1>2, <1>5 DEF NodesHaveEntries, HasEntries
<1>. QED BY <1>6, <1>7 DEF NodesHaveEntries

LEMMA SnapshotEntries ==
  ASSUME IInv, NodesHaveEntries, NEW s,
         Persist \/ (s \in Servers /\ (Snapshot(s) \/ Restore(s)))
  PROVE  NodesHaveEntries'
<1>1. log' = log /\ DOMAIN replica = Servers
  BY DEF Persist, Snapshot, Restore, raftVars, IInv, ShapeInv
<1>2. CASE Persist
  <2>1. replica' = replica /\ snapshot'.state = snapshot.state
        /\ snapshot.pc # "none"
    BY <1>2 DEF Persist, IInv, ShapeInv, IsSnapshot
  <2>. QED BY <1>1, <2>1 DEF NodesHaveEntries, HasEntries
<1>3. CASE s \in Servers /\ Snapshot(s)
  <2>1. replica' = replica /\ snapshot'.state = replica[s]
    BY <1>3 DEF Snapshot
  <2>. QED BY <1>1, <1>3, <2>1 DEF NodesHaveEntries, HasEntries
<1>4. CASE s \in Servers /\ Restore(s)
  <2>1. /\ replica' = [replica EXCEPT ![s] = snapshot.state]
        /\ snapshot' = snapshot /\ snapshot.pc # "none"
    BY <1>4 DEF Restore, Restored
  <2>2. \A t \in Servers : HasEntries(replica'[t])
    BY <1>1, <2>1 DEF NodesHaveEntries
  <2>. QED BY <1>1, <2>1, <2>2 DEF NodesHaveEntries, HasEntries
<1>. QED BY <1>2, <1>3, <1>4

(* What a step may do to a node and the handler of its registration: keep  *)
(* both, begin, end both, or lose the answer.                              *)
Keeps(n) ==
  /\ member'[n].pc = member[n].pc /\ member'[n].waiting = member[n].waiting
  /\ \A h \in handlers :
       h.op = "register" /\ h.ids = {n} => h \in handlers'

Begins(n) == member[n].pc = "new" /\ member'[n].pc = "registering"

HasNoHandler(n) == ~\E h \in handlers : h.op = "register" /\ h.ids = {n}

Ends(n) ==
  /\ HasNoHandler(n)'
  /\ member'[n].pc \notin {"new", "registering"}
  /\ member'[n].pc = "refused" /\ n \notin answerLost' =>
       ~\E i \in DOMAIN log : log[i] = Registration(n)

LosesAnswer(n) ==
  /\ HasNoHandler(n)'
  /\ n \in answerLost' /\ member'[n].pc = member[n].pc

LEMMA NodesStep ==
  ASSUME IInv, AskedOnce, EntryHasHandler,
         \/ log' = log
         \/ \E c \in Commands : c.op # "register" /\ log' = Append(log, c),
         \A h \in handlers' : h.op \in {"register", "unregister"} => h \in handlers,
         answerLost \subseteq answerLost',
         \A n \in Nodes : Keeps(n) \/ Begins(n) \/ Ends(n) \/ LosesAnswer(n)
  PROVE  AskedOnce' /\ EntryHasHandler'
<1>1. ASSUME NEW h \in handlers', NEW n \in Nodes, h.ids = {n}
      PROVE  /\ h.op = "register" =>
                  member'[n].pc = "registering" /\ member'[n].waiting
             /\ h.op = "unregister" => member'[n].pc \notin {"new", "registering"}
  <2>1. CASE h.op = "register"
    <3>1. /\ h \in handlers /\ ~HasNoHandler(n)'
          /\ member[n].pc = "registering" /\ member[n].waiting
      BY <1>1, <2>1 DEF AskedOnce, HasNoHandler
    <3>. QED BY <2>1, <3>1 DEF Keeps, Begins, Ends, LosesAnswer
  <2>2. CASE h.op = "unregister"
    <3>1. h \in handlers /\ member[n].pc \notin {"new", "registering"}
      BY <1>1, <2>2 DEF AskedOnce
    <3>. QED BY <2>2, <3>1 DEF Keeps, Begins, Ends, LosesAnswer
  <2>. QED BY <2>1, <2>2
<1>2. AskedOnce'
  <2>1. \A h, g \in handlers' :
          h.op = "register" /\ g.op = "register" /\ h.ids = g.ids => h = g
    BY DEF AskedOnce
  <2>. QED BY <1>1, <2>1, Zenon DEF AskedOnce
<1>3. ASSUME NEW i \in DOMAIN log', NEW n \in Nodes, log'[i] = Registration(n)
      PROVE  i \in DOMAIN log /\ log[i] = Registration(n)
  <2>1. log \in Seq(Commands) /\ Len(log) \in Nat
    BY DEF IInv, ShapeInv
  <2>2. ASSUME NEW c \in Commands, c.op # "register", log' = Append(log, c)
        PROVE  i \in DOMAIN log /\ log[i] = Registration(n)
    <3>1. i = Len(log) + 1 => log'[i] = c
      BY <2>1, <2>2
    <3>2. Registration(n).op = "register"
      BY DEF Registration, Command
    <3>3. i # Len(log) + 1
      BY <1>3, <2>2, <3>1, <3>2
    <3>. QED BY <1>3, <2>1, <2>2, <3>3
  <2>. QED BY <1>3, <2>2
<1>4. ASSUME NEW n \in Nodes, n \notin answerLost',
             NEW i \in DOMAIN log', log'[i] = Registration(n)
      PROVE  /\ member'[n].pc \notin {"new", "refused"}
             /\ member'[n].pc = "registering" =>
                  \E h \in handlers' :
                    /\ h.op = "register" /\ h.ids = {n} /\ h.index = i
                    /\ h.pc = "raft" \/ h.result.ok
  <2>1. /\ i \in DOMAIN log /\ log[i] = Registration(n)
        /\ member[n].pc \notin {"new", "refused"}
        /\ member[n].pc = "registering" =>
             \E h \in handlers :
               /\ h.op = "register" /\ h.ids = {n} /\ h.index = i
               /\ h.pc = "raft" \/ h.result.ok
    BY <1>3, <1>4 DEF EntryHasHandler
  <2>2. Keeps(n) \/ Ends(n)
    BY <1>4, <2>1 DEF Begins, LosesAnswer
  <2>3. CASE Keeps(n)
    BY <2>1, <2>3 DEF Keeps
  <2>4. CASE Ends(n)
    BY <1>4, <2>1, <2>4 DEF Ends
  <2>. QED BY <2>2, <2>3, <2>4
<1>5. EntryHasHandler'
  BY <1>4, Zenon DEF EntryHasHandler, Registration, Command
<1>. QED BY <1>2, <1>5

(* Handlers gone take with them the answers of the nodes that waited. *)
LEMMA DisconnectStep ==
  ASSUME IInv, TypeInv, AskedOnce, EntryHasHandler, NEW gone, NEW goroutines,
         Disconnect(gone, goroutines), log' = log,
         gone \subseteq handlers, handlers \ gone \subseteq handlers',
         \A h \in handlers' :
           h.op \in {"register", "unregister"} => h \in handlers \ gone
  PROVE  AskedOnce' /\ EntryHasHandler'
<1>1. member \in [Nodes -> MemberRecord]
  BY DEF TypeInv
<1>2. \A n \in Nodes : /\ member'[n].pc = member[n].pc
                       /\ n \notin Callers(gone) =>
                            member'[n].waiting = member[n].waiting
  BY <1>1 DEF Disconnect, MemberRecord
<1>3. ASSUME NEW n \in Nodes PROVE Keeps(n) \/ Ends(n) \/ LosesAnswer(n)
  <2>1. CASE \E h \in gone : h.op = "register" /\ h.ids = {n}
    <3>1. PICK h \in gone : h.op = "register" /\ h.ids = {n}
      BY <2>1
    <3>2. member[n].pc = "registering" /\ member[n].waiting
      BY <3>1 DEF AskedOnce
    <3>3. n \in Callers(gone)
      BY <3>1, <3>2 DEF Callers
    <3>4. n \in answerLost'
      BY <3>2, <3>3 DEF Disconnect
    <3>5. HasNoHandler(n)'
      BY <3>1 DEF AskedOnce, HasNoHandler
    <3>. QED BY <1>2, <3>4, <3>5 DEF LosesAnswer
  <2>2. CASE /\ ~\E h \in gone : h.op = "register" /\ h.ids = {n}
             /\ \E h \in handlers : h.op = "register" /\ h.ids = {n}
    <3>1. PICK h \in handlers : h.op = "register" /\ h.ids = {n}
      BY <2>2
    <3>2. member[n].pc = "registering"
      BY <3>1 DEF AskedOnce
    <3>3. n \notin Callers(gone)
      BY <2>2, <3>2 DEF Callers, AskedOnce
    <3>. QED BY <1>2, <2>2, <3>3 DEF Keeps
  <2>3. CASE ~\E h \in handlers : h.op = "register" /\ h.ids = {n}
    <3>1. CASE n \notin Callers(gone)
      BY <1>2, <2>3, <3>1 DEF Keeps
    <3>2. CASE n \in Callers(gone)
      <4>1. member[n].pc \notin {"new", "registering"}
        BY <2>3, <3>2 DEF Callers, AskedOnce
      <4>2. HasNoHandler(n)'
        BY <2>3 DEF HasNoHandler
      <4>3. member[n].pc = "refused" /\ n \notin answerLost' =>
              ~\E i \in DOMAIN log : log[i] = Registration(n)
        BY DEF EntryHasHandler, Disconnect
      <4>. QED BY <1>2, <4>1, <4>2, <4>3 DEF Ends
    <3>. QED BY <3>1, <3>2
  <2>. QED BY <2>1, <2>2, <2>3
<1>4. answerLost \subseteq answerLost'
  BY DEF Disconnect
<1>. QED BY <1>3, <1>4, NodesStep

LEMMA LookUpStep ==
  ASSUME AskedOnce, EntryHasHandler, HandlerTypes, NEW h \in handlers,
         LookUpPredecessor(h)
  PROVE  AskedOnce' /\ EntryHasHandler'
<1>. DEFINE pred == Known(h.server, h.result.pred)
            new == [h EXCEPT !.pc = "call",
                             !.result = [h.result EXCEPT !.pred = pred]]
<1>1. /\ handlers' = (handlers \ {h}) \cup {new}
      /\ UNCHANGED <<log, member, answerLost>>
      /\ h.op = "register" /\ h.result.ok
  <2>1. h \in HandlerRecord
    BY DEF HandlerTypes, HandlerOK
  <2>2. handlers' = (handlers \ {h}) \cup
            {[h EXCEPT !.pc = "call", !.result.pred = Known(h.server, @)]}
    BY DEF LookUpPredecessor
  <2>3. [h EXCEPT !.pc = "call", !.result.pred = Known(h.server, @)] = new
    BY <2>1 DEF HandlerRecord
  <2>. QED BY <2>2, <2>3 DEF LookUpPredecessor, raftVars, historyVars
<1>2. /\ new.op = h.op /\ new.ids = h.ids /\ new.index = h.index
      /\ new.result.ok = h.result.ok
  BY DEF HandlerTypes, HandlerOK, HandlerRecord
<1>. HIDE DEF new, pred
<1>3. AskedOnce'
  BY <1>1, <1>2 DEF AskedOnce
<1>4. ASSUME NEW n \in Nodes \ answerLost, NEW i \in DOMAIN log,
             log[i] = Registration(n), member[n].pc = "registering"
      PROVE  \E g \in handlers' :
               /\ g.op = "register" /\ g.ids = {n} /\ g.index = i
               /\ g.pc = "raft" \/ g.result.ok
  <2>1. PICK g \in handlers :
          /\ g.op = "register" /\ g.ids = {n} /\ g.index = i
          /\ g.pc = "raft" \/ g.result.ok
    BY <1>4 DEF EntryHasHandler
  <2>2. CASE g = h
    BY <1>1, <1>2, <2>1, <2>2
  <2>3. CASE g # h
    BY <1>1, <2>1, <2>3
  <2>. QED BY <2>2, <2>3
<1>5. EntryHasHandler'
  BY <1>1, <1>4 DEF EntryHasHandler, Registration, Command
<1>. QED BY <1>3, <1>5

(* A registration that was asked for once, and whose answer was not lost,  *)
(* succeeds when it is applied.                                            *)
LEMMA ApplyStep ==
  ASSUME IInv, TypeInv, NodesHaveEntries, AskedOnce, EntryHasHandler,
         NEW s \in Servers, HasNext(s), ApplyNext(s)
  PROVE  AskedOnce' /\ EntryHasHandler'
<1>. DEFINE i == replica[s].applied + 1
            r == replica[s]
            waiting == {h \in handlers : h.server = s /\ h.index = i}
<1>. PICK result : result = Executed(r, log[i]).result
  OBVIOUS
<1>. DEFINE New(h) == [h EXCEPT !.pc = "applied", !.result = result]
<1>1. /\ handlers' = (handlers \ waiting) \cup {New(h) : h \in waiting}
      /\ UNCHANGED <<log, member, answerLost>>
  BY DEF ApplyNext, raftVars, historyVars
<1>2. \A h \in handlers :
        /\ New(h).op = h.op /\ New(h).ids = h.ids /\ New(h).index = h.index
        /\ New(h).result = result
  BY DEF TypeInv, HandlerTypes, HandlerOK, HandlerRecord
<1>3. /\ log \in Seq(Commands) /\ r.applied \in Nat /\ i \in 1..Len(log)
      /\ Len(log) \in Nat
  <2>1. r.applied \in Len(Initial)..Len(log) /\ Len(Initial) \in Nat
        /\ log \in Seq(Commands) /\ r.applied < Len(log)
    BY ControlPlaneAssumption
       DEF ControlPlaneAssumption, IInv, ShapeInv, LogLengths, HasNext
  <2>. QED BY <2>1
<1>4. ASSUME NEW n \in Nodes \ answerLost, log[i] = Registration(n),
             NEW h \in handlers, h.op = "register", h.ids = {n}, h.index = i
      PROVE  result.ok
  <2>1. n \notin r.nodes
    <3>. SUFFICES ASSUME n \in r.nodes PROVE FALSE
      OBVIOUS
    <3>1. PICK k \in 1..r.applied : log[k] = Registration(n)
      BY DEF NodesHaveEntries, HasEntries
    <3>2. k \in DOMAIN log /\ k # i
      BY <1>3, <3>1
    <3>3. member[n].pc = "registering"
      BY <1>4 DEF AskedOnce
    <3>4. PICK g \in handlers : g.op = "register" /\ g.ids = {n} /\ g.index = k
      BY <3>1, <3>2, <3>3 DEF EntryHasHandler
    <3>5. g = h
      BY <1>4, <3>4 DEF AskedOnce
    <3>. QED BY <1>4, <3>2, <3>4, <3>5
  <2>2. log[i].op = "register" /\ TheId(log[i]) = n
    BY <1>4 DEF Registration, Command, TheId
  <2>3. Executed(r, log[i]).result = Result(getTail(r), Nil)
    BY <2>1, <2>2 DEF Executed, registerNode
  <2>. QED BY <2>3 DEF Result
<1>. HIDE DEF New, i
<1>5. AskedOnce'
  BY <1>1, <1>2 DEF AskedOnce
<1>6. ASSUME NEW n \in Nodes \ answerLost, NEW k \in DOMAIN log,
             log[k] = Registration(n), member[n].pc = "registering"
      PROVE  \E g \in handlers' :
               /\ g.op = "register" /\ g.ids = {n} /\ g.index = k
               /\ g.pc = "raft" \/ g.result.ok
  <2>1. PICK h \in handlers :
          /\ h.op = "register" /\ h.ids = {n} /\ h.index = k
          /\ h.pc = "raft" \/ h.result.ok
    BY <1>6 DEF EntryHasHandler
  <2>2. CASE h \notin waiting
    <3>1. h \in handlers'
      BY <1>1, <2>2
    <3>. QED BY <2>1, <3>1
  <2>3. CASE h \in waiting
    <3>1. h.index = i /\ New(h) \in handlers'
      BY <1>1, <2>3
    <3>2. result.ok
      BY <1>4, <1>6, <2>1, <3>1
    <3>. QED BY <1>2, <2>1, <3>1, <3>2
  <2>. QED BY <2>2, <2>3
<1>7. EntryHasHandler'
  BY <1>1, <1>6 DEF EntryHasHandler, Registration, Command
<1>. QED BY <1>5, <1>7

(* A node asks the next server to register or to unregister it. *)
LEMMA TryStep ==
  ASSUME IInv, TypeInv, AskedOnce, EntryHasHandler, NEW n \in Nodes,
         TryNextServer(n)
  PROVE  AskedOnce' /\ EntryHasHandler'
<1>. DEFINE s == Head(member[n].toTry)
            op == IF member[n].pc = "registering" THEN "register"
                  ELSE "unregister"
            new == Handler(s, op, {n}, <<>>)
<1>1. member \in [Nodes -> MemberRecord]
  BY DEF TypeInv
<1>2. /\ member' = [member EXCEPT
           ![n] = [member[n] EXCEPT !.toTry = Tail(member[n].toTry),
                                    !.waiting = IsLeader(s)]]
      /\ member[n].pc \in {"registering", "leaving"} /\ ~member[n].waiting
      /\ answerLost' = answerLost
  BY <1>1 DEF TryNextServer, Asking
<1>3. \A m \in Nodes : /\ member'[m].pc = member[m].pc
                       /\ m # n => member'[m].waiting = member[m].waiting
      /\ member'[n].waiting = IsLeader(s)
  BY <1>1, <1>2 DEF MemberRecord
<1>4. HasNoHandler(n)
  BY <1>2 DEF AskedOnce, HasNoHandler
<1>5. log \in Seq(Commands) /\ Len(log) \in Nat
  BY DEF IInv, ShapeInv
<1>6. CASE ~IsLeader(s)
  <2>1. handlers' = handlers /\ log' = log
    BY <1>6 DEF TryNextServer, raftVars
  <2>2. \A m \in Nodes : Keeps(m)
    <3>1. ~member[n].waiting /\ ~member'[n].waiting
          /\ member[n].waiting \in BOOLEAN /\ member'[n].waiting \in BOOLEAN
      BY <1>1, <1>2, <1>3, <1>6 DEF MemberRecord, IsLeader
    <3>. QED BY <1>3, <2>1, <3>1 DEF Keeps
  <2>. QED BY <1>2, <2>1, <2>2, NodesStep
<1>7. CASE IsLeader(s)
  <2>1. Propose(s, op, {n}, <<>>)
    BY <1>7 DEF TryNextServer
  <2>2. /\ handlers' = handlers \cup {new}
        /\ log' = IF leads[s] = term THEN Append(log, Command(op, {n})) ELSE log
    BY <2>1 DEF Propose
  <2>3. /\ new.op = op /\ new.ids = {n} /\ new.pc = "raft"
        /\ new.index = IF leads[s] = term THEN Len(log) + 1 ELSE 0
    BY DEF Handler
  <2>. HIDE DEF s, new
  <2>4. member'[n].waiting
    BY <1>3, <1>7
  <2>5. AskedOnce'
    <3>1. \A h \in handlers', m \in Nodes : h.ids = {m} =>
            /\ h.op = "register" =>
                 member'[m].pc = "registering" /\ member'[m].waiting
            /\ h.op = "unregister" => member'[m].pc \notin {"new", "registering"}
      BY <1>2, <1>3, <2>2, <2>3, <2>4 DEF AskedOnce
    <3>2. \A h, g \in handlers' :
            h.op = "register" /\ g.op = "register" /\ h.ids = g.ids => h = g
      BY <1>4, <2>2, <2>3 DEF AskedOnce, HasNoHandler
    <3>. QED BY <3>1, <3>2, Zenon DEF AskedOnce
  <2>6. ASSUME NEW m \in Nodes \ answerLost, NEW k \in DOMAIN log',
               log'[k] = Registration(m)
        PROVE  /\ member[m].pc \notin {"new", "refused"}
               /\ member[m].pc = "registering" =>
                    \E h \in handlers' :
                      /\ h.op = "register" /\ h.ids = {m} /\ h.index = k
                      /\ h.pc = "raft" \/ h.result.ok
    <3>1. CASE k \in DOMAIN log /\ log[k] = Registration(m)
      BY <2>2, <3>1 DEF EntryHasHandler
    <3>2. CASE ~(k \in DOMAIN log /\ log[k] = Registration(m))
      <4>1. leads[s] = term /\ log' = Append(log, Command(op, {n}))
            /\ k = Len(log) + 1
        BY <1>5, <2>2, <2>6, <3>2
      <4>2. Command(op, {n}) = Registration(m)
        BY <1>5, <2>6, <4>1
      <4>3. op = "register" /\ m = n
        BY <4>2 DEF Command, Registration
      <4>4. new \in handlers' /\ new.index = k
        BY <2>2, <2>3, <4>1
      <4>. QED BY <1>2, <2>3, <4>3, <4>4
    <3>. QED BY <3>1, <3>2
  <2>7. EntryHasHandler'
    BY <1>2, <1>3, <2>6 DEF EntryHasHandler, Registration, Command
  <2>. QED BY <2>5, <2>7
<1>. QED BY <1>6, <1>7

LEMMA NodesAsk ==
  ASSUME IInv, TypeInv, AskedOnce, EntryHasHandler, NEW n \in Nodes,
         StartNode(n) \/ Shutdown(n) \/ CrashNode(n) \/ GiveUp(n)
  PROVE  AskedOnce' /\ EntryHasHandler'
<1>1. member \in [Nodes -> MemberRecord]
  BY DEF TypeInv
<1>2. UNCHANGED <<log, handlers, answerLost>>
  BY DEF StartNode, Shutdown, CrashNode, GiveUp, Begin, raftVars, historyVars
<1>3. \A m \in Nodes \ {n} : member'[m] = member[m]
  BY <1>1 DEF StartNode, Shutdown, CrashNode, GiveUp, Begin
<1>4. CASE StartNode(n)
  <2>1. Begins(n)
    BY <1>1, <1>4 DEF StartNode, Begin, Begins, MemberRecord
  <2>. QED BY <1>2, <1>3, <2>1, NodesStep DEF Keeps
<1>5. CASE Shutdown(n) \/ CrashNode(n)
  <2>1. member[n].pc = "running" /\ member'[n].pc \in {"leaving", "crashed"}
    BY <1>1, <1>5 DEF Shutdown, CrashNode, Begin, MemberRecord
  <2>2. HasNoHandler(n)'
    BY <1>2, <2>1 DEF HasNoHandler, AskedOnce
  <2>3. Ends(n)
    BY <2>1, <2>2 DEF Ends
  <2>. QED BY <1>2, <1>3, <2>3, NodesStep DEF Keeps
<1>6. CASE GiveUp(n)
  <2>1. /\ member'[n].pc = IF member[n].pc = "registering" THEN "refused"
                           ELSE "stopped"
        /\ member[n].pc = "registering" => ~member[n].waiting
    BY <1>1, <1>6 DEF GiveUp, Asking, MemberRecord
  <2>2. HasNoHandler(n) /\ HasNoHandler(n)'
    BY <1>2, <1>6, <2>1 DEF HasNoHandler, AskedOnce, GiveUp, Asking
  <2>3. member'[n].pc = "refused" /\ n \notin answerLost' =>
          ~\E i \in DOMAIN log : log[i] = Registration(n)
    BY <1>2, <2>1, <2>2 DEF EntryHasHandler, HasNoHandler
  <2>4. Ends(n)
    BY <2>1, <2>2, <2>3 DEF Ends
  <2>. QED BY <1>2, <1>3, <2>4, NodesStep DEF Keeps
<1>. QED BY <1>4, <1>5, <1>6

LEMMA AnswerStep ==
  ASSUME IInv, TypeInv, AskedOnce, EntryHasHandler, NEW h \in handlers,
         \/ AnswerRegistration(h) \/ RefuseRegistration(h)
         \/ AnswerUnregistration(h)
  PROVE  AskedOnce' /\ EntryHasHandler'
<1>1. member \in [Nodes -> MemberRecord] /\ HandlerOK(h)
  BY DEF TypeInv, HandlerTypes
<1>2. UNCHANGED <<log, answerLost>> /\ handlers' = handlers \ {h}
  BY DEF AnswerRegistration, RefuseRegistration, AnswerUnregistration, raftVars,
         historyVars
<1>3. h.op \in {"register", "unregister"}
  BY DEF AnswerRegistration, RefuseRegistration, AnswerUnregistration
<1>4. PICK n \in Nodes : h.ids = {n} /\ TheId(h) = n
  BY <1>1, <1>3 DEF HandlerOK, Command, Commands, TheId
<1>5. \A m \in Nodes \ {n} : h \notin {g \in handlers : g.ids = {m}}
  BY <1>4
<1>6. h.op = "register" => HasNoHandler(n)'
  BY <1>2, <1>4 DEF HasNoHandler, AskedOnce
<1>7. CASE AnswerRegistration(h)
  <2>1. h.op = "register"
    BY <1>7 DEF AnswerRegistration
  <2>2. /\ \A m \in Nodes \ {n} : /\ member'[m].pc = member[m].pc
                                  /\ member'[m].waiting = member[m].waiting
        /\ member'[n].pc = "running"
    <3>1. h.result.pred \in SomeNode /\ n \in SomeNode
      BY <1>1 DEF HandlerOK, HandlerRecord, SomeNode
    <3>2. PICK told \in [Nodes -> MemberRecord] :
            /\ \A m \in Nodes : told[m].pc = member[m].pc
                             /\ told[m].waiting = member[m].waiting
            /\ member' = [told EXCEPT
                 ![n].pc = "running", ![n].waiting = FALSE, ![n].toTry = <<>>,
                 ![n].predecessor =
                    IF h.result.pred = Nil THEN @ ELSE h.result.pred]
      <4>1. CASE Reaches(h.result.pred)
        BY <1>4, <1>7, <3>1, <4>1, WireTypes DEF AnswerRegistration
      <4>2. CASE ~Reaches(h.result.pred)
        BY <1>1, <1>4, <1>7, <4>2 DEF AnswerRegistration
      <4>. QED BY <4>1, <4>2
    <3>. QED BY <3>2 DEF MemberRecord
  <2>3. HasNoHandler(n)' /\ member'[n].pc = "running"
    BY <1>6, <2>1, <2>2
  <2>4. Ends(n)
    BY <2>3 DEF Ends
  <2>5. \A m \in Nodes \ {n} : Keeps(m)
    BY <1>2, <1>4, <2>2 DEF Keeps
  <2>. QED BY <1>2, <2>4, <2>5, NodesStep
<1>8. CASE RefuseRegistration(h)
  <2>1. h.op = "register" /\ h.pc = "applied" /\ ~h.result.ok
    BY <1>8 DEF RefuseRegistration
  <2>2. /\ \A m \in Nodes \ {n} : member'[m] = member[m]
        /\ member'[n].pc = "refused"
    BY <1>1, <1>4, <1>8 DEF RefuseRegistration, MemberRecord
  <2>3. ASSUME n \notin answerLost', NEW i \in DOMAIN log,
               log[i] = Registration(n)
        PROVE  FALSE
    <3>1. member[n].pc = "registering"
      BY <1>4, <2>1 DEF AskedOnce
    <3>2. PICK g \in handlers : /\ g.op = "register" /\ g.ids = {n}
                                /\ g.pc = "raft" \/ g.result.ok
      BY <1>2, <2>3, <3>1 DEF EntryHasHandler
    <3>3. g = h
      BY <1>4, <2>1, <3>2 DEF AskedOnce
    <3>. QED BY <2>1, <3>2, <3>3
  <2>4. Ends(n)
    BY <1>6, <2>1, <2>2, <2>3 DEF Ends
  <2>5. \A m \in Nodes \ {n} : Keeps(m)
    BY <1>2, <1>4, <2>2 DEF Keeps
  <2>. QED BY <1>2, <2>4, <2>5, NodesStep
<1>9. CASE AnswerUnregistration(h)
  <2>1. h.op = "unregister"
    BY <1>9 DEF AnswerUnregistration
  <2>2. /\ \A m \in Nodes \ {n} : member'[m] = member[m]
        /\ member'[n] = member[n] \/ member'[n].pc = "stopped"
    BY <1>1, <1>4, <1>9 DEF AnswerUnregistration, MemberRecord
  <2>3. HasNoHandler(n)'
    BY <1>2, <1>4, <2>1 DEF HasNoHandler, AskedOnce
  <2>4. Keeps(n) \/ Ends(n)
    BY <1>2, <2>1, <2>2, <2>3 DEF Keeps, Ends
  <2>5. \A m \in Nodes \ {n} : Keeps(m)
    BY <1>2, <1>4, <2>2 DEF Keeps
  <2>. QED BY <1>2, <2>4, <2>5, NodesStep
<1>. QED BY <1>7, <1>8, <1>9

(* What other steps leave of registrations. *)
LEMMA OtherSteps ==
  ASSUME IInv, AskedOnce, EntryHasHandler, UNCHANGED answerLost,
         \/ log' = log
         \/ \E c \in Commands : c.op # "register" /\ log' = Append(log, c),
         \A n \in Nodes : /\ member'[n].pc = member[n].pc
                          /\ member'[n].waiting = member[n].waiting,
         \A h \in handlers' : h.op \in {"register", "unregister"} => h \in handlers,
         \A h \in handlers : h.op = "register" => h \in handlers'
  PROVE  AskedOnce' /\ EntryHasHandler'
BY NodesStep DEF Keeps

LEMMA ProposedStep ==
  ASSUME IInv, AskedOnce, EntryHasHandler, NEW s, NEW op, NEW ids, NEW old,
         Propose(s, op, ids, old), op \notin {"register", "unregister"},
         Command(op, ids) \in Commands, UNCHANGED <<member, answerLost>>
  PROVE  AskedOnce' /\ EntryHasHandler'
<1>1. handlers' = handlers \cup {Handler(s, op, ids, old)}
      /\ Handler(s, op, ids, old).op = op
  BY DEF Propose, Handler
<1>2. \/ log' = log
      \/ \E c \in Commands : c.op # "register" /\ log' = Append(log, c)
  BY DEF Propose, Command
<1>. QED BY <1>1, <1>2, OtherSteps

LEMMA RegistrationInvInit == Init => RegistrationInv
<1>. SUFFICES ASSUME Init PROVE RegistrationInv
  OBVIOUS
<1>1. \A n \in Nodes, i \in DOMAIN log :
        log[i] = Registration(n) => n = Initial[i] /\ i \in DOMAIN Initial
  BY DEF Init, Registration, Command
<1>2. \A n \in ToSet(Initial) :
        \E i \in 1..Len(Initial) : log[i] = Registration(n)
  <2>1. DOMAIN Initial = 1..Len(Initial)
    BY ControlPlaneAssumption DEF ControlPlaneAssumption
  <2>2. \A i \in DOMAIN Initial : log[i] = Registration(Initial[i])
    BY DEF Init, Registration
  <2>. QED BY <2>1, <2>2 DEF ToSet
<1>3. NodesHaveEntries
  BY <1>2 DEF Init, NodesHaveEntries, HasEntries, NoSnapshot
<1>4. AskedOnce
  BY DEF Init, AskedOnce
<1>5. EntryHasHandler
  <2>1. \A n \in ToSet(Initial) \cap Nodes : member[n].pc = "running"
    BY DEF Init
  <2>. QED BY <1>1, <2>1 DEF EntryHasHandler, ToSet
<1>. QED BY <1>3, <1>4, <1>5 DEF RegistrationInv

LEMMA NextRegistrationInv ==
  IInv /\ TypeInv /\ RegistrationInv /\ [Next]_vars => RegistrationInv'
<1>. SUFFICES ASSUME IInv, TypeInv, NodesHaveEntries, AskedOnce, EntryHasHandler,
                     [Next]_vars
     PROVE  NodesHaveEntries' /\ AskedOnce' /\ EntryHasHandler'
  BY DEF RegistrationInv
<1>. DEFINE Goal == NodesHaveEntries' /\ AskedOnce' /\ EntryHasHandler'
<1>1. ASSUME NEW s \in Servers, Elect(s) PROVE Goal
  BY <1>1, EntriesKept, OtherSteps DEF Elect, historyVars
<1>2. ASSUME NEW s \in Servers, StepDown(s) PROVE Goal
  <2>. DEFINE gone == {h \in handlers : h.server = s /\ h.pc = "raft"}
              monitors == {h \in gone : h.op = "update"}
  <2>1. /\ handlers' = (handlers \ gone) \cup
                         {[h EXCEPT !.pc = "applied"] : h \in monitors}
        /\ Disconnect(gone, {}) /\ UNCHANGED <<log, replica, snapshot>>
    BY <1>2 DEF StepDown
  <2>2. \A h \in monitors : [h EXCEPT !.pc = "applied"].op = "update"
    BY DEF TypeInv, HandlerTypes, HandlerOK, HandlerRecord
  <2>3. \A h \in handlers' :
          h.op \in {"register", "unregister"} => h \in handlers \ gone
    BY <2>1, <2>2
  <2>4. gone \subseteq handlers
    OBVIOUS
  <2>. HIDE DEF gone
  <2>. QED BY <2>1, <2>3, <2>4, EntriesKept, DisconnectStep
<1>3. ASSUME NEW s \in Servers, EndServer(s) PROVE Goal
  <2>. DEFINE gone == {h \in handlers : h.server = s}
              mine == {j \in jobs : j.server = s}
  <2>1. /\ handlers' = handlers \ gone /\ Disconnect(gone, mine)
        /\ UNCHANGED <<log, replica>>
        /\ snapshot' = snapshot \/ snapshot'.pc = "none"
    BY <1>3 DEF EndServer, NoSnapshot
  <2>2. gone \subseteq handlers
    OBVIOUS
  <2>. HIDE DEF gone
  <2>. QED BY <2>1, <2>2, EntriesKept, DisconnectStep
<1>4. ASSUME NEW s \in Servers, Apply(s) PROVE Goal
  BY <1>3, <1>4, ApplyEntries, ApplyStep DEF Apply, Panic
<1>5. ASSUME NEW s \in Servers, Snapshot(s) \/ Restore(s) PROVE Goal
  <2>1. UNCHANGED <<log, handlers, member, answerLost>>
    BY <1>5 DEF Snapshot, Restore, raftVars, historyVars
  <2>. QED BY <1>5, <2>1, SnapshotEntries, OtherSteps
<1>6. ASSUME Persist PROVE Goal
  <2>1. UNCHANGED <<log, handlers, member, answerLost>>
    BY <1>6 DEF Persist, raftVars, historyVars
  <2>. QED BY <1>6, <2>1, SnapshotEntries, OtherSteps
<1>7. ASSUME NEW s, NEW op, NEW ids, NEW old, Propose(s, op, ids, old),
             Command(op, ids) \in Commands, UNCHANGED <<replica, snapshot>>
      PROVE  NodesHaveEntries'
  BY <1>7, EntriesKept DEF Propose
<1>8. ASSUME NEW s \in Servers, GetSubscriptionNode(s) PROVE Goal
  BY <1>7, <1>8, ProposedCommands, ProposedStep DEF GetSubscriptionNode
<1>9. ASSUME NEW s \in Servers, IdentifyDeadNodes(s) PROVE Goal
  <2>1. CASE Panic(s)
    BY <1>3, <2>1 DEF Panic
  <2>2. CASE RemoveNodesViaRaft(s)
    <3>1. PICK dead \in SUBSET (ToSet(replica[s].chain) \cap Silent) :
            /\ Propose(s, "update", dead, replica[s].chain)
            /\ UNCHANGED <<replica, snapshot, member, answerLost>>
      BY <2>2 DEF RemoveNodesViaRaft
    <3>2. dead \in SUBSET Nodes
      BY ControlPlaneAssumption DEF ControlPlaneAssumption, Silent
    <3>. QED BY <1>7, <3>1, <3>2, ProposedCommands, ProposedStep
  <2>. QED BY <1>9, <2>1, <2>2 DEF IdentifyDeadNodes
<1>10. ASSUME NEW n \in Nodes, StartNode(n) \/ Shutdown(n) \/ CrashNode(n)
                               \/ GiveUp(n)
       PROVE  Goal
  <2>1. UNCHANGED <<log, replica, snapshot>>
    BY <1>10 DEF StartNode, Shutdown, CrashNode, GiveUp, Begin, raftVars
  <2>. QED BY <1>10, <2>1, EntriesKept, NodesAsk
<1>11. ASSUME NEW n \in Nodes, TryNextServer(n) PROVE Goal
  <2>. DEFINE s == Head(member[n].toTry)
              op == IF member[n].pc = "registering" THEN "register"
                    ELSE "unregister"
  <2>1. UNCHANGED <<replica, snapshot>>
    BY <1>11 DEF TryNextServer
  <2>2. NodesHaveEntries'
    <3>1. CASE Propose(s, op, {n}, <<>>)
      BY <1>7, <2>1, <3>1, ProposedCommands
    <3>2. CASE UNCHANGED log
      BY <2>1, <3>2, EntriesKept
    <3>. QED BY <1>11, <3>1, <3>2 DEF TryNextServer, raftVars
  <2>. QED BY <1>11, <2>2, TryStep
<1>12. ASSUME NEW h \in handlers,
              \/ LookUpPredecessor(h) \/ AnswerRegistration(h)
              \/ RefuseRegistration(h) \/ AnswerUnregistration(h)
       PROVE  Goal
  <2>1. UNCHANGED <<log, replica, snapshot>>
    BY <1>12 DEF LookUpPredecessor, AnswerRegistration, RefuseRegistration,
                 AnswerUnregistration, raftVars
  <2>. QED BY <1>12, <2>1, EntriesKept, LookUpStep, AnswerStep DEF TypeInv
<1>13. ASSUME NEW h \in handlers,
              \/ LookUpSubscriptionNode(h) \/ AnswerSubscription(h)
              \/ ReconnectChain(h)
       PROVE  Goal
  <2>1. UNCHANGED <<log, replica, snapshot, member, answerLost>>
    BY <1>13 DEF LookUpSubscriptionNode, AnswerSubscription, ReconnectChain,
                 raftVars, historyVars
  <2>2. h.op \notin {"register", "unregister"} /\ [h EXCEPT !.pc = "call"].op = h.op
    BY <1>13 DEF LookUpSubscriptionNode, AnswerSubscription, ReconnectChain,
                 TypeInv, HandlerTypes, HandlerOK, HandlerRecord
  <2>3. handlers \ {h} \subseteq handlers'
        /\ handlers' \subseteq handlers \cup {[h EXCEPT !.pc = "call"]}
    BY <1>13 DEF LookUpSubscriptionNode, AnswerSubscription, ReconnectChain
  <2>. QED BY <2>1, <2>2, <2>3, EntriesKept, OtherSteps
<1>14. ASSUME NEW j \in jobs, SetPredecessor(j) \/ SetSuccessor(j) PROVE Goal
  <2>1. UNCHANGED <<log, replica, snapshot, handlers, answerLost>>
    BY <1>14 DEF SetPredecessor, SetSuccessor, raftVars, historyVars
  <2>2. \A n \in Nodes : /\ member'[n].pc = member[n].pc
                         /\ member'[n].waiting = member[n].waiting
    <3>1. j.pred \in SomeNode /\ j.succ \in SomeNode
      BY DEF TypeInv, JobRecord
    <3>2. CASE SetPredecessor(j)
      BY <3>1, <3>2, WireTypes DEF SetPredecessor
    <3>3. CASE SetSuccessor(j)
      BY <3>1, <3>3, WireTypes DEF SetSuccessor
    <3>. QED BY <1>14, <3>2, <3>3
  <2>. QED BY <2>1, <2>2, EntriesKept, OtherSteps
<1>15. ASSUME UNCHANGED vars PROVE Goal
  <2>1. UNCHANGED <<log, replica, snapshot, handlers, member, answerLost>>
    BY <1>15 DEF vars, raftVars, historyVars
  <2>. QED BY <2>1, EntriesKept, OtherSteps
<1>16. ASSUME NEW s \in Servers, CrashServer(s) PROVE Goal
  BY <1>3, <1>16 DEF CrashServer
<1>. HIDE DEF Goal
<1>17. Goal
  BY <1>1, <1>2, <1>4, <1>5, <1>6, <1>8, <1>9, <1>10, <1>11, <1>12, <1>13,
     <1>14, <1>15, <1>16 DEF Next
<1>. QED BY <1>17 DEF Goal

(* A node that has to register is refused as known already, and panics,    *)
(* only after a leader has failed it: its command was in the log when the  *)
(* leader it waited at stepped down or ended (tryControlPlaneRequest,      *)
(* RegisterNode, registerNode).                                            *)
THEOREM RefusedOnlyAfterLostAnswer == Spec => []RefusedAfterLostAnswer
<1>1. RegistrationInv => RefusedAfterLostAnswer
  BY DEF RegistrationInv, EntryHasHandler, RefusedAfterLostAnswer, Registration
<1>. QED BY <1>1, RegistrationInvInit, NextRegistrationInv, TypeInvariant, PTL
         DEF Spec

-----------------------------------------------------------------------------
(* The wiring. *)

Changes == {h \in handlers : h.op # "subscribe"}

(* The node at a position of a chain; none before its HEAD and behind its  *)
(* TAIL.                                                                   *)
Neighbour(chain, i) == IF i \in DOMAIN chain THEN chain[i] ELSE Nil

Joined(chain, p, q) ==
  \E i \in 0..Len(chain) : p = Neighbour(chain, i) /\ q = Neighbour(chain, i + 1)

(* Two nodes know each other or a goroutine is about to tell them. *)
WiredPair(p, q) ==
  /\ Reaches(q) =>
       \/ member[q].predecessor = p
       \/ \E j \in jobs : j.pred = p /\ j.succ = q /\ j.pc = "pred"
  /\ Reaches(p) =>
       \/ member[p].successor = q
       \/ \E j \in jobs : j.pred = p /\ j.succ = q

(* The goroutines there are lead to the wiring of a chain. *)
LeadsTo(chain) ==
  /\ \A j \in jobs : /\ Joined(chain, j.pred, j.succ)
                     /\ j.pc = "pred" => j.succ # Nil
                     /\ j.pc = "succ" => j.pred # Nil
  /\ \A p, q \in SomeNode : Joined(chain, p, q) => WiredPair(p, q)

(* The length of the log that a change of the chain starts from. *)
Base(h) == IF h.index = 0 THEN Len(log) ELSE h.index - 1

(* A change under way found the nodes wired as the chain it changes, and   *)
(* no other change follows it in the log.                                  *)
ChangeOK(states, h) ==
  /\ Base(h) \in LogLengths
  /\ LeadsTo(states[Base(h)].chain)
  /\ h.op = "update" => h.old = states[Base(h)].chain
  /\ h.index = 0 => h.pc = "raft"
  /\ h.index > 0 => \A i \in h.index..Len(log) :
                      states[i].chain = states[h.index].chain
  /\ h.pc # "raft" =>
       /\ h.index <= replica[h.server].applied
       /\ h.result = Executed(states[h.index - 1], log[h.index]).result
  /\ h.pc = "call" => h.result.ok

(* One change at a time; between two of them the nodes are wired, or will  *)
(* be, as the chain that the log determines.                               *)
Undisturbed(states) ==
  /\ \A h, g \in Changes : h = g
  /\ Changes # {} => jobs = {}
  /\ \A h \in Changes : ChangeOK(states, h)
  /\ Changes = {} => LeadsTo(states[Len(log)].chain)

(* A node that does not serve yet has no neighbours. *)
FreshInv ==
  \A n \in Nodes : member[n].pc \in {"new", "registering"} =>
    member[n].predecessor = Nil /\ member[n].successor = Nil

WiringInv ==
  \A states : Replays(states) /\ ~disturbed /\ Clean => Undisturbed(states)

-----------------------------------------------------------------------------
(* The states of the log. *)

(* The log determines them. *)
LEMMA StatesAreUnique ==
  ASSUME IInv, NEW a, NEW b, Replays(a), Replays(b), NEW i \in LogLengths
  PROVE  a[i] = b[i]
<1>. DEFINE differ == {k \in LogLengths : a[k] # b[k]}
<1>1. Len(Initial) \in Nat /\ Len(log) \in Nat
  BY ControlPlaneAssumption DEF ControlPlaneAssumption, IInv, ShapeInv
<1>. SUFFICES ASSUME differ # {} PROVE FALSE
  OBVIOUS
<1>2. differ \in SUBSET Nat
  BY <1>1 DEF LogLengths
<1>. HIDE DEF differ
<1>3. PICK k \in differ : \A m \in differ : k <= m
  BY <1>2, SmallestNumber
<1>4. k \in LogLengths /\ a[k] # b[k] /\ \A m \in LogLengths : m < k => a[m] = b[m]
  BY <1>1, <1>3 DEF differ, LogLengths
<1>5. k # Len(Initial)
  BY <1>4 DEF Replays
<1>6. k - 1 \in LogLengths /\ k - 1 < Len(log) /\ k - 1 < k /\ (k - 1) + 1 = k
  BY <1>1, <1>4, <1>5 DEF LogLengths
<1>. QED BY <1>4, <1>6 DEF Replays

(* Their chains list their nodes. *)
LEMMA StatesMatched ==
  ASSUME IInv, NEW states, Replays(states), NEW i \in LogLengths
  PROVE  Matched(states[i]) /\ IsReplica(states[i])
<1>. DEFINE bad == {k \in LogLengths : ~Matched(states[k])}
<1>1. /\ Len(Initial) \in Nat /\ Len(log) \in Nat /\ log \in Seq(Commands)
      /\ Initial \in Seq(Nodes) /\ IsInjective(Initial)
  BY ControlPlaneAssumption DEF ControlPlaneAssumption, IInv, ShapeInv
<1>2. IsReplica(states[i])
  BY DEF Replays
<1>. SUFFICES ASSUME bad # {} PROVE FALSE
  BY <1>2
<1>3. bad \in SUBSET Nat
  BY <1>1 DEF LogLengths
<1>. HIDE DEF bad
<1>4. PICK k \in bad : \A m \in bad : k <= m
  BY <1>3, SmallestNumber
<1>5. k \in LogLengths /\ ~Matched(states[k])
      /\ \A m \in LogLengths : m < k => Matched(states[m])
  BY <1>1, <1>4 DEF bad, LogLengths
<1>6. k # Len(Initial)
  <2>1. Matched(FirstState)
    BY <1>1 DEF FirstState, Matched
  <2>. QED BY <1>5, <2>1 DEF Replays
<1>7. /\ k - 1 \in LogLengths /\ k - 1 < Len(log) /\ k - 1 < k /\ (k - 1) + 1 = k
      /\ k \in 1..Len(log)
  BY <1>1, <1>5, <1>6 DEF LogLengths
<1>8. states[k] = StateAfter(states[k - 1], log[k], k)
  BY <1>7 DEF Replays
<1>9. IsReplica(states[k - 1]) /\ Matched(states[k - 1]) /\ log[k] \in Commands
  BY <1>1, <1>5, <1>7 DEF Replays
<1>10. Matched(Executed(states[k - 1], log[k]).state)
  BY <1>9, ExecutedMatched
<1>11. IsReplica(states[k])
  BY <1>5 DEF Replays
<1>12. Matched(states[k])
  <2>. DEFINE e == Executed(states[k - 1], log[k]).state
  <2>1. states[k] = [e EXCEPT !.applied = k]
    BY <1>8 DEF StateAfter
  <2>. HIDE DEF e
  <2>2. /\ states[k].chain = e.chain /\ states[k].nodes = e.nodes
        /\ states[k].lastControlIndex = e.lastControlIndex
    BY <2>1, <1>11 DEF IsReplica
  <2>. QED BY <1>10, <2>2 DEF Matched, e
<1>. QED BY <1>5, <1>12

LEMMA ReplicasAreStates ==
  ASSUME IInv, Clean, NEW states, Replays(states), NEW s \in Servers
  PROVE  replica[s] = states[replica[s].applied]
BY StatesAreUnique DEF IInv, ShapeInv, LogDetermines

(* What the log determines outlives what is added to it. *)
LEMMA StatesStay ==
  ASSUME IInv, NEW states, Replays(states)',
         \/ log' = log
         \/ \E c \in Commands : log' = Append(log, c)
  PROVE  /\ Replays(states) /\ LogLengths \subseteq LogLengths'
<1>1. log \in Seq(Commands) /\ Len(log) \in Nat /\ Len(Initial) \in Nat
  BY ControlPlaneAssumption DEF ControlPlaneAssumption, IInv, ShapeInv
<1>2. CASE log' = log
  BY <1>2 DEF Replays, LogLengths
<1>3. CASE \E c \in Commands : log' = Append(log, c)
  <2>1. Len(log') = Len(log) + 1 /\ \A i \in 1..Len(log) : log'[i] = log[i]
    BY <1>1, <1>3
  <2>2. LogLengths \subseteq LogLengths'
    BY <1>1, <2>1 DEF LogLengths
  <2>3. ASSUME NEW i \in LogLengths, i < Len(log)
        PROVE  states[i + 1] = StateAfter(states[i], log[i + 1], i + 1)
    <3>1. i \in LogLengths' /\ i < Len(log') /\ i + 1 \in 1..Len(log)
      BY <1>1, <2>1, <2>2, <2>3 DEF LogLengths
    <3>. QED BY <2>1, <3>1 DEF Replays
  <2>. QED BY <2>2, <2>3 DEF Replays
<1>. QED BY <1>2, <1>3
(* A command's effect on the chain. *)
LEMMA NextChain ==
  ASSUME IInv, NEW states, Replays(states), NEW i \in LogLengths, i < Len(log)
  PROVE  LET e == Executed(states[i], log[i + 1]).state
         IN  states[i + 1].chain = e.chain /\ states[i + 1].nodes = e.nodes
<1>. DEFINE e == Executed(states[i], log[i + 1]).state
<1>1. i + 1 \in LogLengths
  BY ControlPlaneAssumption
     DEF ControlPlaneAssumption, IInv, ShapeInv, LogLengths
<1>2. states[i + 1] = [e EXCEPT !.applied = i + 1]
  BY DEF Replays, StateAfter
<1>3. IsReplica(states[i + 1])
  BY <1>1 DEF Replays
<1>. HIDE DEF e
<1>4. states[i + 1].chain = e.chain /\ states[i + 1].nodes = e.nodes
  BY <1>2, <1>3 DEF IsReplica
<1>. QED BY <1>4 DEF e

-----------------------------------------------------------------------------
(* Neighbours in chains. *)

LEMMA NeighboursAreNodes ==
  ASSUME NEW chain \in Seq(Nodes), NEW i \in 0..Len(chain) + 1
  PROVE  /\ Neighbour(chain, i) \in SomeNode
         /\ Neighbour(chain, i) # Nil =>
              i \in DOMAIN chain /\ chain[i] = Neighbour(chain, i)
BY DEF Neighbour, SomeNode

(* In a chain without duplicates a node has one neighbour at each side. *)
LEMMA JoinedOnce ==
  ASSUME NEW chain \in Seq(Nodes), IsInjective(chain), NEW p, NEW q, NEW r
  PROVE  /\ Joined(chain, p, q) /\ Joined(chain, p, r) /\ p # Nil => q = r
         /\ Joined(chain, p, r) /\ Joined(chain, q, r) /\ r # Nil => p = q
         /\ Joined(chain, p, q) => p \in SomeNode /\ q \in SomeNode
<1>1. ASSUME NEW i \in 0..Len(chain), NEW k \in 0..Len(chain),
             Neighbour(chain, i) = Neighbour(chain, k), Neighbour(chain, i) # Nil
      PROVE  i = k
  BY <1>1 DEF Neighbour, IsInjective
<1>2. ASSUME NEW i \in 0..Len(chain), NEW k \in 0..Len(chain),
             Neighbour(chain, i + 1) = Neighbour(chain, k + 1),
             Neighbour(chain, i + 1) # Nil
      PROVE  i = k
  BY <1>2 DEF Neighbour, IsInjective
<1>3. \A i \in 0..Len(chain) : /\ Neighbour(chain, i) \in SomeNode
                               /\ Neighbour(chain, i + 1) \in SomeNode
  BY NeighboursAreNodes
<1>. QED BY <1>1, <1>2, <1>3 DEF Joined

(* One more node at the end. *)
LEMMA JoinedAppended ==
  ASSUME NEW chain \in Seq(Nodes), IsInjective(chain), NEW n \in Nodes,
         NEW p, NEW q, Joined(Append(chain, n), p, q)
  PROVE  LET tail == Neighbour(chain, Len(chain)) IN
         \/ Joined(chain, p, q) /\ q \in ToSet(chain) /\ p # tail
            /\ p \in ToSet(chain) \cup {Nil}
         \/ p = tail /\ q = n
         \/ p = n /\ q = Nil
<1>. DEFINE new == Append(chain, n)
            len == Len(chain)
            tail == Neighbour(chain, len)
<1>1. /\ len \in Nat /\ DOMAIN chain = 1..len /\ DOMAIN new = 1..len + 1
      /\ Len(new) = len + 1 /\ new[len + 1] = n /\ \A i \in 1..len : new[i] = chain[i]
      /\ \A i \in 1..len : chain[i] \in Nodes /\ chain[i] # Nil
  BY ControlPlaneAssumption DEF ControlPlaneAssumption
<1>. HIDE DEF new
<1>2. PICK i \in 0..len + 1 : p = Neighbour(new, i) /\ q = Neighbour(new, i + 1)
  BY <1>1 DEF Joined, new
<1>3. CASE i < len
  <2>1. p = Neighbour(chain, i) /\ q = Neighbour(chain, i + 1) /\ i + 1 \in 1..len
    BY <1>1, <1>2, <1>3 DEF Neighbour
  <2>2. q \in ToSet(chain) /\ Joined(chain, p, q)
    BY <1>1, <1>3, <2>1 DEF Neighbour, ToSet, Joined
  <2>3. p # tail /\ p \in ToSet(chain) \cup {Nil}
    BY <1>1, <1>3, <2>1 DEF Neighbour, IsInjective, ToSet
  <2>. QED BY <2>2, <2>3
<1>4. CASE i = len
  <2>1. p = tail /\ q = n
    BY <1>1, <1>2, <1>4 DEF Neighbour
  <2>. QED BY <2>1
<1>5. CASE i = len + 1
  <2>1. p = n /\ q = Nil
    BY <1>1, <1>2, <1>5 DEF Neighbour
  <2>. QED BY <2>1
<1>6. i < len \/ i = len \/ i = len + 1
  <2>1. len \in Nat
    OBVIOUS
  <2>. HIDE DEF len
  <2>. QED BY <2>1
<1>. QED BY <1>3, <1>4, <1>5, <1>6, Zenon

(* One node less. *)
LEMMA JoinedRemoved ==
  ASSUME NEW chain \in Seq(Nodes), NEW k \in DOMAIN chain, NEW pred, NEW succ,
         pred = IF k = 1 THEN Nil ELSE chain[k - 1],
         succ = IF k = Len(chain) THEN Nil ELSE chain[k + 1]
  PROVE  /\ Joined(RemoveAt(chain, k), pred, succ)
         /\ \A p, q : Joined(RemoveAt(chain, k), p, q) =>
              Joined(chain, p, q) \/ (p = pred /\ q = succ)
<1>. DEFINE new == RemoveAt(chain, k)
            len == Len(chain)
<1>1. /\ len \in Nat /\ DOMAIN chain = 1..len /\ k \in 1..len
      /\ DOMAIN new = 1..len - 1 /\ Len(new) = len - 1
      /\ \A i \in 1..len - 1 : new[i] = chain[IF i < k THEN i ELSE i + 1]
  BY RemoveAtElements
<1>. HIDE DEF new
<1>2. Neighbour(new, k - 1) = pred /\ Neighbour(new, (k - 1) + 1) = succ
  <2>1. Neighbour(new, k - 1) = pred
    BY <1>1 DEF Neighbour
  <2>2. Neighbour(new, k) = succ
    BY <1>1 DEF Neighbour
  <2>. QED BY <1>1, <2>1, <2>2
<1>3. Joined(new, pred, succ)
  BY <1>1, <1>2 DEF Joined
<1>4. ASSUME NEW p, NEW q, Joined(new, p, q)
      PROVE  Joined(chain, p, q) \/ (p = pred /\ q = succ)
  <2>1. PICK i \in 0..len - 1 : p = Neighbour(new, i) /\ q = Neighbour(new, i + 1)
    BY <1>1, <1>4 DEF Joined
  <2>2. CASE i < k - 1
    <3>1. p = Neighbour(chain, i) /\ q = Neighbour(chain, i + 1)
      BY <1>1, <2>1, <2>2 DEF Neighbour
    <3>. QED BY <1>1, <2>1, <3>1 DEF Joined
  <2>3. CASE i = k - 1
    BY <1>2, <2>1, <2>3
  <2>4. CASE i > k - 1
    <3>1. p = Neighbour(chain, i + 1) /\ q = Neighbour(chain, (i + 1) + 1)
      BY <1>1, <2>1, <2>4 DEF Neighbour
    <3>2. i + 1 \in 0..len
      BY <1>1, <2>1
    <3>. QED BY <3>1, <3>2 DEF Joined
  <2>5. i < k - 1 \/ i = k - 1 \/ i > k - 1
    BY <1>1
  <2>. QED BY <2>2, <2>3, <2>4, <2>5, Zenon
<1>. QED BY <1>3, <1>4 DEF new

(* reconnectChain starts a goroutine for every pair of neighbours that     *)
(* were not neighbours before.                                             *)
LEMMA ReconnectionsJoin ==
  ASSUME NEW s \in Servers, NEW old \in Seq(Nodes), NEW dead,
         replica[s].chain = Without(old, dead),
         replica[s].nodes = ToSet(Without(old, dead))
  PROVE  LET made == Reconnections(s, old, dead)
             new == Without(old, dead)
         IN  /\ \A j \in made : /\ Joined(new, j.pred, j.succ)
                                /\ j.pc = "pred" => j.succ # Nil
                                /\ j.pc = "succ" => j.pred # Nil
             /\ \A p, q : Joined(new, p, q) =>
                  (p = Nil /\ q = Nil) \/ Joined(old, p, q) \/ Job(s, p, q) \in made
<1>. PICK n \in Nat : \E at : KeptAt(old, dead, n, at)
  BY WithoutElements, Zenon
<1>. PICK at : KeptAt(old, dead, n, at)
  OBVIOUS
<1>. DEFINE new == Without(old, dead)
            len == Len(old)
            r == replica[s]
            live == {i \in DOMAIN old : old[i] \notin dead /\ old[i] \in r.nodes}
            Gap(i, j) == \/ \E k \in i + 1..j - 1 : k \notin live
                         \/ i > 1 /\ \A k \in live : i <= k
            Adjacent(i, j) == i < j /\ \A k \in live : k <= i \/ j <= k
            inner == {Job(s, old[p[1]], old[p[2]]) : p \in
                       {q \in live \X live : Adjacent(q[1], q[2]) /\ Gap(q[1], q[2])}}
            last == {Job(s, old[i], Nil) : i \in
                       {k \in live : (\A j \in live : j <= k) /\ Gap(k, len + 1)}}
            first == {Job(s, Nil, m) : m \in
                       {m \in {getHead(r)} : m # Nil /\ old[1] \in dead}}
            made == Reconnections(s, old, dead)
<1>1. made = inner \cup last \cup first
  BY Zenon DEF Reconnections
<1>2. /\ new \in Seq(Nodes) /\ ToSet(new) = ToSet(old) \ dead
      /\ r.chain = new /\ r.nodes = ToSet(new)
  BY WithoutProperties
<1>3. /\ \A k \in 1..n : at[k] \in 1..len /\ old[at[k]] \notin dead
      /\ \A k, m \in 1..n : k < m => at[k] < at[m]
      /\ \A i \in 1..len : old[i] \notin dead => \E k \in 1..n : at[k] = i
      /\ DOMAIN new = 1..n /\ Len(new) = n
      /\ \A k \in 1..n : new[k] = old[at[k]]
      /\ DOMAIN old = 1..len /\ len \in Nat
  <2>1. DOMAIN old = 1..len /\ len \in Nat
    OBVIOUS
  <2>2. new = [k \in 1..n |-> old[at[k]]]
    BY DEF KeptAt
  <2>3. DOMAIN new = 1..n /\ \A k \in 1..n : new[k] = old[at[k]]
    BY <2>2
  <2>4. Len(new) = n
    BY <1>2, <2>3
  <2>5. /\ \A k \in 1..n : at[k] \in DOMAIN old /\ old[at[k]] \notin dead
        /\ \A k, m \in 1..n : k < m => at[k] < at[m]
        /\ \A i \in DOMAIN old : old[i] \notin dead => \E k \in 1..n : at[k] = i
    BY DEF KeptAt
  <2>. HIDE DEF new, len
  <2>. QED BY <2>1, <2>3, <2>4, <2>5
<1>4. live = {at[k] : k \in 1..n}
  <2>1. live = {i \in 1..len : old[i] \notin dead}
    BY <1>2, <1>3 DEF ToSet
  <2>. HIDE DEF live, len, new
  <2>. QED BY <1>3, <2>1
<1>5. /\ \A i \in 1..len : old[i] \in Nodes /\ old[i] # Nil
      /\ \A k \in 1..n : new[k] # Nil
      /\ getHead(r) = IF n = 0 THEN Nil ELSE new[1]
  <2>1. \A i \in 1..len : old[i] \in Nodes /\ old[i] # Nil
    BY <1>3, ControlPlaneAssumption DEF ControlPlaneAssumption
  <2>2. getHead(r) = IF n = 0 THEN Nil ELSE new[1]
    <3>1. new = <<>> <=> n = 0
      BY <1>2, <1>3
    <3>2. new # <<>> => Head(new) = new[1]
      BY <1>2
    <3>. HIDE DEF new
    <3>. QED BY <1>2, <3>1, <3>2 DEF getHead
  <2>. HIDE DEF new, len
  <2>. QED BY <1>3, <2>1, <2>2
<1>6. \A p, q : LET j == Job(s, p, q)
                IN  /\ j.pred = p /\ j.succ = q
                    /\ j.pc = IF q = Nil THEN "succ" ELSE "pred"
  BY DEF Job
<1>. HIDE DEF new, len, live, Gap, Adjacent, inner, last, first, made, r
<1>7. ASSUME NEW k \in 1..n, k < n
      PROVE  /\ Neighbour(new, k) = old[at[k]] /\ Neighbour(new, k + 1) = old[at[k + 1]]
             /\ Adjacent(at[k], at[k + 1])
  <2>1. k + 1 \in 1..n
    BY <1>7
  <2>2. Neighbour(new, k) = old[at[k]] /\ Neighbour(new, k + 1) = old[at[k + 1]]
    BY <1>3, <2>1 DEF Neighbour
  <2>3. at[k] < at[k + 1]
    BY <1>3, <2>1
  <2>4. ASSUME NEW m \in 1..n PROVE at[m] <= at[k] \/ at[k + 1] <= at[m]
    <3>1. m < k \/ m = k \/ m = k + 1 \/ k + 1 < m
      BY <1>7
    <3>. QED BY <1>3, <2>1, <3>1
  <2>. QED BY <1>4, <2>2, <2>3, <2>4 DEF Adjacent
<1>8. ASSUME NEW p, NEW q, Joined(new, p, q)
      PROVE  \/ p = Nil /\ q = Nil
             \/ Joined(old, p, q)
             \/ Job(s, p, q) \in made
  <2>1. PICK k \in 0..n : p = Neighbour(new, k) /\ q = Neighbour(new, k + 1)
    BY <1>3, <1>8 DEF Joined
  <2>2. CASE k = 0 /\ n = 0
    BY <1>3, <2>1, <2>2 DEF Neighbour
  <2>3. CASE k = 0 /\ n # 0
    <3>1. p = Nil /\ q = new[1] /\ 1 \in 1..n
      BY <1>3, <2>1, <2>3 DEF Neighbour
    <3>2. CASE old[1] \in dead
      <4>1. Job(s, Nil, q) \in first
        BY <1>5, <2>3, <3>1, <3>2 DEF first
      <4>. QED BY <1>1, <3>1, <4>1
    <3>3. CASE old[1] \notin dead
      <4>1. 1 \in 1..len
        BY <1>3, <3>1
      <4>2. PICK m \in 1..n : at[m] = 1
        BY <1>3, <3>3, <4>1
      <4>3. at[1] = 1
        BY <1>3, <3>1, <4>2
      <4>4. Neighbour(old, 0) = Nil /\ Neighbour(old, 0 + 1) = q
        BY <1>3, <3>1, <4>1, <4>3 DEF Neighbour
      <4>. QED BY <1>3, <3>1, <4>4 DEF Joined, len
    <3>. QED BY <3>2, <3>3
  <2>4. CASE k # 0 /\ k < n
    <3>. k \in 1..n
      BY <2>4
    <3>1. p = old[at[k]] /\ q = old[at[k + 1]] /\ Adjacent(at[k], at[k + 1])
      BY <1>7, <2>1, <2>4
    <3>2. CASE Gap(at[k], at[k + 1])
      <4>1. at[k] \in live /\ at[k + 1] \in live
        BY <1>4, <2>4
      <4>2. Job(s, p, q) \in inner
        <5>. DEFINE w == <<at[k], at[k + 1]>>
        <5>1. w \in live \X live /\ w[1] = at[k] /\ w[2] = at[k + 1]
          BY <4>1
        <5>. HIDE DEF w
        <5>. QED BY <3>1, <3>2, <5>1 DEF inner
      <4>. QED BY <1>1, <4>2
    <3>3. CASE ~Gap(at[k], at[k + 1])
      <4>1. at[k] \in 1..len /\ at[k + 1] \in 1..len /\ at[k] < at[k + 1]
        BY <1>3, <2>4
      <4>2. at[k + 1] = at[k] + 1
        <5>. SUFFICES ASSUME at[k] + 1 < at[k + 1] PROVE FALSE
          BY <4>1
        <5>1. at[k] + 1 \in live
          BY <3>3, <4>1 DEF Gap
        <5>. QED BY <3>1, <4>1, <5>1 DEF Adjacent
      <4>3. p = Neighbour(old, at[k]) /\ q = Neighbour(old, at[k] + 1)
        BY <1>3, <3>1, <4>1, <4>2 DEF Neighbour
      <4>. QED BY <4>1, <4>3 DEF Joined, len
    <3>. QED BY <3>2, <3>3
  <2>5. CASE k # 0 /\ k = n
    <3>. k \in 1..n
      BY <2>5
    <3>1. p = old[at[n]] /\ q = Nil
      BY <1>3, <2>1, <2>5 DEF Neighbour
    <3>2. at[n] \in live /\ at[n] \in 1..len /\ \A j \in live : j <= at[n]
      <4>1. \A m \in 1..n : m < n \/ m = n
        OBVIOUS
      <4>. QED BY <1>3, <1>4, <2>5, <4>1
    <3>3. CASE Gap(at[n], len + 1)
      <4>1. Job(s, p, q) \in last
        BY <3>1, <3>2, <3>3 DEF last
      <4>. QED BY <1>1, <4>1
    <3>4. CASE ~Gap(at[n], len + 1)
      <4>1. at[n] = len
        <5>. SUFFICES ASSUME at[n] < len PROVE FALSE
          BY <1>3, <3>2
        <5>1. at[n] + 1 \in live
          BY <1>3, <3>2, <3>4 DEF Gap
        <5>. QED BY <3>2, <5>1
      <4>2. p = Neighbour(old, len) /\ q = Neighbour(old, len + 1)
        BY <1>3, <3>1, <3>2, <4>1 DEF Neighbour
      <4>. QED BY <1>3, <4>2 DEF Joined, len
    <3>. QED BY <3>3, <3>4
  <2>6. k < n \/ k = n
    OBVIOUS
  <2>. QED BY <2>2, <2>3, <2>4, <2>5, <2>6, Zenon
<1>9. ASSUME NEW j \in made
      PROVE  /\ Joined(new, j.pred, j.succ)
             /\ j.pc = "pred" => j.succ # Nil
             /\ j.pc = "succ" => j.pred # Nil
  <2>1. CASE j \in inner
    <3>1. PICK w \in live \X live : j = Job(s, old[w[1]], old[w[2]])
                                   /\ Adjacent(w[1], w[2])
      BY <2>1 DEF inner
    <3>2. w[1] \in live /\ w[2] \in live
      OBVIOUS
    <3>3. PICK k \in 1..n, m \in 1..n : w[1] = at[k] /\ w[2] = at[m]
      BY <1>4, <3>2
    <3>4. k < m
      <4>1. at[k] < at[m] /\ at[k] \in Int /\ at[m] \in Int
        BY <1>3, <3>1, <3>3 DEF Adjacent
      <4>2. k < m \/ k = m \/ m < k
        OBVIOUS
      <4>. QED BY <1>3, <4>1, <4>2
    <3>5. m = k + 1
      <4>. SUFFICES ASSUME k + 1 < m PROVE FALSE
        BY <3>4
      <4>1. k + 1 \in 1..n /\ k < k + 1
        OBVIOUS
      <4>2. at[k + 1] \in live /\ at[k] < at[k + 1] /\ at[k + 1] < at[m]
        BY <1>3, <1>4, <4>1
      <4>3. at[k] \in Int /\ at[m] \in Int /\ at[k + 1] \in Int
        BY <1>3, <4>1
      <4>. QED BY <3>1, <3>3, <4>2, <4>3 DEF Adjacent
    <3>6. j.pred = Neighbour(new, k) /\ j.succ = Neighbour(new, k + 1)
          /\ j.pred # Nil /\ j.succ # Nil
      BY <1>3, <1>5, <1>6, <1>7, <3>1, <3>3, <3>4, <3>5
    <3>. QED BY <1>3, <3>6 DEF Joined
  <2>2. CASE j \in last
    <3>1. PICK i \in live : j = Job(s, old[i], Nil) /\ \A m \in live : m <= i
      BY <2>2 DEF last
    <3>2. PICK k \in 1..n : i = at[k]
      BY <1>4
    <3>3. k = n
      <4>1. n \in 1..n /\ at[n] \in live
        BY <1>4
      <4>2. at[n] <= at[k] /\ at[n] \in Int /\ at[k] \in Int
        BY <1>3, <3>1, <3>2, <4>1
      <4>3. k < n => at[k] < at[n]
        BY <1>3, <4>1
      <4>. QED BY <4>2, <4>3
    <3>4. j.pred = Neighbour(new, n) /\ j.succ = Neighbour(new, n + 1)
          /\ j.pred # Nil /\ j.pc = "succ"
      BY <1>3, <1>5, <1>6, <3>1, <3>2, <3>3 DEF Neighbour
    <3>. QED BY <1>3, <3>4 DEF Joined
  <2>3. CASE j \in first
    <3>1. j = Job(s, Nil, getHead(r)) /\ getHead(r) # Nil
      BY <2>3 DEF first
    <3>2. n # 0 /\ getHead(r) = new[1] /\ 1 \in 1..n
      BY <1>5, <3>1
    <3>3. j.pred = Neighbour(new, 0) /\ j.succ = Neighbour(new, 0 + 1)
          /\ j.succ # Nil /\ j.pc = "pred"
      BY <1>3, <1>6, <3>1, <3>2 DEF Neighbour
    <3>. QED BY <1>3, <3>3 DEF Joined
  <2>. QED BY <1>1, <2>1, <2>2, <2>3
<1>. QED BY <1>8, <1>9 DEF made, new

-----------------------------------------------------------------------------
(* The wiring of a chain. *)

(* Nodes may cease to serve; those that go on keep their neighbours. *)
NeighboursStay ==
  \A n \in Nodes : Reaches(n)' =>
    /\ Reaches(n)
    /\ member'[n].predecessor = member[n].predecessor
    /\ member'[n].successor = member[n].successor

LEMMA ReachedNodes ==
  /\ \A n : Reaches(n) => n \in Nodes /\ n # Nil
  /\ \A n : Reaches(n)' => n \in Nodes /\ n # Nil
BY ControlPlaneAssumption DEF ControlPlaneAssumption, Reaches

LEMMA LeadsToStays ==
  ASSUME NEW chain, LeadsTo(chain), NeighboursStay, jobs' = jobs
  PROVE  LeadsTo(chain)'
<1>1. ASSUME NEW p \in SomeNode, NEW q \in SomeNode, WiredPair(p, q)
      PROVE  WiredPair(p, q)'
  BY <1>1, ReachedNodes DEF WiredPair, NeighboursStay
<1>. QED BY <1>1 DEF LeadsTo

LEMMA PredecessorSet ==
  ASSUME TypeInv, NEW chain \in Seq(Nodes), IsInjective(chain), LeadsTo(chain),
         NEW j \in jobs, SetPredecessor(j)
  PROVE  LeadsTo(chain)'
<1>. DEFINE next == [j EXCEPT !.pc = "succ"]
<1>1. /\ Joined(chain, j.pred, j.succ) /\ j.succ # Nil /\ j.pc = "pred"
      /\ j \in JobRecord
  BY DEF LeadsTo, TypeInv, SetPredecessor
<1>2. next.pred = j.pred /\ next.succ = j.succ /\ next.pc = "succ"
  BY <1>1 DEF JobRecord
<1>3. /\ jobs' = (jobs \ {j}) \cup (IF j.pred = Nil THEN {} ELSE {next})
      /\ member' = IF Reaches(j.succ)
                   THEN [member EXCEPT ![j.succ] =
                           [@ EXCEPT !["predecessor"] = j.pred]]
                   ELSE member
  BY DEF SetPredecessor, Wire
<1>. HIDE DEF next
<1>4. \A n \in Nodes :
        /\ Reaches(n)' <=> Reaches(n)
        /\ member'[n].successor = member[n].successor
        /\ n # j.succ => member'[n].predecessor = member[n].predecessor
        /\ Reaches(n) /\ n = j.succ => member'[n].predecessor = j.pred
  <2>1. CASE ~Reaches(j.succ)
    BY <1>3, <2>1 DEF Reaches
  <2>2. CASE Reaches(j.succ)
    <3>1. j.succ \in Nodes /\ member[j.succ] \in MemberRecord
      BY <2>2, ReachedNodes DEF TypeInv
    <3>2. /\ member'[j.succ] = [member[j.succ] EXCEPT !["predecessor"] = j.pred]
          /\ \A n \in Nodes : n # j.succ => member'[n] = member[n]
      BY <1>3, <2>2, <3>1 DEF TypeInv
    <3>3. /\ member'[j.succ].pc = member[j.succ].pc
          /\ member'[j.succ].successor = member[j.succ].successor
          /\ member'[j.succ].predecessor = j.pred
      BY <3>1, <3>2 DEF MemberRecord
    <3>. QED BY <3>2, <3>3 DEF Reaches
  <2>. QED BY <2>1, <2>2
<1>5. ASSUME NEW k \in jobs'
      PROVE  /\ Joined(chain, k.pred, k.succ)
             /\ k.pc = "pred" => k.succ # Nil
             /\ k.pc = "succ" => k.pred # Nil
  <2>1. CASE k \in jobs
    BY <2>1 DEF LeadsTo
  <2>2. CASE k = next /\ j.pred # Nil
    BY <1>1, <1>2, <2>2
  <2>. QED BY <1>3, <1>5, <2>1, <2>2
<1>6. ASSUME NEW p \in SomeNode, NEW q \in SomeNode, Joined(chain, p, q)
      PROVE  WiredPair(p, q)'
  <2>1. WiredPair(p, q)
    BY <1>6 DEF LeadsTo
  <2>2. ASSUME Reaches(q)'
        PROVE  \/ member'[q].predecessor = p
               \/ \E k \in jobs' : k.pred = p /\ k.succ = q /\ k.pc = "pred"
    <3>1. Reaches(q) /\ q \in Nodes
      BY <1>4, <2>2, ReachedNodes
    <3>2. CASE q = j.succ
      <4>1. p = j.pred
        BY <1>1, <1>6, <3>2, JoinedOnce
      <4>. QED BY <1>4, <3>1, <3>2, <4>1
    <3>3. CASE q # j.succ
      BY <1>3, <1>4, <2>1, <3>1, <3>3 DEF WiredPair
    <3>. QED BY <3>2, <3>3
  <2>3. ASSUME Reaches(p)'
        PROVE  \/ member'[p].successor = q
               \/ \E k \in jobs' : k.pred = p /\ k.succ = q
    <3>1. Reaches(p) /\ p \in Nodes /\ p # Nil
      BY <1>4, <2>3, ReachedNodes
    <3>2. CASE \E k \in jobs : k.pred = p /\ k.succ = q
      <4>1. PICK k \in jobs : k.pred = p /\ k.succ = q
        BY <3>2
      <4>. QED BY <1>2, <1>3, <3>1, <4>1
    <3>. QED BY <1>4, <2>1, <3>1, <3>2 DEF WiredPair
  <2>. QED BY <2>2, <2>3 DEF WiredPair
<1>. QED BY <1>5, <1>6 DEF LeadsTo

LEMMA SuccessorSet ==
  ASSUME TypeInv, NEW chain \in Seq(Nodes), IsInjective(chain), LeadsTo(chain),
         NEW j \in jobs, SetSuccessor(j)
  PROVE  LeadsTo(chain)'
<1>1. /\ Joined(chain, j.pred, j.succ) /\ j.pred # Nil /\ j.pc = "succ"
  BY DEF LeadsTo, SetSuccessor
<1>2. /\ jobs' = jobs \ {j}
      /\ member' = IF Reaches(j.pred)
                   THEN [member EXCEPT ![j.pred] =
                           [@ EXCEPT !["successor"] = j.succ]]
                   ELSE member
  BY DEF SetSuccessor, Wire
<1>3. \A n \in Nodes :
        /\ Reaches(n)' <=> Reaches(n)
        /\ member'[n].predecessor = member[n].predecessor
        /\ n # j.pred => member'[n].successor = member[n].successor
        /\ Reaches(n) /\ n = j.pred => member'[n].successor = j.succ
  <2>1. CASE ~Reaches(j.pred)
    BY <1>2, <2>1 DEF Reaches
  <2>2. CASE Reaches(j.pred)
    <3>1. j.pred \in Nodes /\ member[j.pred] \in MemberRecord
      BY <2>2, ReachedNodes DEF TypeInv
    <3>2. /\ member'[j.pred] = [member[j.pred] EXCEPT !["successor"] = j.succ]
          /\ \A n \in Nodes : n # j.pred => member'[n] = member[n]
      BY <1>2, <2>2, <3>1 DEF TypeInv
    <3>3. /\ member'[j.pred].pc = member[j.pred].pc
          /\ member'[j.pred].predecessor = member[j.pred].predecessor
          /\ member'[j.pred].successor = j.succ
      BY <3>1, <3>2 DEF MemberRecord
    <3>. QED BY <3>2, <3>3 DEF Reaches
  <2>. QED BY <2>1, <2>2
<1>4. ASSUME NEW p \in SomeNode, NEW q \in SomeNode, Joined(chain, p, q)
      PROVE  WiredPair(p, q)'
  <2>1. WiredPair(p, q)
    BY <1>4 DEF LeadsTo
  <2>2. Reaches(q)' => \/ member'[q].predecessor = p
                       \/ \E k \in jobs' : k.pred = p /\ k.succ = q /\ k.pc = "pred"
    BY <1>1, <1>2, <1>3, <2>1, ReachedNodes DEF WiredPair
  <2>3. ASSUME Reaches(p)'
        PROVE  \/ member'[p].successor = q
               \/ \E k \in jobs' : k.pred = p /\ k.succ = q
    <3>1. Reaches(p) /\ p \in Nodes /\ p # Nil
      BY <1>3, <2>3, ReachedNodes
    <3>2. CASE p = j.pred
      <4>1. q = j.succ
        BY <1>1, <1>4, <3>1, <3>2, JoinedOnce
      <4>. QED BY <1>3, <3>1, <3>2, <4>1
    <3>3. CASE p # j.pred
      BY <1>2, <1>3, <2>1, <3>1, <3>3 DEF WiredPair
    <3>. QED BY <3>2, <3>3
  <2>. QED BY <2>2, <2>3 DEF WiredPair
<1>5. \A k \in jobs' : k \in jobs
  BY <1>2
<1>. QED BY <1>4, <1>5 DEF LeadsTo

(* A new TAIL that gets the old one for its predecessor and is made the    *)
(* old one's successor is wired.                                           *)
LEMMA TailWired ==
  ASSUME NEW chain \in Seq(Nodes), IsInjective(chain), LeadsTo(chain),
         NEW n \in Nodes, n \notin ToSet(chain), jobs = {}, jobs' = {},
         \A m \in Nodes \ {n} : Reaches(m)' =>
           /\ Reaches(m) /\ member'[m].predecessor = member[m].predecessor
           /\ member'[m].successor =
                IF m = Neighbour(chain, Len(chain)) THEN n ELSE member[m].successor,
         member'[n].predecessor = Neighbour(chain, Len(chain)),
         member'[n].successor = Nil
  PROVE  LeadsTo(Append(chain, n))'
<1>. DEFINE tail == Neighbour(chain, Len(chain))
<1>1. tail # n /\ n # Nil /\ tail \in SomeNode
  BY ControlPlaneAssumption
     DEF ControlPlaneAssumption, Neighbour, ToSet, SomeNode
<1>2. ASSUME NEW p \in SomeNode, NEW q \in SomeNode,
             Joined(Append(chain, n), p, q)
      PROVE  WiredPair(p, q)'
  <2>1. CASE /\ Joined(chain, p, q) /\ q \in ToSet(chain) /\ p # tail
             /\ p \in ToSet(chain) \cup {Nil}
    <3>1. WiredPair(p, q) /\ p # n /\ q # n
      BY <1>1, <2>1 DEF LeadsTo
    <3>2. Reaches(q)' => member'[q].predecessor = p
      BY <3>1, ReachedNodes DEF WiredPair
    <3>3. Reaches(p)' => member'[p].successor = q
      BY <2>1, <3>1, ReachedNodes DEF WiredPair
    <3>. QED BY <3>2, <3>3 DEF WiredPair
  <2>2. CASE p = tail /\ q = n
    BY <1>1, <2>2, ReachedNodes DEF WiredPair
  <2>3. CASE p = n /\ q = Nil
    BY <1>1, <2>3, ReachedNodes DEF WiredPair
  <2>. QED BY <1>2, <2>1, <2>2, <2>3, JoinedAppended
<1>. QED BY <1>2 DEF LeadsTo

(* New goroutines for the pairs that are not wired yet. *)
LEMMA JobsLead ==
  ASSUME NEW old, NEW new, LeadsTo(old), jobs = {}, NeighboursStay,
         \A j \in jobs' : /\ Joined(new, j.pred, j.succ)
                          /\ j.pc = "pred" => j.succ # Nil
                          /\ j.pc = "succ" => j.pred # Nil,
         \A p, q : Joined(new, p, q) =>
           \/ p = Nil /\ q = Nil
           \/ Joined(old, p, q)
           \/ \E s \in Servers : Job(s, p, q) \in jobs'
  PROVE  LeadsTo(new)'
<1>1. ASSUME NEW p \in SomeNode, NEW q \in SomeNode, Joined(new, p, q)
      PROVE  WiredPair(p, q)'
  <2>1. CASE p = Nil /\ q = Nil
    BY <2>1, ReachedNodes DEF WiredPair
  <2>2. CASE Joined(old, p, q)
    <3>1. WiredPair(p, q)
      BY <2>2 DEF LeadsTo
    <3>. QED BY <3>1, ReachedNodes DEF WiredPair, NeighboursStay
  <2>3. CASE \E s \in Servers : Job(s, p, q) \in jobs'
    <3>1. PICK s \in Servers : Job(s, p, q) \in jobs'
      BY <2>3
    <3>2. LET j == Job(s, p, q)
          IN  j.pred = p /\ j.succ = q /\ (q # Nil => j.pc = "pred")
      BY DEF Job
    <3>. QED BY <3>1, <3>2, ReachedNodes DEF WiredPair
  <2>. QED BY <1>1, <2>1, <2>2, <2>3
<1>. QED BY <1>1 DEF LeadsTo

-----------------------------------------------------------------------------
(* Steps that change nothing about the change under way. *)

LEMMA UndisturbedStays ==
  ASSUME IInv, IInv', TypeInv, NEW states, Undisturbed(states),
         log' = log, jobs' = jobs, Changes' = Changes, NeighboursStay,
         \A s \in Servers : replica[s].applied <= replica'[s].applied
  PROVE  Undisturbed(states)'
<1>1. LogLengths' = LogLengths /\ \A h : Base(h)' = Base(h)
  BY DEF LogLengths, Base
<1>2. \A chain : LeadsTo(chain) => LeadsTo(chain)'
  BY LeadsToStays
<1>3. ASSUME NEW h \in Changes, ChangeOK(states, h) PROVE ChangeOK(states, h)'
  <2>1. h.server \in Servers /\ h.index \in Nat
    BY DEF Changes, TypeInv, HandlerTypes, HandlerOK, HandlerRecord
  <2>2. replica[h.server].applied \in Int /\ replica'[h.server].applied \in Int
    BY <2>1, ControlPlaneAssumption
       DEF ControlPlaneAssumption, IInv, ShapeInv, LogLengths
  <2>3. h.index <= replica[h.server].applied => h.index <= replica'[h.server].applied
    BY <2>1, <2>2
  <2>. QED BY <1>1, <1>2, <1>3, <2>3, Zenon DEF ChangeOK
<1>. QED BY <1>2, <1>3, Zenon DEF Undisturbed

(* A server that is not the leader any more, or that ends, disturbs a      *)
(* change that it had under way.                                           *)
LEMMA LeaderGone ==
  ASSUME IInv, IInv', TypeInv, NEW states, Undisturbed(states), ~disturbed',
         NEW s \in Servers, StepDown(s) \/ EndServer(s)
  PROVE  Undisturbed(states)'
<1>1. PICK gone, goroutines :
        /\ gone \subseteq handlers
        /\ Disconnect(gone, goroutines)
        /\ jobs' = jobs \ goroutines
        /\ \/ handlers' = handlers \ gone
           \/ handlers' = (handlers \ gone) \cup
                {[h EXCEPT !.pc = "applied"] : h \in {g \in gone : g.op = "update"}}
        /\ log' = log /\ replica' = replica
  <2>1. CASE StepDown(s)
    <3>. DEFINE gone == {h \in handlers : h.server = s /\ h.pc = "raft"}
    <3>1. /\ handlers' = (handlers \ gone) \cup
                {[h EXCEPT !.pc = "applied"] : h \in {g \in gone : g.op = "update"}}
          /\ Disconnect(gone, {}) /\ UNCHANGED <<log, replica, jobs>>
      BY <2>1 DEF StepDown
    <3>2. gone \subseteq handlers /\ jobs' = jobs \ {}
      BY <3>1
    <3>. QED BY <3>1, <3>2, Zenon
  <2>2. CASE EndServer(s)
    <3>. DEFINE gone == {h \in handlers : h.server = s}
                mine == {j \in jobs : j.server = s}
    <3>1. /\ handlers' = handlers \ gone /\ jobs' = jobs \ mine
          /\ Disconnect(gone, mine) /\ UNCHANGED <<log, replica>>
      BY <2>2 DEF EndServer
    <3>2. gone \subseteq handlers
      OBVIOUS
    <3>. QED BY <3>1, <3>2, Zenon
  <2>. QED BY <2>1, <2>2
<1>2. goroutines = {} /\ \A h \in gone : h.op = "subscribe"
  BY <1>1 DEF Disconnect
<1>3. Changes' = Changes /\ jobs' = jobs
  <2>1. {g \in gone : g.op = "update"} = {}
    BY <1>2
  <2>2. handlers' = handlers \ gone
    BY <1>1, <2>1
  <2>. QED BY <1>1, <1>2, <2>2 DEF Changes
<1>4. NeighboursStay
  <2>1. \A n \in Nodes : /\ member'[n].pc = member[n].pc
                         /\ member'[n].predecessor = member[n].predecessor
                         /\ member'[n].successor = member[n].successor
    BY <1>1 DEF Disconnect, TypeInv, MemberRecord
  <2>. QED BY <2>1 DEF NeighboursStay, Reaches
<1>5. \A t \in Servers : replica[t].applied <= replica'[t].applied
  BY <1>1, ControlPlaneAssumption
     DEF ControlPlaneAssumption, IInv, ShapeInv, LogLengths
<1>. QED BY <1>1, <1>3, <1>4, <1>5, UndisturbedStays

-----------------------------------------------------------------------------
(* New commands. *)

LEMMA ChangeProposed ==
  ASSUME IInv, TypeInv, NEW states, Replays(states), Clean,
         Undisturbed(states), ~disturbed',
         NEW s \in Servers, IsLeader(s),
         NEW op \in {"register", "unregister", "update"}, NEW ids, NEW old,
         op = "update" => old = replica[s].chain,
         NEW c \in Commands, c = Command(op, ids),
         Propose(s, op, ids, old), jobs' = jobs, replica' = replica, NeighboursStay
  PROVE  Undisturbed(states)'
<1>. PICK new : new = Handler(s, op, ids, old)
  OBVIOUS
<1>. PICK len : len = Len(log)
  OBVIOUS
<1>1. /\ log \in Seq(Commands) /\ len \in Nat /\ Len(Initial) \in Nat
      /\ len \in LogLengths /\ replica[s].applied \in LogLengths
  BY ControlPlaneAssumption
     DEF ControlPlaneAssumption, IInv, ShapeInv, LogLengths
<1>2. ~ChangeUnderWay
  BY DEF Propose
<1>3. jobs = {} /\ Changes = {} /\ replica[s].applied = len
  <2>1. jobs = {} /\ Changes = {} /\ ~(replica[s].applied < len)
    BY <1>2 DEF ChangeUnderWay, Changes
  <2>. QED BY <1>1, <2>1 DEF LogLengths
<1>4. /\ new.op = op /\ new.pc = "raft" /\ new.old = old /\ new.server = s
      /\ new.index = IF leads[s] = term THEN len + 1 ELSE 0
  BY DEF Handler
<1>5. handlers' = handlers \cup {new}
  BY DEF Propose
<1>6. Changes' = {new}
  BY <1>3, <1>4, <1>5 DEF Changes
<1>7. replica[s] = states[len]
  BY <1>3, ReplicasAreStates
<1>8. /\ len \in LogLengths' /\ Base(new)' = len
      /\ new.index > 0 => new.index = Len(log')
  <2>1. CASE leads[s] = term
    <3>1. log' = Append(log, c)
      BY <2>1 DEF Propose
    <3>2. Len(log') = len + 1
      BY <1>1, <3>1
    <3>. QED BY <1>1, <1>4, <2>1, <3>2 DEF Base, LogLengths
  <2>2. CASE leads[s] # term
    <3>1. log' = log
      BY <2>2 DEF Propose
    <3>. QED BY <1>1, <1>4, <2>2, <3>1 DEF Base, LogLengths
  <2>. QED BY <2>1, <2>2
<1>9. LeadsTo(states[len].chain)'
  <2>1. LeadsTo(states[len].chain)
    BY <1>3 DEF Undisturbed
  <2>2. \A chain : LeadsTo(chain) => LeadsTo(chain)'
    BY LeadsToStays
  <2>. QED BY <2>1, <2>2
<1>10. ChangeOK(states, new)'
  <2>1. new.index > 0 => \A i \in new.index..Len(log') :
                            states[i].chain = states[new.index].chain
    BY <1>1, <1>4, <1>8
  <2>. QED BY <1>4, <1>7, <1>8, <1>9, <2>1 DEF ChangeOK
<1>. QED BY <1>3, <1>6, <1>10 DEF Undisturbed

(* A subscription leaves the chain alone. *)
LEMMA SubscriptionProposed ==
  ASSUME IInv, IInv', TypeInv, NEW states, Replays(states), Replays(states)',
         Undisturbed(states), NEW s \in Servers,
         Propose(s, "subscribe", {}, <<>>),
         UNCHANGED <<jobs, replica, member>>
  PROVE  Undisturbed(states)'
<1>. PICK len : len = Len(log)
  OBVIOUS
<1>. PICK c : c = Command("subscribe", {})
  OBVIOUS
<1>1. /\ log \in Seq(Commands) /\ len \in Nat /\ Len(Initial) \in Nat
      /\ len \in LogLengths /\ c \in Commands /\ c.op = "subscribe"
  BY ControlPlaneAssumption, ProposedCommands
     DEF ControlPlaneAssumption, IInv, ShapeInv, LogLengths, Command
<1>2. Changes' = Changes
  <2>. PICK new : new = Handler(s, "subscribe", {}, <<>>)
    OBVIOUS
  <2>1. new.op = "subscribe" /\ handlers' = handlers \cup {new}
    BY DEF Handler, Propose
  <2>. QED BY <2>1 DEF Changes
<1>3. NeighboursStay
  BY DEF NeighboursStay, Reaches
<1>4. CASE log' = log
  <2>1. \A t \in Servers : replica[t].applied <= replica'[t].applied
    BY ControlPlaneAssumption
       DEF ControlPlaneAssumption, IInv, ShapeInv, LogLengths
  <2>. QED BY <1>2, <1>3, <1>4, <2>1, UndisturbedStays
<1>5. CASE log' = Append(log, c)
  <2>1. /\ Len(log') = len + 1 /\ log'[len + 1] = c
        /\ \A i \in 1..len : log'[i] = log[i]
        /\ len \in LogLengths' /\ len < Len(log')
        /\ \A i \in LogLengths : i \in LogLengths'
        /\ len + 1 \in LogLengths'
    BY <1>1, <1>5 DEF LogLengths
  <2>2. states[len + 1].chain = states[len].chain
    <3>1. states[len + 1].chain = Executed(states[len], c).state.chain
      <4>1. states[len + 1] = [Executed(states[len], c).state EXCEPT !.applied = len + 1]
        BY <2>1 DEF Replays, StateAfter
      <4>2. IsReplica(states[len + 1])
        BY <2>1 DEF Replays
      <4>. QED BY <4>1, <4>2 DEF IsReplica
    <3>2. IsReplica(states[len])
      BY <1>1 DEF Replays
    <3>3. Executed(states[len], c).state.chain = states[len].chain
      BY <1>1, <3>2 DEF Executed, getSubscriptionNode, IsReplica
    <3>. QED BY <3>1, <3>3
  <2>3. \A chain : LeadsTo(chain) => LeadsTo(chain)'
    BY <1>3, LeadsToStays
  <2>4. ASSUME NEW h \in Changes, ChangeOK(states, h)
        PROVE  ChangeOK(states, h)'
    <3>1. h.server \in Servers /\ h.index \in Nat /\ h.index <= len
      BY <1>1 DEF Changes, TypeInv, HandlerTypes, HandlerOK, HandlerRecord
    <3>2. /\ Base(h) \in LogLengths' /\ Base(h)' \in LogLengths'
          /\ states[Base(h)'].chain = states[Base(h)].chain
      BY <2>1, <2>2, <2>4, <3>1 DEF ChangeOK, Base
    <3>3. ASSUME h.index > 0, NEW i \in h.index..Len(log')
          PROVE  states[i].chain = states[h.index].chain
      <4>1. i \in h.index..len \/ i = len + 1
        BY <1>1, <2>1, <3>1
      <4>2. len \in h.index..Len(log)
        BY <1>1, <3>1
      <4>. QED BY <2>2, <2>4, <3>3, <4>1, <4>2 DEF ChangeOK
    <3>4. h.index > 0 => log'[h.index] = log[h.index]
      BY <1>1, <2>1, <3>1
    <3>5. LeadsTo(states[Base(h)].chain)
      BY <2>4 DEF ChangeOK
    <3>6. PICK chain : chain = states[Base(h)].chain /\ chain = states[Base(h)'].chain
      BY <3>2
    <3>7. LeadsTo(chain)'
      BY <2>3, <3>5, <3>6
    <3>8. (LeadsTo(states[Base(h)].chain))'
      BY <3>6, <3>7
    <3>9. h.pc # "raft" => h.index > 0
      BY <2>4, <3>1 DEF ChangeOK
    <3>. QED BY <2>4, <3>2, <3>3, <3>4, <3>8, <3>9 DEF ChangeOK
  <2>5. Changes = {} => LeadsTo(states[Len(log)].chain)'
    <3>. SUFFICES ASSUME Changes = {} PROVE LeadsTo(states[Len(log)].chain)'
      OBVIOUS
    <3>1. PICK chain : chain = states[len].chain
      OBVIOUS
    <3>2. LeadsTo(chain)'
      BY <2>3, <3>1 DEF Undisturbed
    <3>. QED BY <2>1, <2>2, <3>1, <3>2
  <2>. QED BY <1>2, <2>4, <2>5 DEF Undisturbed
<1>. QED BY <1>4, <1>5 DEF Propose

-----------------------------------------------------------------------------
(* A change is applied, and acted on. *)

LEMMA ChangeApplied ==
  ASSUME IInv, IInv', TypeInv, NEW states, Replays(states), Clean,
         Undisturbed(states), NEW s \in Servers, HasNext(s), ApplyNext(s)
  PROVE  Undisturbed(states)'
<1>. PICK i : i = replica[s].applied + 1
  OBVIOUS
<1>. PICK result : result = Executed(replica[s], log[i]).result
  OBVIOUS
<1>. PICK waiting : waiting = {h \in handlers : h.server = s /\ h.index = i}
  OBVIOUS
<1>. DEFINE New(h) == [h EXCEPT !.pc = "applied", !.result = result]
<1>1. /\ handlers' = (handlers \ waiting) \cup {New(h) : h \in waiting}
      /\ UNCHANGED <<log, jobs, member>>
  BY DEF ApplyNext, raftVars, historyVars
<1>2. \A h \in handlers :
        /\ New(h).op = h.op /\ New(h).ids = h.ids /\ New(h).index = h.index
        /\ New(h).result = result /\ New(h).pc = "applied"
        /\ New(h).server = h.server /\ New(h).old = h.old
  BY DEF TypeInv, HandlerTypes, HandlerOK, HandlerRecord
<1>. HIDE DEF New
<1>3. /\ replica[s].applied = i - 1 /\ i - 1 \in LogLengths
      /\ i \in Nat /\ i > 0
  <2>1. replica[s].applied \in LogLengths /\ Len(Initial) \in Nat
    BY ControlPlaneAssumption DEF ControlPlaneAssumption, IInv, ShapeInv
  <2>2. replica[s].applied \in Nat
    BY <2>1 DEF LogLengths
  <2>3. i \in Nat /\ i > 0 /\ i - 1 = replica[s].applied
    BY <2>2
  <2>. QED BY <2>1, <2>3
<1>4. /\ replica'[s].applied = i
      /\ \A t \in Servers : replica[t].applied <= replica'[t].applied
  <2>. PICK r : r = [Executed(replica[s], log[i]).state EXCEPT !.applied = i]
    OBVIOUS
  <2>1. replica' = [replica EXCEPT ![s] = r]
    BY DEF ApplyNext
  <2>2. r.applied = i
    <3>1. i \in 1..Len(log) /\ log \in Seq(Commands)
      BY <1>3 DEF HasNext, IInv, ShapeInv
    <3>2. log[i] \in Commands /\ IsReplica(replica[s])
      BY <3>1 DEF IInv, ShapeInv
    <3>. QED BY <3>2, ExecutedIsReplica DEF StateAfter
  <2>3. \A t \in Servers : replica[t].applied \in Int
    BY ControlPlaneAssumption DEF ControlPlaneAssumption, IInv, ShapeInv, LogLengths
  <2>. QED BY <1>3, <2>1, <2>2, <2>3 DEF IInv, ShapeInv
<1>5. NeighboursStay
  BY <1>1 DEF NeighboursStay, Reaches
<1>6. CASE \A h \in waiting : h.op = "subscribe"
  <2>1. Changes' = Changes
    BY <1>1, <1>2, <1>6 DEF Changes
  <2>. QED BY <1>1, <1>4, <1>5, <2>1, UndisturbedStays
<1>7. CASE \E h \in waiting : h.op # "subscribe"
  <2>1. PICK h \in waiting : h.op # "subscribe"
    BY <1>7
  <2>2. h \in Changes /\ h.index = i /\ h.server = s
    BY <2>1 DEF Changes
  <2>3. ChangeOK(states, h) /\ jobs = {} /\ \A g \in Changes : g = h
    BY <2>2 DEF Undisturbed
  <2>. PICK new : new = New(h)
    OBVIOUS
  <2>4. Changes' = {new}
    <3>1. new \in Changes'
      BY <1>1, <1>2, <2>1, <2>2 DEF Changes
    <3>2. ASSUME NEW g \in Changes' PROVE g = new
      <4>1. CASE g \in handlers \ waiting
        BY <2>1, <2>3, <4>1 DEF Changes
      <4>2. CASE g \in {New(k) : k \in waiting}
        <5>1. PICK k \in waiting : g = New(k)
          BY <4>2
        <5>2. k \in Changes
          BY <1>2, <5>1 DEF Changes
        <5>. QED BY <2>3, <5>1, <5>2
      <4>. QED BY <1>1, <4>1, <4>2 DEF Changes
    <3>. QED BY <3>1, <3>2
  <2>5. /\ new.op = h.op /\ new.index = i /\ new.result = result
        /\ new.pc = "applied" /\ new.server = s /\ new.old = h.old
    BY <1>2, <2>2
  <2>6. replica[s] = states[i - 1]
    BY <1>3, ReplicasAreStates
  <2>7. Base(new)' = i - 1 /\ Base(h) = i - 1 /\ LogLengths' = LogLengths
    BY <1>1, <1>3, <2>2, <2>5 DEF Base, LogLengths
  <2>8. (LeadsTo(states[Base(new)].chain))'
    <3>. PICK chain : chain = states[i - 1].chain
      OBVIOUS
    <3>1. LeadsTo(chain)
      BY <2>3, <2>7 DEF ChangeOK
    <3>2. LeadsTo(chain)'
      BY <1>1, <1>5, <3>1, LeadsToStays
    <3>. QED BY <2>7, <3>2
  <2>9. ChangeOK(states, new)'
    <3>1. new.op = "update" => new.old = states[i - 1].chain
      BY <2>3, <2>5, <2>7 DEF ChangeOK
    <3>2. \A k \in i..Len(log) : states[k].chain = states[i].chain
      BY <1>3, <2>2, <2>3 DEF ChangeOK
    <3>3. result = Executed(states[i - 1], log[i]).result
      BY <2>6
    <3>4. i <= replica'[s].applied /\ i # 0
      <4>1. i <= i /\ i # 0
        BY <1>3
      <4>. QED BY <1>4, <4>1, Zenon
    <3>. QED BY <1>1, <1>3, <2>5, <2>7, <2>8, <3>1, <3>2, <3>3, <3>4 DEF ChangeOK
  <2>. QED BY <1>1, <2>3, <2>4, <2>9 DEF Undisturbed
<1>. QED BY <1>6, <1>7

(* What a handler finds when its change has been applied at its server: no *)
(* other change was before or after it.                                    *)
LEMMA ChangeFound ==
  ASSUME IInv, TypeInv, NEW states, Replays(states), Clean,
         Undisturbed(states), NEW h \in Changes, h.pc # "raft"
  PROVE  /\ \A g \in Changes : g = h
         /\ jobs = {}
         /\ h.index - 1 \in LogLengths /\ h.index \in LogLengths
         /\ LeadsTo(states[h.index - 1].chain)
         /\ h.op = "update" => h.old = states[h.index - 1].chain
         /\ states[Len(log)].chain = states[h.index].chain
         /\ LET e == Executed(states[h.index - 1], Command(h.op, h.ids))
            IN  /\ h.result = e.result
                /\ states[h.index].chain = e.state.chain
                /\ replica[h.server].chain = e.state.chain
                /\ replica[h.server].nodes = ToSet(e.state.chain)
                /\ Matched(e.state)
         /\ Matched(states[h.index - 1]) /\ IsReplica(states[h.index - 1])
<1>. PICK i : i = h.index
  OBVIOUS
<1>. PICK k : k = replica[h.server].applied
  OBVIOUS
<1>1. ChangeOK(states, h) /\ jobs = {} /\ \A g \in Changes : g = h
  BY DEF Undisturbed
<1>2. /\ HandlerOK(h) /\ h.server \in Servers /\ i \in Nat /\ i # 0
      /\ log[i] = Command(h.op, h.ids) /\ i <= Len(log)
  BY <1>1 DEF Changes, TypeInv, HandlerTypes, HandlerOK, HandlerRecord, ChangeOK
<1>3. /\ Len(log) \in Nat /\ Len(Initial) \in Nat /\ k \in LogLengths
      /\ log \in Seq(Commands)
  BY <1>2, ControlPlaneAssumption DEF ControlPlaneAssumption, IInv, ShapeInv
<1>4. /\ Base(h) = i - 1 /\ i - 1 \in LogLengths /\ i \in LogLengths /\ i - 1 < Len(log)
      /\ (i - 1) + 1 = i /\ i <= k /\ k \in i..Len(log) /\ Len(log) \in i..Len(log)
      /\ log[i] \in Commands
  BY <1>1, <1>2, <1>3 DEF ChangeOK, Base, LogLengths
<1>. PICK e : e = Executed(states[i - 1], Command(h.op, h.ids))
  OBVIOUS
<1>5. /\ Matched(states[i - 1]) /\ IsReplica(states[i - 1])
      /\ Matched(states[k]) /\ Matched(states[i])
  BY <1>3, <1>4, StatesMatched
<1>6. states[i].chain = e.state.chain /\ Matched(e.state)
  BY <1>2, <1>4, <1>5, NextChain, ExecutedMatched
<1>7. /\ states[Len(log)].chain = states[i].chain
      /\ states[k].chain = states[i].chain
      /\ h.result = e.result
  BY <1>1, <1>2, <1>3, <1>4 DEF ChangeOK
<1>8. replica[h.server] = states[k]
  BY <1>2, ReplicasAreStates
<1>9. replica[h.server].chain = e.state.chain
      /\ replica[h.server].nodes = ToSet(e.state.chain)
  BY <1>5, <1>6, <1>7, <1>8 DEF Matched
<1>. QED BY <1>1, <1>4, <1>5, <1>6, <1>7, <1>9 DEF ChangeOK

LEMMA ChangeEnds ==
  ASSUME NEW states, Undisturbed(states), NEW h \in Changes,
         handlers' = handlers \ {h}, LeadsTo(states[Len(log)].chain)'
  PROVE  Undisturbed(states)'
<1>1. Changes' = {}
  BY DEF Undisturbed, Changes
<1>. QED BY <1>1 DEF Undisturbed

(* The predecessor is still known when it is looked up. *)
LEMMA PredecessorKnown ==
  ASSUME IInv, TypeInv, NEW states, Replays(states), Clean,
         Undisturbed(states), NEW h \in handlers, LookUpPredecessor(h)
  PROVE  Undisturbed(states)'
<1>1. h \in Changes /\ h.op = "register" /\ h.pc = "applied" /\ h.result.ok
  BY DEF LookUpPredecessor, Changes
<1>. PICK n : n = TheId(Command(h.op, h.ids))
  OBVIOUS
<1>. PICK r : r = states[h.index - 1]
  OBVIOUS
<1>2. /\ \A g \in Changes : g = h
      /\ h.result = registerNode(r, n).result
      /\ replica[h.server].nodes = ToSet(registerNode(r, n).state.chain)
      /\ Matched(r) /\ IsReplica(r) /\ n \in Nodes
  <2>1. Executed(r, Command(h.op, h.ids)) = registerNode(r, n)
    BY <1>1 DEF Executed, Command
  <2>2. PICK m \in Nodes : h.ids = {m}
    BY <1>1 DEF TypeInv, HandlerTypes, HandlerOK, Command, Commands
  <2>3. n = m
    BY <2>2 DEF TheId, Command
  <2>. QED BY <1>1, <2>1, <2>3, ChangeFound
<1>3. /\ n \notin r.nodes /\ h.result = Result(getTail(r), Nil)
      /\ ToSet(r.chain) \subseteq replica[h.server].nodes
  <2>1. n \notin r.nodes
    BY <1>1, <1>2 DEF registerNode, Failed
  <2>2. registerNode(r, n).state.chain = Append(r.chain, n)
    BY <1>2, <2>1 DEF registerNode, appendNode, IsReplica
  <2>3. ToSet(Append(r.chain, n)) = ToSet(r.chain) \cup {n}
    BY <1>2, AppendKeepsOrder DEF Matched
  <2>. QED BY <1>2, <2>1, <2>2, <2>3 DEF registerNode
<1>4. Known(h.server, h.result.pred) = h.result.pred
  <2>1. h.result.pred = getTail(r)
    BY <1>3 DEF Result
  <2>2. r.chain # <<>> => getTail(r) \in ToSet(r.chain)
    BY <1>2 DEF Matched, getTail, Last, ToSet
  <2>3. r.chain = <<>> => getTail(r) = Nil
    BY DEF getTail
  <2>. QED BY <1>3, <2>1, <2>2, <2>3 DEF Known
<1>. PICK new : new = [h EXCEPT !.pc = "call"]
  OBVIOUS
<1>5. /\ new.op = h.op /\ new.index = h.index /\ new.server = h.server
      /\ new.result = h.result /\ new.old = h.old /\ new.pc = "call"
  BY DEF TypeInv, HandlerTypes, HandlerOK, HandlerRecord
<1>6. /\ handlers' = (handlers \ {h}) \cup {new}
      /\ UNCHANGED <<log, replica, jobs, member>>
  <2>1. [h EXCEPT !.pc = "call", !.result.pred = Known(h.server, @)] = new
    BY <1>4 DEF TypeInv, HandlerTypes, HandlerOK, HandlerRecord
  <2>. QED BY <2>1 DEF LookUpPredecessor, raftVars, historyVars
<1>7. Changes' = {new}
  BY <1>1, <1>2, <1>5, <1>6 DEF Changes
<1>8. \A chain : LeadsTo(chain) => LeadsTo(chain)'
  <2>1. NeighboursStay
    BY <1>6 DEF NeighboursStay, Reaches
  <2>. QED BY <1>6, <2>1, LeadsToStays
<1>9. ChangeOK(states, new)'
  <2>1. ChangeOK(states, h)
    BY <1>1 DEF Undisturbed
  <2>2. Base(new)' = Base(h) /\ LogLengths' = LogLengths
    BY <1>5, <1>6 DEF Base, LogLengths
  <2>3. (LeadsTo(states[Base(new)].chain))'
    <3>. PICK chain : chain = states[Base(h)].chain
      OBVIOUS
    <3>1. LeadsTo(chain)'
      BY <1>8, <2>1 DEF ChangeOK
    <3>. QED BY <2>2, <3>1
  <2>. QED BY <1>1, <1>5, <1>6, <2>1, <2>2, <2>3 DEF ChangeOK
<1>. QED BY <1>1, <1>6, <1>7, <1>9 DEF Undisturbed

LEMMA RegistrationAnswered ==
  ASSUME IInv, TypeInv, AskedOnce, FreshInv, NEW states, Replays(states), Clean,
         Undisturbed(states), NEW h \in handlers, AnswerRegistration(h)
  PROVE  Undisturbed(states)'
<1>. PICK n : n = TheId(h)
  OBVIOUS
<1>. PICK r : r = states[h.index - 1]
  OBVIOUS
<1>. PICK pred : pred = h.result.pred
  OBVIOUS
<1>1. h \in Changes /\ h.op = "register" /\ h.pc = "call"
      /\ handlers' = handlers \ {h} /\ UNCHANGED <<log, jobs>>
  BY DEF AnswerRegistration, Changes, raftVars
<1>2. h.ids = {n} /\ n \in Nodes /\ TheId(Command(h.op, h.ids)) = n
  BY <1>1 DEF TypeInv, HandlerTypes, HandlerOK, Command, Commands, TheId
<1>3. h.result.ok
  BY <1>1 DEF Undisturbed, ChangeOK
<1>4. /\ jobs = {} /\ LeadsTo(r.chain)
      /\ states[Len(log)].chain = registerNode(r, n).state.chain
      /\ h.result = registerNode(r, n).result
      /\ Matched(r) /\ IsReplica(r)
  <2>1. Executed(r, Command(h.op, h.ids)) = registerNode(r, n)
    BY <1>1, <1>2 DEF Executed, Command
  <2>. QED BY <1>1, <2>1, ChangeFound
<1>5. /\ n \notin ToSet(r.chain) /\ r.chain \in Seq(Nodes) /\ IsInjective(r.chain)
      /\ states[Len(log)].chain = Append(r.chain, n)
      /\ pred = Neighbour(r.chain, Len(r.chain))
  <2>1. n \notin r.nodes
    BY <1>3, <1>4 DEF registerNode, Failed
  <2>2. registerNode(r, n).state.chain = Append(r.chain, n)
    BY <1>4, <2>1 DEF registerNode, appendNode, IsReplica
  <2>3. pred = getTail(r)
    BY <1>4, <2>1 DEF registerNode, Result
  <2>4. getTail(r) = Neighbour(r.chain, Len(r.chain))
    BY <1>4 DEF Matched, getTail, Last, Neighbour
  <2>. QED BY <1>4, <2>1, <2>2, <2>3, <2>4 DEF Matched
<1>6. /\ member[n].pc = "registering" /\ pred # n
      /\ member[n].predecessor = Nil /\ member[n].successor = Nil
  <2>1. member[n].pc = "registering"
    BY <1>1, <1>2 DEF AskedOnce
  <2>2. pred # n
    BY <1>2, <1>5, ControlPlaneAssumption
       DEF ControlPlaneAssumption, Neighbour, ToSet
  <2>. QED BY <1>2, <2>1, <2>2 DEF FreshInv
<1>. PICK told : told = IF Reaches(pred) THEN Wire(pred, "successor", n) ELSE member
  OBVIOUS
<1>7. member' = [told EXCEPT
           ![n].pc = "running", ![n].waiting = FALSE, ![n].toTry = <<>>,
           ![n].predecessor = IF pred = Nil THEN @ ELSE pred]
  BY DEF AnswerRegistration
<1>8. /\ DOMAIN told = Nodes /\ told[n] = member[n]
      /\ \A m \in Nodes :
           /\ told[m].pc = member[m].pc
           /\ told[m].predecessor = member[m].predecessor
           /\ told[m].successor =
                IF Reaches(pred) /\ m = pred THEN n ELSE member[m].successor
  <2>1. CASE ~Reaches(pred)
    BY <2>1 DEF TypeInv
  <2>2. CASE Reaches(pred)
    <3>1. pred \in Nodes /\ member[pred] \in MemberRecord
      BY <2>2, ReachedNodes DEF TypeInv
    <3>2. /\ DOMAIN told = Nodes
          /\ told[pred] = [member[pred] EXCEPT !["successor"] = n]
          /\ \A m \in Nodes : m # pred => told[m] = member[m]
      BY <2>2, <3>1 DEF TypeInv, Wire
    <3>3. /\ told[pred].pc = member[pred].pc /\ told[pred].successor = n
          /\ told[pred].predecessor = member[pred].predecessor
      BY <3>1, <3>2 DEF MemberRecord
    <3>. QED BY <1>2, <1>6, <2>2, <3>2, <3>3
  <2>. QED BY <2>1, <2>2
<1>9. /\ \A m \in Nodes \ {n} : member'[m] = told[m]
      /\ member'[n].successor = member[n].successor
      /\ member'[n].predecessor =
           IF pred = Nil THEN member[n].predecessor ELSE pred
  <2>1. member[n] \in MemberRecord
    BY <1>2 DEF TypeInv
  <2>. QED BY <1>2, <1>7, <1>8, <2>1 DEF MemberRecord
<1>10. LeadsTo(Append(r.chain, n))'
  <2>1. \A m \in Nodes \ {n} : Reaches(m)' =>
          /\ Reaches(m) /\ member'[m].predecessor = member[m].predecessor
          /\ member'[m].successor = IF m = pred THEN n ELSE member[m].successor
    BY <1>8, <1>9 DEF Reaches
  <2>. PICK chain : chain = r.chain
    OBVIOUS
  <2>2. LeadsTo(Append(chain, n))'
    BY <1>1, <1>2, <1>4, <1>5, <1>6, <1>9, <2>1, TailWired
  <2>. QED BY <2>2
<1>. QED BY <1>1, <1>5, <1>10, ChangeEnds

LEMMA RegistrationRefused ==
  ASSUME IInv, TypeInv, NEW states, Replays(states), Clean,
         Undisturbed(states), NEW h \in handlers, RefuseRegistration(h)
  PROVE  Undisturbed(states)'
<1>. PICK n : n = TheId(Command(h.op, h.ids))
  OBVIOUS
<1>. PICK r : r = states[h.index - 1]
  OBVIOUS
<1>1. h \in Changes /\ h.op = "register" /\ h.pc = "applied" /\ ~h.result.ok
      /\ handlers' = handlers \ {h} /\ UNCHANGED <<log, jobs>>
  BY DEF RefuseRegistration, Changes, raftVars
<1>2. /\ jobs = {} /\ LeadsTo(r.chain)
      /\ states[Len(log)].chain = registerNode(r, n).state.chain
      /\ h.result = registerNode(r, n).result
  <2>1. Executed(r, Command(h.op, h.ids)) = registerNode(r, n)
    BY <1>1 DEF Executed, Command
  <2>. QED BY <1>1, <2>1, ChangeFound
<1>3. states[Len(log)].chain = r.chain
  BY <1>1, <1>2 DEF registerNode, Result
<1>4. NeighboursStay
  <2>1. \A m \in Nodes : member'[m] = member[m] \/ member'[m].pc = "refused"
    BY DEF RefuseRegistration, TypeInv, MemberRecord
  <2>. QED BY <2>1 DEF NeighboursStay, Reaches
<1>5. LeadsTo(r.chain)'
  <2>. PICK chain : chain = r.chain
    OBVIOUS
  <2>1. LeadsTo(chain)'
    BY <1>1, <1>2, <1>4, LeadsToStays
  <2>. QED BY <2>1
<1>. QED BY <1>1, <1>3, <1>5, ChangeEnds

LEMMA UnregistrationAnswered ==
  ASSUME IInv, TypeInv, NEW states, Replays(states), Clean,
         Undisturbed(states), NEW h \in handlers, AnswerUnregistration(h)
  PROVE  Undisturbed(states)'
<1>. PICK n : n = TheId(Command(h.op, h.ids))
  OBVIOUS
<1>. PICK r : r = states[h.index - 1]
  OBVIOUS
<1>. PICK pred : pred = h.result.pred
  OBVIOUS
<1>. PICK succ : succ = h.result.succ
  OBVIOUS
<1>. PICK i : i = findNodeIndex(r, n)
  OBVIOUS
<1>1. h \in Changes /\ h.op = "unregister" /\ h.pc = "applied"
      /\ handlers' = handlers \ {h} /\ log' = log /\ h.server \in Servers
  BY DEF AnswerUnregistration, Changes, raftVars,
         TypeInv, HandlerTypes, HandlerOK, HandlerRecord
<1>2. /\ jobs = {} /\ LeadsTo(r.chain)
      /\ states[Len(log)].chain = unregisterNode(r, n).state.chain
      /\ h.result = unregisterNode(r, n).result
      /\ replica[h.server].nodes = ToSet(unregisterNode(r, n).state.chain)
      /\ IsReplica(r) /\ r.chain \in Seq(Nodes) /\ IsInjective(r.chain)
  <2>1. Executed(r, Command(h.op, h.ids)) = unregisterNode(r, n)
    BY <1>1 DEF Executed, Command
  <2>. QED BY <1>1, <2>1, ChangeFound DEF Matched
<1>3. jobs' = IF /\ {pred, succ} \subseteq replica[h.server].nodes \cup {Nil}
                 /\ {pred, succ} # {Nil}
              THEN {Job(h.server, pred, succ)} ELSE {}
  BY <1>2 DEF AnswerUnregistration
<1>4. NeighboursStay
  <2>1. \A m \in Nodes : member'[m] = member[m] \/ member'[m].pc = "stopped"
    BY DEF AnswerUnregistration, TypeInv, MemberRecord
  <2>. QED BY <2>1 DEF NeighboursStay, Reaches
<1>5. CASE i = 0
  <2>1. states[Len(log)].chain = r.chain /\ pred = Nil /\ succ = Nil
    BY <1>2, <1>5 DEF unregisterNode, Failed
  <2>2. LeadsTo(r.chain)'
    <3>. PICK chain : chain = r.chain
      OBVIOUS
    <3>1. LeadsTo(chain)'
      BY <1>2, <1>3, <1>4, <2>1, LeadsToStays
    <3>. QED BY <3>1
  <2>. QED BY <1>1, <2>1, <2>2, ChangeEnds
<1>6. CASE i # 0
  <2>. PICK new : new = RemoveAt(r.chain, i)
    OBVIOUS
  <2>1. i \in DOMAIN r.chain
    BY <1>2, <1>6, IndexFound
  <2>2. /\ pred = IF i = 1 THEN Nil ELSE r.chain[i - 1]
        /\ succ = IF i = Len(r.chain) THEN Nil ELSE r.chain[i + 1]
    BY <1>2, <1>6 DEF unregisterNode, Result
  <2>3. unregisterNode(r, n).state.chain = new
    BY <1>2, <1>6 DEF unregisterNode, removeNode, IsReplica
  <2>4. /\ Joined(new, pred, succ)
        /\ \A p, q : Joined(new, p, q) =>
             Joined(r.chain, p, q) \/ (p = pred /\ q = succ)
    <3>. PICK old : old = r.chain
      OBVIOUS
    <3>1. /\ old \in Seq(Nodes) /\ i \in DOMAIN old /\ new = RemoveAt(old, i)
          /\ pred = IF i = 1 THEN Nil ELSE old[i - 1]
          /\ succ = IF i = Len(old) THEN Nil ELSE old[i + 1]
      BY <1>2, <2>1, <2>2
    <3>2. /\ Joined(new, pred, succ)
          /\ \A p, q : Joined(new, p, q) =>
               Joined(old, p, q) \/ (p = pred /\ q = succ)
      BY <3>1, JoinedRemoved
    <3>. QED BY <3>2
  <2>5. {pred, succ} \subseteq ToSet(new) \cup {Nil}
    <3>1. \A k \in 0..Len(new) : /\ Neighbour(new, k) \in ToSet(new) \cup {Nil}
                                 /\ Neighbour(new, k + 1) \in ToSet(new) \cup {Nil}
      BY DEF Neighbour, ToSet
    <3>. QED BY <2>4, <3>1 DEF Joined
  <2>6. jobs' = IF {pred, succ} # {Nil} THEN {Job(h.server, pred, succ)} ELSE {}
    BY <1>2, <1>3, <2>3, <2>5
  <2>7. LET j == Job(h.server, pred, succ)
        IN  /\ j.pred = pred /\ j.succ = succ
            /\ j.pc = IF succ = Nil THEN "succ" ELSE "pred"
    BY DEF Job
  <2>. PICK old : old = r.chain
    OBVIOUS
  <2>8. LeadsTo(new)'
    <3>1. \A j \in jobs' : /\ Joined(new, j.pred, j.succ)
                           /\ j.pc = "pred" => j.succ # Nil
                           /\ j.pc = "succ" => j.pred # Nil
      <4>1. CASE {pred, succ} = {Nil}
        BY <2>6, <4>1
      <4>2. CASE {pred, succ} # {Nil}
        BY <2>4, <2>6, <2>7, <4>2
      <4>. QED BY <4>1, <4>2
    <3>2. ASSUME NEW p, NEW q, Joined(new, p, q)
          PROVE  \/ p = Nil /\ q = Nil
                 \/ Joined(old, p, q)
                 \/ \E s \in Servers : Job(s, p, q) \in jobs'
      BY <1>1, <2>4, <2>6, <3>2
    <3>. QED BY <1>2, <1>4, <3>1, <3>2, JobsLead
  <2>. QED BY <1>1, <1>2, <2>3, <2>8, ChangeEnds
<1>. QED BY <1>5, <1>6

LEMMA ChainReconnected ==
  ASSUME IInv, TypeInv, NEW states, Replays(states), Clean,
         Undisturbed(states), NEW h \in handlers, ReconnectChain(h)
  PROVE  Undisturbed(states)'
<1>. PICK r : r = states[h.index - 1]
  OBVIOUS
<1>. PICK old : old = r.chain
  OBVIOUS
<1>. PICK new : new = Without(old, h.ids)
  OBVIOUS
<1>1. h \in Changes /\ h.op = "update" /\ h.pc = "applied"
      /\ handlers' = handlers \ {h} /\ UNCHANGED <<log, member>>
      /\ h.server \in Servers
  BY DEF ReconnectChain, Changes, raftVars, historyVars,
         TypeInv, HandlerTypes, HandlerOK, HandlerRecord
<1>2. /\ jobs = {} /\ LeadsTo(old) /\ h.old = old /\ old \in Seq(Nodes)
      /\ states[Len(log)].chain = new
      /\ replica[h.server].chain = new
      /\ replica[h.server].nodes = ToSet(new)
  <2>1. IsReplica(r) /\ Matched(r)
    BY <1>1, ChangeFound
  <2>2. Executed(r, Command(h.op, h.ids)).state.chain = new
    BY <1>1, <2>1 DEF Executed, Command, updateChain, IsReplica
  <2>. QED BY <1>1, <2>1, <2>2, ChangeFound DEF Matched
<1>3. jobs' = Reconnections(h.server, old, h.ids)
  BY <1>2 DEF ReconnectChain
<1>4. NeighboursStay
  BY <1>1 DEF NeighboursStay, Reaches
<1>5. LeadsTo(new)'
  <2>1. /\ \A j \in jobs' : /\ Joined(new, j.pred, j.succ)
                            /\ j.pc = "pred" => j.succ # Nil
                            /\ j.pc = "succ" => j.pred # Nil
        /\ \A p, q : Joined(new, p, q) =>
             \/ p = Nil /\ q = Nil
             \/ Joined(old, p, q)
             \/ Job(h.server, p, q) \in jobs'
    BY <1>1, <1>2, <1>3, ReconnectionsJoin
  <2>. QED BY <1>1, <1>2, <1>4, <2>1, JobsLead
<1>. QED BY <1>1, <1>2, <1>5, ChangeEnds

(* reconnectNeighbors. *)
LEMMA NeighboursReconnected ==
  ASSUME IInv, TypeInv, NEW states, Replays(states), Undisturbed(states),
         NEW j \in jobs, SetPredecessor(j) \/ SetSuccessor(j)
  PROVE  Undisturbed(states)'
<1>. PICK chain : chain = states[Len(log)].chain
  OBVIOUS
<1>1. UNCHANGED <<log, handlers>>
  BY DEF SetPredecessor, SetSuccessor, raftVars
<1>2. Changes = {} /\ Changes' = {} /\ LeadsTo(chain)
  BY <1>1 DEF Undisturbed, Changes
<1>3. chain \in Seq(Nodes) /\ IsInjective(chain)
  <2>1. Len(log) \in LogLengths
    BY ControlPlaneAssumption
       DEF ControlPlaneAssumption, IInv, ShapeInv, LogLengths
  <2>. QED BY <2>1, StatesMatched DEF Matched
<1>4. LeadsTo(chain)'
  BY <1>2, <1>3, PredecessorSet, SuccessorSet
<1>. QED BY <1>1, <1>2, <1>4 DEF Undisturbed

-----------------------------------------------------------------------------
(* A node that has not begun to serve is told of no neighbour. *)

Fresh(n) == member[n].pc \in {"new", "registering"}

LEMMA NextFreshInv == TypeInv /\ FreshInv /\ [Next]_vars => FreshInv'
<1>. SUFFICES ASSUME TypeInv, FreshInv, [Next]_vars PROVE FreshInv'
  OBVIOUS
<1>1. member \in [Nodes -> MemberRecord]
  BY DEF TypeInv
<1>2. ASSUME NEW new, member' = new,
             \A n \in Nodes : new[n].pc \in {"new", "registering"} =>
               /\ member[n].pc \in {"new", "registering"}
               /\ new[n].predecessor = member[n].predecessor
               /\ new[n].successor = member[n].successor
      PROVE  FreshInv'
  BY <1>2 DEF FreshInv
<1>3. CASE member' = member
  BY <1>3 DEF FreshInv
<1>4. ASSUME NEW s \in Servers, Elect(s) \/ Snapshot(s) \/ Restore(s)
                                \/ GetSubscriptionNode(s)
      PROVE  FreshInv'
  BY <1>3, <1>4 DEF Elect, Snapshot, Restore, GetSubscriptionNode
<1>5. ASSUME NEW gone, NEW goroutines, Disconnect(gone, goroutines)
      PROVE  FreshInv'
  <2>1. member' = [n \in Nodes |->
          [member[n] EXCEPT !.waiting = @ /\ n \notin Callers(gone)]]
    BY <1>5 DEF Disconnect
  <2>. QED BY <1>1, <2>1 DEF FreshInv, MemberRecord
<1>6. ASSUME NEW s \in Servers, StepDown(s) \/ EndServer(s) PROVE FreshInv'
  <2>1. CASE StepDown(s)
    BY <1>5, <2>1 DEF StepDown
  <2>2. CASE EndServer(s)
    BY <1>5, <2>2 DEF EndServer
  <2>. QED BY <1>6, <2>1, <2>2
<1>7. ASSUME NEW s \in Servers, CrashServer(s) \/ Apply(s) \/ IdentifyDeadNodes(s)
      PROVE  FreshInv'
  BY <1>3, <1>6, <1>7 DEF CrashServer, Apply, ApplyNext, Panic,
                          IdentifyDeadNodes, RemoveNodesViaRaft
<1>8. ASSUME NEW n \in Nodes,
             \/ StartNode(n) \/ Shutdown(n) \/ CrashNode(n)
             \/ TryNextServer(n) \/ GiveUp(n)
      PROVE  FreshInv'
  <2>1. ASSUME NEW pc, NEW toTry, Begin(n, pc, toTry),
               member[n].pc = "new" \/ pc \notin {"new", "registering"}
        PROVE  FreshInv'
    BY <1>1, <2>1 DEF Begin, FreshInv, MemberRecord
  <2>2. CASE StartNode(n)
    BY <2>1, <2>2 DEF StartNode
  <2>3. CASE Shutdown(n)
    BY <2>1, <2>3 DEF Shutdown
  <2>4. CASE CrashNode(n)
    BY <2>1, <2>4 DEF CrashNode
  <2>5. CASE TryNextServer(n)
    <3>1. PICK b : member' = [member EXCEPT ![n].toTry = Tail(@), ![n].waiting = b]
      BY <2>5 DEF TryNextServer
    <3>. QED BY <1>1, <3>1 DEF FreshInv, MemberRecord
  <2>6. CASE GiveUp(n)
    <3>1. PICK pc \in {"refused", "stopped"} : member' = [member EXCEPT
            ![n].pc = pc, ![n].toTry = <<>>, ![n].waiting = FALSE]
      BY <1>1, <2>6 DEF GiveUp
    <3>. QED BY <1>1, <3>1 DEF FreshInv, MemberRecord
  <2>. QED BY <1>8, <2>2, <2>3, <2>4, <2>5, <2>6
<1>9. ASSUME NEW n, Reaches(n), NEW field \in {"predecessor", "successor"}, NEW value
      PROVE  \A m \in Nodes : /\ Wire(n, field, value)[m].pc = member[m].pc
                              /\ Fresh(m) => Wire(n, field, value)[m] = member[m]
  <2>1. n \in Nodes /\ ~Fresh(n)
    BY <1>9 DEF Reaches, Fresh
  <2>2. Wire(n, field, value) =
          [member EXCEPT ![n] = [member[n] EXCEPT ![field] = value]]
    BY DEF Wire
  <2>3. [member[n] EXCEPT ![field] = value].pc = member[n].pc
    BY <1>1, <2>1 DEF MemberRecord
  <2>. QED BY <1>1, <2>1, <2>2, <2>3
<1>10. ASSUME NEW h \in handlers, AnswerRegistration(h) PROVE FreshInv'
  <2>. DEFINE n == TheId(h)
              told == IF Reaches(h.result.pred)
                      THEN Wire(h.result.pred, "successor", n) ELSE member
  <2>1. \A m \in Nodes : /\ told[m].pc = member[m].pc
                         /\ Fresh(m) => told[m] = member[m]
    BY <1>9
  <2>2. \E p : member' = [told EXCEPT ![n].pc = "running", ![n].waiting = FALSE,
                         ![n].toTry = <<>>, ![n].predecessor = p]
    BY <1>10 DEF AnswerRegistration
  <2>3. told \in [Nodes -> MemberRecord]
    <3>1. n \in SomeNode
      <4>. h.op = "register" /\ Command(h.op, h.ids) \in Commands
        BY <1>10 DEF AnswerRegistration, TypeInv, HandlerTypes, HandlerOK
      <4>. PICK m \in Nodes : h.ids = {m}
        BY DEF Command, Commands
      <4>. QED BY DEF TheId, SomeNode
    <3>. QED BY <1>1, <3>1, WireTypes
  <2>. HIDE DEF told, n
  <2>4. PICK p : member' = [told EXCEPT ![n].pc = "running", ![n].waiting = FALSE,
                         ![n].toTry = <<>>, ![n].predecessor = p]
    BY <2>2
  <2>5. ASSUME NEW m \in Nodes, Fresh(m)' PROVE Fresh(m) /\ member'[m] = member[m]
    <3>1. m # n
      <4>. SUFFICES ASSUME m = n PROVE FALSE
        OBVIOUS
      <4>. QED BY <2>3, <2>4, <2>5 DEF Fresh, MemberRecord
    <3>. QED BY <2>1, <2>3, <2>4, <2>5, <3>1 DEF Fresh
  <2>. QED BY <2>5 DEF Fresh, FreshInv
<1>11. ASSUME NEW h \in handlers, RefuseRegistration(h) \/ AnswerUnregistration(h)
       PROVE  FreshInv'
  <2>1. ASSUME NEW n \in Nodes
        PROVE  \/ member'[n] = member[n]
               \/ member'[n].pc \in {"refused", "stopped"}
    <3>1. CASE RefuseRegistration(h)
      BY <1>1, <3>1 DEF RefuseRegistration, MemberRecord
    <3>2. CASE AnswerUnregistration(h)
      BY <1>1, <3>2 DEF AnswerUnregistration, MemberRecord
    <3>. QED BY <1>11, <3>1, <3>2
  <2>. QED BY <2>1 DEF FreshInv
<1>12. ASSUME NEW h \in handlers,
              \/ LookUpPredecessor(h) \/ LookUpSubscriptionNode(h)
              \/ AnswerSubscription(h) \/ ReconnectChain(h)
       PROVE  FreshInv'
  BY <1>3, <1>12 DEF LookUpPredecessor, LookUpSubscriptionNode,
                     AnswerSubscription, ReconnectChain
<1>13. ASSUME NEW j \in jobs, SetPredecessor(j) \/ SetSuccessor(j)
       PROVE  FreshInv'
  <2>1. \A m \in Nodes : /\ member'[m].pc = member[m].pc
                         /\ Fresh(m) => member'[m] = member[m]
    <3>1. CASE SetPredecessor(j)
      BY <1>9, <3>1 DEF SetPredecessor
    <3>2. CASE SetSuccessor(j)
      BY <1>9, <3>2 DEF SetSuccessor
    <3>. QED BY <1>13, <3>1, <3>2
  <2>. QED BY <2>1 DEF Fresh, FreshInv
<1>14. CASE Persist \/ UNCHANGED vars
  BY <1>3, <1>14 DEF Persist, vars
<1>. QED BY <1>4, <1>6, <1>7, <1>8, <1>10, <1>11, <1>12, <1>13, <1>14 DEF Next

LEMMA InitFreshInv == Init => FreshInv
BY DEF Init, FreshInv

-----------------------------------------------------------------------------
(* The invariant of the wiring. *)

LEMMA InitWiring == Init => WiringInv
<1>. SUFFICES ASSUME Init, NEW states, Replays(states) PROVE Undisturbed(states)
  BY DEF WiringInv
<1>. DEFINE len == Len(Initial)
<1>1. /\ len \in Nat /\ Initial \in Seq(Nodes) /\ DOMAIN Initial = 1..len
      /\ IsInjective(Initial) /\ Nil \notin Nodes
  BY ControlPlaneAssumption DEF ControlPlaneAssumption
<1>2. Changes = {} /\ jobs = {} /\ Len(log) = len
  BY <1>1 DEF Init, Changes
<1>3. states[Len(log)].chain = Initial
  BY <1>2 DEF Replays, FirstState
<1>4. ASSUME NEW i \in 1..len
      PROVE  /\ member[Initial[i]].predecessor = Neighbour(Initial, i - 1)
             /\ member[Initial[i]].successor = Neighbour(Initial, i + 1)
  <2>1. Initial[i] \in Nodes /\ Initial[i] \in ToSet(Initial)
    BY <1>1 DEF ToSet
  <2>2. Position(Initial[i]) = i
    BY <1>1 DEF Position, IsInjective
  <2>3. /\ member[Initial[i]].predecessor = IF i = 1 THEN Nil ELSE Initial[i - 1]
        /\ member[Initial[i]].successor = IF i = len THEN Nil ELSE Initial[i + 1]
    BY <2>1, <2>2 DEF Init
  <2>4. Neighbour(Initial, i - 1) = IF i = 1 THEN Nil ELSE Initial[i - 1]
    BY <1>1 DEF Neighbour
  <2>5. Neighbour(Initial, i + 1) = IF i = len THEN Nil ELSE Initial[i + 1]
    <3>1. \A l \in Nat : i \in 1..l => (i + 1 \in 1..l <=> i # l)
      OBVIOUS
    <3>. QED BY <1>1, <3>1, Zenon DEF Neighbour
  <2>. QED BY <2>3, <2>4, <2>5
<1>5. ASSUME NEW p, NEW q, Joined(Initial, p, q) PROVE WiredPair(p, q)
  <2>1. PICK i \in 0..len : p = Neighbour(Initial, i) /\ q = Neighbour(Initial, i + 1)
    BY <1>5 DEF Joined
  <2>2. ASSUME Reaches(q) PROVE member[q].predecessor = p
    <3>1. q # Nil
      BY <2>2, ReachedNodes
    <3>2. i + 1 \in 1..len /\ q = Initial[i + 1] /\ (i + 1) - 1 = i
      BY <1>1, <2>1, <3>1 DEF Neighbour
    <3>. QED BY <1>4, <2>1, <3>2
  <2>3. ASSUME Reaches(p) PROVE member[p].successor = q
    <3>1. p # Nil
      BY <2>3, ReachedNodes
    <3>2. i \in 1..len /\ p = Initial[i]
      BY <1>1, <2>1, <3>1 DEF Neighbour
    <3>. QED BY <1>4, <2>1, <3>2
  <2>. QED BY <2>2, <2>3 DEF WiredPair
<1>6. LeadsTo(Initial)
  BY <1>2, <1>5 DEF LeadsTo
<1>. QED BY <1>2, <1>3, <1>6 DEF Undisturbed

LEMMA NextWiringInv ==
  IInv /\ TypeInv /\ RegistrationInv /\ FreshInv /\ WiringInv /\ [Next]_vars
    => WiringInv'
<1>. SUFFICES ASSUME IInv, TypeInv, AskedOnce, FreshInv, WiringInv, [Next]_vars,
                     NEW states, Replays(states)', ~disturbed', Clean'
     PROVE  Undisturbed(states)'
  BY DEF WiringInv, RegistrationInv
<1>1. IInv'
  BY NextIInv
<1>2. ASSUME ~disturbed, Clean,
             log' = log \/ \E c \in Commands : log' = Append(log, c)
      PROVE  Replays(states) /\ Undisturbed(states)
  BY <1>2, StatesStay DEF WiringInv
<1>3. ASSUME ~disturbed, Clean, NeighboursStay, UNCHANGED <<log, jobs>>,
             Changes' = Changes,
             \A s \in Servers : replica[s].applied <= replica'[s].applied
      PROVE  Undisturbed(states)'
  BY <1>1, <1>2, <1>3, UndisturbedStays
<1>4. ShapeInv /\ \A s \in Servers : replica[s].applied \in Nat
  BY ControlPlaneAssumption DEF ControlPlaneAssumption, IInv, ShapeInv, LogLengths
<1>5. ASSUME ~disturbed, UNCHANGED <<log, jobs, handlers, replica, snapshot>>,
             NeighboursStay
      PROVE  Undisturbed(states)'
  BY <1>3, <1>4, <1>5 DEF Clean, Changes
<1>6. ASSUME NEW s \in Servers, Elect(s) PROVE Undisturbed(states)'
  BY <1>5, <1>6 DEF Elect, historyVars, NeighboursStay, Reaches
<1>7. ASSUME NEW s \in Servers, Snapshot(s) \/ Restore(s) PROVE Undisturbed(states)'
  <2>1. /\ UNCHANGED <<log, jobs, handlers, member, disturbed>>
    BY <1>7 DEF Snapshot, Restore, raftVars, historyVars
  <2>2. Clean
    BY <1>7 DEF Snapshot, Restore, Clean, NoSnapshot
  <2>3. \A t \in Servers : replica[t].applied <= replica'[t].applied
    <3>1. CASE Snapshot(s)
      BY <1>4, <3>1 DEF Snapshot
    <3>2. CASE Restore(s)
      <4>1. /\ replica' = [replica EXCEPT ![s] = snapshot.state]
            /\ replica[s].applied < snapshot.state.applied
            /\ snapshot.pc = "stored"
        BY <3>2 DEF Restore, Restored
      <4>2. snapshot.state.applied \in Nat /\ DOMAIN replica = Servers
        BY <1>4, <4>1, ControlPlaneAssumption
           DEF ControlPlaneAssumption, ShapeInv, LogLengths
      <4>3. \A t \in Servers : replica'[t] = replica[t]
                              \/ (t = s /\ replica'[t] = snapshot.state)
        BY <4>1, <4>2
      <4>. QED BY <1>4, <4>1, <4>2, <4>3
    <3>. QED BY <1>7, <3>1, <3>2
  <2>. QED BY <1>3, <2>1, <2>2, <2>3 DEF NeighboursStay, Reaches, Changes
<1>8. ASSUME Persist PROVE Undisturbed(states)'
  <2>1. UNCHANGED <<log, jobs, handlers, member, replica, disturbed>>
    BY <1>8 DEF Persist, raftVars, historyVars
  <2>2. Clean
    BY <1>8 DEF Persist, Clean
  <2>. QED BY <1>3, <1>4, <2>1, <2>2 DEF NeighboursStay, Reaches, Changes
<1>9. ASSUME NEW s \in Servers, StepDown(s) \/ EndServer(s)
      PROVE  Undisturbed(states)'
  <2>1. log' = log /\ (disturbed => disturbed')
    BY <1>9 DEF StepDown, EndServer, Disconnect
  <2>2. Clean
    <3>1. CASE StepDown(s)
      BY <3>1 DEF StepDown, Clean
    <3>2. CASE EndServer(s)
      BY <3>2 DEF EndServer, Clean
    <3>. QED BY <1>9, <3>1, <3>2
  <2>. QED BY <1>1, <1>2, <1>9, <2>1, <2>2, LeaderGone
<1>10. ASSUME NEW s \in Servers, CrashServer(s) PROVE Undisturbed(states)'
  BY <1>9, <1>10 DEF CrashServer
<1>11. ASSUME NEW s \in Servers, Apply(s) PROVE Undisturbed(states)'
  <2>1. CASE Panic(s)
    BY <1>9, <2>1 DEF Panic
  <2>2. CASE HasNext(s) /\ ApplyNext(s)
    <3>1. UNCHANGED <<log, disturbed>>
      BY <2>2 DEF ApplyNext, raftVars, historyVars
    <3>2. Clean
      <4>. DEFINE c == log[replica[s].applied + 1]
      <4>1. snapshot' \in SnapshotAfter(s, c)
        BY <2>2 DEF ApplyNext
      <4>. HIDE DEF c
      <4>2. snapshot.pc = "stored" => snapshot' = snapshot
        BY <4>1 DEF SnapshotAfter
      <4>. QED BY <4>2 DEF Clean
    <3>. QED BY <1>1, <1>2, <2>2, <3>1, <3>2, ChangeApplied
  <2>. QED BY <1>11, <2>1, <2>2 DEF Apply
<1>12. ASSUME NEW s \in Servers, GetSubscriptionNode(s) PROVE Undisturbed(states)'
  <2>1. /\ Propose(s, "subscribe", {}, <<>>)
        /\ UNCHANGED <<replica, snapshot, jobs, member>>
    BY <1>12 DEF GetSubscriptionNode
  <2>2. log' = log \/ \E c \in Commands : log' = Append(log, c)
    BY <2>1, ProposedCommands DEF Propose
  <2>3. ~disturbed /\ Clean
    BY <2>1 DEF Propose, Clean
  <2>. QED BY <1>1, <1>2, <2>1, <2>2, <2>3, SubscriptionProposed
<1>13. ASSUME NEW s \in Servers, IsLeader(s), NEW ids, NEW old,
              NEW op \in {"register", "unregister", "update"},
              op = "update" => old = replica[s].chain,
              Command(op, ids) \in Commands,
              Propose(s, op, ids, old), NeighboursStay,
              UNCHANGED <<jobs, replica, snapshot>>
       PROVE  Undisturbed(states)'
  <2>1. log' = log \/ \E c \in Commands : log' = Append(log, c)
    BY <1>13 DEF Propose
  <2>2. ~disturbed /\ Clean
    BY <1>13 DEF Propose, Clean
  <2>. QED BY <1>2, <1>13, <2>1, <2>2, ChangeProposed
<1>14. ASSUME NEW s \in Servers, IdentifyDeadNodes(s) PROVE Undisturbed(states)'
  <2>1. CASE Panic(s)
    BY <1>9, <2>1 DEF Panic
  <2>2. CASE RemoveNodesViaRaft(s)
    <3>1. PICK dead \in SUBSET (ToSet(replica[s].chain) \cap Silent) :
            /\ Propose(s, "update", dead, replica[s].chain)
            /\ UNCHANGED <<replica, snapshot, jobs, member>>
      BY <2>2 DEF RemoveNodesViaRaft
    <3>2. Command("update", dead) \in Commands
      BY ControlPlaneAssumption, ProposedCommands
         DEF ControlPlaneAssumption, Silent
    <3>3. NeighboursStay
      BY <3>1 DEF NeighboursStay, Reaches
    <3>4. IsLeader(s)
      BY <1>14 DEF IdentifyDeadNodes, Monitoring
    <3>. QED BY <1>13, <3>1, <3>2, <3>3, <3>4
  <2>. QED BY <1>14, <2>1, <2>2 DEF IdentifyDeadNodes
<1>15. ASSUME NEW n \in Nodes, StartNode(n) \/ Shutdown(n) \/ CrashNode(n)
                               \/ GiveUp(n)
       PROVE  Undisturbed(states)'
  <2>1. UNCHANGED <<log, jobs, handlers, replica, snapshot, disturbed>>
    BY <1>15 DEF StartNode, Shutdown, CrashNode, GiveUp, Begin, raftVars, historyVars
  <2>2. NeighboursStay
    <3>1. member \in [Nodes -> MemberRecord]
      BY DEF TypeInv
    <3>2. CASE StartNode(n)
      BY <3>1, <3>2 DEF StartNode, Begin, NeighboursStay, Reaches, MemberRecord
    <3>3. CASE Shutdown(n)
      BY <3>1, <3>3 DEF Shutdown, Begin, NeighboursStay, Reaches, MemberRecord
    <3>4. CASE CrashNode(n)
      BY <3>1, <3>4 DEF CrashNode, Begin, NeighboursStay, Reaches, MemberRecord
    <3>5. CASE GiveUp(n)
      BY <3>1, <3>5 DEF GiveUp, NeighboursStay, Reaches, MemberRecord
    <3>. QED BY <1>15, <3>2, <3>3, <3>4, <3>5
  <2>. QED BY <1>5, <2>1, <2>2
<1>16. ASSUME NEW n \in Nodes, TryNextServer(n) PROVE Undisturbed(states)'
  <2>. DEFINE s == Head(member[n].toTry)
              op == IF member[n].pc = "registering" THEN "register"
                    ELSE "unregister"
  <2>1. UNCHANGED <<replica, snapshot, jobs>>
    BY <1>16 DEF TryNextServer
  <2>2. NeighboursStay
    <3>1. member \in [Nodes -> MemberRecord]
      BY DEF TypeInv
    <3>2. PICK b : member' = [member EXCEPT ![n].toTry = Tail(@), ![n].waiting = b]
      BY <1>16 DEF TryNextServer
    <3>. QED BY <3>1, <3>2 DEF NeighboursStay, Reaches, MemberRecord
  <2>3. CASE IsLeader(s)
    <3>1. Propose(s, op, {n}, <<>>)
      BY <1>16, <2>3 DEF TryNextServer
    <3>2. s \in Servers
      <4>1. member[n].toTry \in Seq(Servers) /\ member[n].toTry # <<>>
        BY <1>16 DEF TypeInv, MemberRecord, TryNextServer
      <4>. QED BY <4>1
    <3>3. Command(op, {n}) \in Commands
      BY ProposedCommands
    <3>4. op \in {"register", "unregister", "update"} /\ op # "update"
      OBVIOUS
    <3>. HIDE DEF op, s
    <3>. QED BY <1>13, <2>1, <2>2, <2>3, <3>1, <3>2, <3>3, <3>4
  <2>4. CASE ~IsLeader(s)
    <3>1. UNCHANGED <<log, handlers, disturbed>>
      BY <1>16, <2>4 DEF TryNextServer, raftVars
    <3>. QED BY <1>5, <2>1, <2>2, <3>1
  <2>. QED BY <2>3, <2>4
<1>17. ASSUME NEW h \in handlers,
              \/ LookUpPredecessor(h) \/ AnswerRegistration(h)
              \/ RefuseRegistration(h) \/ AnswerUnregistration(h)
              \/ LookUpSubscriptionNode(h) \/ AnswerSubscription(h)
              \/ ReconnectChain(h)
       PROVE  Undisturbed(states)'
  <2>1. UNCHANGED <<log, snapshot, disturbed, replica>>
    BY <1>17 DEF LookUpPredecessor, AnswerRegistration, RefuseRegistration,
         AnswerUnregistration, LookUpSubscriptionNode, AnswerSubscription,
         ReconnectChain, raftVars, historyVars
  <2>2. ~disturbed /\ Clean /\ Replays(states) /\ Undisturbed(states)
    BY <1>2, <2>1 DEF Clean
  <2>3. CASE LookUpSubscriptionNode(h) \/ AnswerSubscription(h)
    <3>1. UNCHANGED <<jobs, member>> /\ h.op = "subscribe"
      BY <2>3 DEF LookUpSubscriptionNode, AnswerSubscription
    <3>2. [h EXCEPT !.pc = "call"].op = h.op
      BY DEF TypeInv, HandlerTypes, HandlerOK, HandlerRecord
    <3>3. /\ handlers \ {h} \subseteq handlers'
          /\ handlers' \subseteq (handlers \ {h}) \cup {[h EXCEPT !.pc = "call"]}
      BY <2>3 DEF LookUpSubscriptionNode, AnswerSubscription
    <3>4. Changes' = Changes
      BY <3>1, <3>2, <3>3 DEF Changes
    <3>. QED BY <1>3, <1>4, <2>1, <2>2, <3>1, <3>4 DEF NeighboursStay, Reaches
  <2>4. CASE LookUpPredecessor(h)
    BY <2>2, <2>4, PredecessorKnown
  <2>5. CASE AnswerRegistration(h)
    BY <2>2, <2>5, RegistrationAnswered
  <2>6. CASE RefuseRegistration(h)
    BY <2>2, <2>6, RegistrationRefused
  <2>7. CASE AnswerUnregistration(h)
    BY <2>2, <2>7, UnregistrationAnswered
  <2>8. CASE ReconnectChain(h)
    BY <2>2, <2>8, ChainReconnected
  <2>. QED BY <1>17, <2>3, <2>4, <2>5, <2>6, <2>7, <2>8
<1>18. ASSUME NEW j \in jobs, SetPredecessor(j) \/ SetSuccessor(j)
       PROVE  Undisturbed(states)'
  <2>1. UNCHANGED <<log, snapshot, disturbed>>
    BY <1>18 DEF SetPredecessor, SetSuccessor, raftVars, historyVars
  <2>. QED BY <1>2, <1>18, <2>1, NeighboursReconnected DEF Clean
<1>19. ASSUME UNCHANGED vars PROVE Undisturbed(states)'
  BY <1>5, <1>19 DEF vars, raftVars, historyVars, NeighboursStay, Reaches
<1>. QED BY <1>6, <1>7, <1>8, <1>9, <1>10, <1>11, <1>12, <1>14, <1>15, <1>16,
            <1>17, <1>18, <1>19 DEF Next

(* When registrations, removals and reconnections are over and every node  *)
(* of the chain runs, each knows its neighbours in the chain, provided no  *)
(* change of the chain met another one and no server ceased to be leader   *)
(* in the middle of one (RegisterNode, UnregisterNode, reconnectChain,     *)
(* reconnectNeighbors).                                                    *)
THEOREM WiredWhenUndisturbed == Spec => []WiredUnlessDisturbed
<1>1. IInv /\ WiringInv => WiredUnlessDisturbed
  <2>. SUFFICES ASSUME IInv, WiringInv, AtRest, ~disturbed, ~snapshot.overwritten,
                       NEW s \in Servers, replica[s].applied = Len(log),
                       \A n \in ToSet(replica[s].chain) : member[n].pc = "running"
       PROVE  WiredAs(replica[s].chain)
    BY DEF WiredUnlessDisturbed
  <2>1. Clean
    BY DEF Clean
  <2>2. PICK states : Replays(states)
    BY DEF IInv, LogDetermines
  <2>3. Changes = {} /\ jobs = {}
    BY DEF AtRest, Changes
  <2>4. PICK chain : chain = replica[s].chain
    OBVIOUS
  <2>5. replica[s] = states[Len(log)] /\ Len(log) \in LogLengths
    BY <2>1, <2>2, ReplicasAreStates DEF IInv, ShapeInv
  <2>6. /\ LeadsTo(chain) /\ chain \in Seq(Nodes)
    BY <2>1, <2>2, <2>3, <2>4, <2>5, StatesMatched DEF WiringInv, Undisturbed, Matched
  <2>7. ASSUME NEW i \in DOMAIN chain
        PROVE  /\ member[chain[i]].predecessor = Neighbour(chain, i - 1)
               /\ member[chain[i]].successor = Neighbour(chain, i + 1)
    <3>1. i \in 1..Len(chain) /\ (i - 1) + 1 = i /\ i - 1 \in 0..Len(chain)
          /\ i \in 0..Len(chain)
      BY <2>6
    <3>2. /\ chain[i] \in Nodes /\ chain[i] \in ToSet(chain)
          /\ chain[i] = Neighbour(chain, i)
      BY <2>6 DEF ToSet, Neighbour
    <3>3. Reaches(chain[i])
      BY <2>4, <3>2 DEF Reaches
    <3>4. Joined(chain, Neighbour(chain, i - 1), chain[i])
          /\ Joined(chain, chain[i], Neighbour(chain, i + 1))
      BY <3>1, <3>2 DEF Joined
    <3>5. Neighbour(chain, i - 1) \in SomeNode /\ Neighbour(chain, i + 1) \in SomeNode
          /\ chain[i] \in SomeNode
      BY <2>6, <3>2, NeighboursAreNodes DEF SomeNode
    <3>6. WiredPair(Neighbour(chain, i - 1), chain[i])
          /\ WiredPair(chain[i], Neighbour(chain, i + 1))
      BY <2>6, <3>4, <3>5 DEF LeadsTo
    <3>. QED BY <2>3, <3>3, <3>6 DEF WiredPair
  <2>8. ASSUME NEW i \in DOMAIN chain
        PROVE  /\ Neighbour(chain, i - 1) = IF i = 1 THEN Nil ELSE chain[i - 1]
               /\ Neighbour(chain, i + 1) = IF i = Len(chain) THEN Nil
                                            ELSE chain[i + 1]
    BY <2>6 DEF Neighbour
  <2>. QED BY <2>4, <2>7, <2>8 DEF WiredAs
<1>2. Init => RegistrationInv /\ FreshInv /\ WiringInv
  BY RegistrationInvInit, InitFreshInv, InitWiring
<1>3. IInv /\ TypeInv /\ (RegistrationInv /\ FreshInv /\ WiringInv) /\ [Next]_vars
        => (RegistrationInv /\ FreshInv /\ WiringInv)'
  BY NextRegistrationInv, NextFreshInv, NextWiringInv
<1>. QED BY <1>1, <1>2, <1>3, TypeInvariant, PTL DEF Spec
====
