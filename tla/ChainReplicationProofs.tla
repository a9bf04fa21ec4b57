----------------------- MODULE ChainReplicationProofs -----------------------
(***************************************************************************)
(* Proofs about ChainReplication for every length of the chain, every set  *)
(* of writes and every number of RPCs that time out.                       *)
(*                                                                         *)
(* The HEAD's buffer is the reference: it only grows, and everything else  *)
(* in the chain is compared with it.  Facts about two nodes are stated for *)
(* all i < j rather than for neighbours, which spares an induction along   *)
(* the chain.                                                              *)
(***************************************************************************)
EXTENDS ChainReplication, TLAPS

(* Event e is the HEAD's event of that number. *)
FromHead(e) == e.seq < Len(events[1]) /\ events[1][e.seq + 1] = e.write

(* The neighbours never change and no process stops. *)
StaticChain ==
  /\ predecessor = [n \in Nodes |-> n - 1]
  /\ successor = [n \in Nodes |-> IF n = N THEN Nil ELSE n + 1]
  /\ down = {}
  /\ \A n \in Nodes : replicator[n] # "stopped" /\ ackProcessor[n] # "stopped"

(* Events: what a node has, waits for, or is sent, is the HEAD's and has   *)
(* passed the node before it.                                              *)
CountersInv ==
  \A n \in Nodes : /\ nextEventSeq[n] <= Len(events[n])
                   /\ n # 1 => /\ nextEventSeq[n] = Len(events[n])
                               /\ nextEventSeq[n] <= nextEventSeq[n - 1]

BuffersInv ==
  \A n \in Nodes :
    /\ Len(events[n]) <= Len(events[1])
    /\ \A s \in 1..Len(events[n]) : events[n][s] = events[1][s]

QueuesInv ==
  \A n \in Nodes : \A e \in eventQueue[n] :
    FromHead(e) /\ (n # 1 => e.seq < nextEventSeq[n - 1])

OutgoingInv ==
  \A n \in Nodes : \A e \in outgoing[n] : FromHead(e) /\ e.seq < nextEventSeq[n]

LateEventsInv ==
  \A m \in lateEvents :
    m.to # 1 /\ FromHead(m.event) /\ m.event.seq < nextEventSeq[m.to - 1]

EventsInv ==
  CountersInv /\ BuffersInv /\ QueuesInv /\ OutgoingInv /\ LateEventsInv

Processing(n) == ackProcessor[n] \in {"confirm", "apply", "send"}

(* ACKs: how far a node's ACK processor is with the number it has taken,   *)
ProgressInv ==
  \A n \in Nodes :
    /\ Processing(n) => nextAckSeq[n] > 0
    /\ lastConfirmed[n] = IF ackProcessor[n] = "confirm"
                          THEN nextAckSeq[n] - 2 ELSE nextAckSeq[n] - 1
    /\ Len(applied[n]) = IF ackProcessor[n] \in {"confirm", "apply"}
                         THEN nextAckSeq[n] - 1 ELSE nextAckSeq[n]
    /\ nextAckSeq[n] <= nextEventSeq[n]

StorageInv ==
  \A n \in Nodes : \A s \in 1..Len(applied[n]) : applied[n][s] = events[1][s]

(* ... and a number that reached a node has been applied by all behind it. *)
AckOrderInv ==
  \A i, j \in Nodes : i < j =>
    /\ nextAckSeq[i] <= Len(applied[j])
    /\ \A s \in ackQueue[i] : s < Len(applied[j])
    /\ \A m \in lateAcks : m.to = i => m.seq < Len(applied[j])

TailAckInv ==
  /\ \A s \in ackQueue[N] : s < nextEventSeq[N]
  /\ \A m \in lateAcks : m.to # N

AcksInv == ProgressInv /\ StorageInv /\ AckOrderInv /\ TailAckInv

(* Handlers: each stands for one event of the HEAD, and what it is given   *)
(* is the result of applying that event.                                   *)
HandlersInv ==
  /\ \A s \in 1..Len(events[1]) : handler[events[1][s]].pc # "idle"
  /\ \A w \in Writes : handler[w].pc # "idle" =>
        /\ handler[w].node = 1
        /\ handler[w].seq < Len(events[1])
        /\ events[1][handler[w].seq + 1] = w
  /\ \A w \in Writes : channel[w] # {} =>
        /\ handler[w].pc # "idle"
        /\ channel[w] = {w}
        /\ handler[w].seq < Len(applied[1])
  /\ \A w \in Writes : handler[w].pc = "answered" =>
        handler[w].seq < Len(applied[1])

IInv == TypeOK /\ StaticChain /\ EventsInv /\ AcksInv /\ HandlersInv

-----------------------------------------------------------------------------
(* The types, node by node. *)
LEMMA NodeTypes ==
  ASSUME TypeOK, NEW k \in Nodes
  PROVE  /\ events[k] \in Seq(Writes) /\ Len(events[k]) \in Nat
         /\ nextEventSeq[k] \in Nat
         /\ nextAckSeq[k] \in Nat /\ ackQueue[k] \subseteq Nat
         /\ applied[k] \in Seq(Writes) /\ Len(applied[k]) \in Nat
<1>1. events[k] \in Seq(Writes) /\ nextEventSeq[k] \in Nat
  BY DEF TypeOK, EventTypes
<1>2. applied[k] \in Seq(Writes) /\ nextAckSeq[k] \in Nat /\ ackQueue[k] \subseteq Nat
  BY DEF TypeOK, AckTypes
<1>. QED BY <1>1, <1>2

(* What each part of the invariant depends on. *)
LEMMA EventsFrame ==
  ASSUME EventsInv,
         UNCHANGED <<events, nextEventSeq, eventQueue, outgoing, lateEvents>>
  PROVE  EventsInv'
BY DEF EventsInv, CountersInv, BuffersInv, QueuesInv, OutgoingInv,
       LateEventsInv, FromHead

LEMMA AcksFrame ==
  ASSUME AcksInv, events'[1] = events[1], UNCHANGED <<nextEventSeq, ackVars>>
  PROVE  AcksInv'
BY DEF AcksInv, ackVars, Processing, ProgressInv, StorageInv, AckOrderInv,
       TailAckInv

LEMMA HandlersFrame ==
  ASSUME HandlersInv, events'[1] = events[1], applied'[1] = applied[1],
         UNCHANGED clientVars
  PROVE  HandlersInv'
BY DEF HandlersInv, clientVars

LEMMA TakeNextEventStep ==
  ASSUME IInv, NEW n \in Nodes, TakeNextEvent(n)
  PROVE  IInv' /\ events'[1] = events[1]
<1> USE ChainAssumption DEF Nodes, Nil
<1>. PICK e \in NextEvents(n) :
       /\ eventQueue' = [eventQueue EXCEPT ![n] = @ \ {e}]
       /\ nextEventSeq' = [nextEventSeq EXCEPT ![n] = @ + 1]
       /\ outgoing' = [outgoing EXCEPT ![n] = {e}]
       /\ replicator' = [replicator EXCEPT ![n] = "send"]
       /\ events' = IF e.seq = Len(events[n])
                    THEN [events EXCEPT ![n] = Append(@, e.write)]
                    ELSE events
       /\ down' = IF e.seq > Len(events[n]) THEN down \cup {n} ELSE down
  BY DEF TakeNextEvent
<1>1. /\ e \in eventQueue[n] /\ e.seq = nextEventSeq[n] /\ FromHead(e)
      /\ n # 1 => e.seq < nextEventSeq[n - 1]
      /\ e.write \in Writes /\ e \in Event /\ e.seq \in Nat
  BY DEF NextEvents, IInv, TypeOK, EventTypes, EventsInv, QueuesInv, Event
<1>2. /\ e.seq <= Len(events[n])
      /\ n = 1 => e.seq < Len(events[n])
      /\ n # 1 => e.seq = Len(events[n])
      /\ Len(events[n]) \in Nat
  BY <1>1 DEF IInv, EventsInv, CountersInv, FromHead, TypeOK, EventTypes
<1>3. /\ down' = down
      /\ UNCHANGED <<predecessor, successor, ackVars, clientVars, lateEvents, faults>>
  BY <1>1, <1>2 DEF TakeNextEvent, neighbours, IInv, TypeOK
<1>4. events'[1] = events[1]
  BY <1>2 DEF IInv, TypeOK, EventTypes
<1>5. TypeOK'
  <2>1. EventTypes'
    <3>1. events' \in [Nodes -> Seq(Writes)]
      BY <1>1, <1>2 DEF IInv, TypeOK, EventTypes
    <3>2. nextEventSeq' \in [Nodes -> Nat]
      BY DEF IInv, TypeOK, EventTypes
    <3>3. eventQueue' \in [Nodes -> SUBSET Event] /\ outgoing' \in [Nodes -> SUBSET Event]
      BY <1>1 DEF IInv, TypeOK, EventTypes
    <3>4. replicator' \in [Nodes -> ReplicatorStates]
      BY DEF IInv, TypeOK, EventTypes, ReplicatorStates
    <3>. QED BY <1>3, <3>1, <3>2, <3>3, <3>4 DEF EventTypes, IInv, TypeOK
  <2>2. AckTypes' /\ ClientTypes'
    BY <1>3 DEF IInv, TypeOK, AckTypes, ClientTypes, ackVars, clientVars
  <2>. QED BY <1>3, <2>1, <2>2 DEF IInv, TypeOK
<1>6. StaticChain'
  BY <1>3 DEF IInv, StaticChain, TypeOK, EventTypes, ackVars
<1>a. \A k \in Nodes :
        /\ nextEventSeq[k] \in Nat /\ nextEventSeq'[k] \in Nat
        /\ nextEventSeq'[k] = IF k = n THEN nextEventSeq[k] + 1 ELSE nextEventSeq[k]
  BY DEF IInv, TypeOK, EventTypes
<1>b. \A k \in Nodes : k # n => events'[k] = events[k]
  BY DEF IInv, TypeOK, EventTypes
<1>c. n # 1 => events'[n] = Append(events[n], e.write)
  BY <1>2 DEF IInv, TypeOK, EventTypes
<1>d. n = 1 => events' = events
  BY <1>2 DEF IInv, TypeOK, EventTypes
<1>e. \A k \in Nodes : events[k] \in Seq(Writes) /\ Len(events[k]) \in Nat
  BY DEF IInv, TypeOK, EventTypes
<1>7. EventsInv'
  <2>1. CountersInv'
    <3> SUFFICES ASSUME NEW k \in Nodes
                 PROVE  /\ nextEventSeq'[k] <= Len(events'[k])
                        /\ k # 1 => /\ nextEventSeq'[k] = Len(events'[k])
                                    /\ nextEventSeq'[k] <= nextEventSeq'[k - 1]
      BY DEF CountersInv
    <3>1. CASE k = n
      BY <3>1, <1>1, <1>2, <1>a, <1>b, <1>c, <1>d, <1>e DEF IInv, EventsInv, CountersInv
    <3>2. CASE k # n
      BY <3>2, <1>1, <1>2, <1>a, <1>b DEF IInv, EventsInv, CountersInv
    <3>. QED BY <3>1, <3>2
  <2>2. BuffersInv'
    <3> SUFFICES ASSUME NEW k \in Nodes
                 PROVE  /\ Len(events'[k]) <= Len(events'[1])
                        /\ \A s \in 1..Len(events'[k]) : events'[k][s] = events'[1][s]
      BY DEF BuffersInv
    <3>1. CASE k = n /\ n # 1
      BY <3>1, <1>1, <1>2, <1>4, <1>c, <1>e DEF IInv, EventsInv, BuffersInv, FromHead
    <3>2. CASE k # n \/ n = 1
      BY <3>2, <1>4, <1>b, <1>d DEF IInv, EventsInv, BuffersInv
    <3>. QED BY <3>1, <3>2
  <2>3. QueuesInv'
    <3>1. \A k \in Nodes : eventQueue'[k] \subseteq eventQueue[k] /\ eventQueue[k] \subseteq Event
      BY DEF IInv, TypeOK, EventTypes
    <3>. QED BY <3>1, <1>4, <1>a DEF IInv, EventsInv, QueuesInv, FromHead, Event
  <2>4. OutgoingInv'
    BY <1>1, <1>4, SMTT(30) DEF IInv, EventsInv, OutgoingInv, TypeOK, EventTypes, FromHead
  <2>5. LateEventsInv'
    <3>1. \A m \in lateEvents : m.to \in Nodes /\ m.event \in Event
      BY DEF IInv, TypeOK, EventTypes
    <3>. QED BY <3>1, <1>3, <1>4, <1>a DEF IInv, EventsInv, LateEventsInv, FromHead, Event
  <2>. QED BY <2>1, <2>2, <2>3, <2>4, <2>5 DEF EventsInv
<1>8. AcksInv'
  <2>1. ProgressInv'
    BY <1>3, <1>a DEF IInv, AcksInv, TypeOK, AckTypes, ackVars, Processing, ProgressInv
  <2>2. UNCHANGED <<applied, nextAckSeq, ackQueue, lateAcks>>
    BY <1>3 DEF ackVars
  <2>3. StorageInv'
    BY <2>2, <1>4 DEF IInv, AcksInv, StorageInv
  <2>4. AckOrderInv'
    BY <2>2 DEF IInv, AcksInv, AckOrderInv
  <2>5. TailAckInv'
    BY <1>3, <1>a DEF IInv, AcksInv, TypeOK, AckTypes, ackVars, TailAckInv
  <2>. QED BY <2>1, <2>3, <2>4, <2>5 DEF AcksInv
<1>9. HandlersInv'
  BY <1>3, <1>4, HandlersFrame DEF IInv, ackVars
<1>. QED BY <1>4, <1>5, <1>6, <1>7, <1>8, <1>9 DEF IInv

(* Queueing an event of the HEAD that has passed m's predecessor. *)
LEMMA BufferEventKeeps ==
  ASSUME IInv, NEW m \in Nodes, NEW e \in Event, FromHead(e),
         m # 1 => e.seq < nextEventSeq[m - 1],
         NEW states \in [Nodes -> ReplicatorStates],
         \A k \in Nodes : states[k] # "stopped",
         BufferEvent(m, e, states),
         UNCHANGED <<events, nextEventSeq>>,
         outgoing' \in [Nodes -> SUBSET Event],
         \A k \in Nodes : outgoing'[k] \subseteq outgoing[k],
         lateEvents' \subseteq lateEvents
  PROVE  EventTypes' /\ EventsInv' /\ \A k \in Nodes : replicator'[k] # "stopped"
<1>1. /\ eventQueue' \in [Nodes -> SUBSET Event]
      /\ \A k \in Nodes : eventQueue'[k] \subseteq eventQueue[k] \cup (IF k = m THEN {e} ELSE {})
  <2>1. eventQueue \in [Nodes -> SUBSET Event]
    BY DEF IInv, TypeOK, EventTypes
  <2>2. CASE eventQueue' = eventQueue
    BY <2>1, <2>2
  <2>3. CASE eventQueue' = [eventQueue EXCEPT ![m] = {f \in @ : f.seq # e.seq} \cup {e}]
    BY <2>1, <2>3
  <2>. QED BY <2>2, <2>3 DEF BufferEvent
<1>2. /\ replicator' \in [Nodes -> ReplicatorStates]
      /\ \A k \in Nodes : replicator'[k] # "stopped"
  BY DEF BufferEvent, Woken, ReplicatorStates
<1>3. EventTypes'
  BY <1>1, <1>2 DEF IInv, TypeOK, EventTypes
<1>4. QueuesInv'
  BY <1>1 DEF IInv, EventsInv, QueuesInv, FromHead
<1>5. CountersInv' /\ BuffersInv' /\ OutgoingInv' /\ LateEventsInv'
  BY DEF IInv, EventsInv, CountersInv, BuffersInv, OutgoingInv, LateEventsInv, FromHead
<1>. QED BY <1>2, <1>3, <1>4, <1>5 DEF EventsInv

(* Queueing an ACK that m can confirm and that all behind it have applied. *)
LEMMA BufferAckKeeps ==
  ASSUME IInv, NEW m \in Nodes, NEW seq \in Nat, seq < nextEventSeq[m],
         \A j \in Nodes : m < j => seq < Len(applied[j]),
         NEW states \in [Nodes -> AckProcessorStates],
         \A k \in Nodes : \/ states[k] = ackProcessor[k]
                          \/ ackProcessor[k] = "send" /\ states[k] = "scan",
         BufferAck(m, seq, states),
         UNCHANGED <<events, nextEventSeq, lastConfirmed, nextAckSeq, applied>>,
         lateAcks' \subseteq lateAcks
  PROVE  /\ AckTypes' /\ AcksInv' /\ down' = down
         /\ \A k \in Nodes : ackProcessor'[k] # "stopped"
<1> USE ChainAssumption DEF Nodes
<1>1. seq < Len(events[m])
  BY DEF IInv, EventsInv, CountersInv, TypeOK, EventTypes
<1>2. /\ down' = down
      /\ ackQueue' \in [Nodes -> SUBSET Nat]
      /\ \A k \in Nodes : ackQueue'[k] \subseteq ackQueue[k] \cup (IF k = m THEN {seq} ELSE {})
  <2>1. ackQueue \in [Nodes -> SUBSET Nat]
    BY DEF IInv, TypeOK, AckTypes
  <2>2. CASE ackQueue' = ackQueue /\ down' = down
    BY <2>1, <2>2
  <2>3. CASE ackQueue' = [ackQueue EXCEPT ![m] = @ \cup {seq}] /\ down' = down
    BY <2>1, <2>3
  <2>4. ~(seq >= Len(events[m]))
    BY <1>1 DEF IInv, TypeOK, EventTypes
  <2>. QED BY <2>2, <2>3, <2>4 DEF BufferAck
<1>3. /\ ackProcessor' \in [Nodes -> AckProcessorStates]
      /\ \A k \in Nodes : \/ ackProcessor'[k] = ackProcessor[k]
                          \/ /\ ackProcessor'[k] = "scan"
                             /\ ackProcessor[k] \in {"send", "wait"}
  BY <1>1 DEF BufferAck, Woken, AckProcessorStates, IInv, TypeOK, EventTypes
<1>4. AckTypes'
  BY <1>2, <1>3 DEF IInv, TypeOK, AckTypes
<1>5. ProgressInv'
  BY <1>3 DEF IInv, AcksInv, ProgressInv, Processing
<1>6. StorageInv' /\ AckOrderInv'
  BY <1>2 DEF IInv, AcksInv, StorageInv, AckOrderInv
<1>7. TailAckInv'
  BY <1>2 DEF IInv, AcksInv, TailAckInv
<1>. QED BY <1>2, <1>3, <1>4, <1>5, <1>6, <1>7 DEF AcksInv, IInv, StaticChain

-----------------------------------------------------------------------------
LEMMA InitIInv == Init => IInv
<1> SUFFICES ASSUME Init PROVE IInv
  OBVIOUS
<1> USE ChainAssumption DEF Nodes, Nil
<1>1. TypeOK
  BY DEF Init, EmptyNodes, NoRequests, TypeOK, EventTypes, AckTypes, ClientTypes,
         ReplicatorStates, AckProcessorStates, HandlerStates
<1>2. StaticChain
  BY DEF Init, EmptyNodes, NoRequests, StaticChain
<1>3. EventsInv
  BY DEF Init, EmptyNodes, NoRequests, EventsInv, CountersInv, BuffersInv,
         QueuesInv, OutgoingInv, LateEventsInv
<1>4. AcksInv
  BY DEF Init, EmptyNodes, NoRequests, AcksInv, ProgressInv, StorageInv,
         AckOrderInv, TailAckInv, Processing
<1>5. HandlersInv
  BY DEF Init, EmptyNodes, NoRequests, HandlersInv
<1>. QED BY <1>1, <1>2, <1>3, <1>4, <1>5 DEF IInv

LEMMA HandleWriteStep ==
  ASSUME IInv, NEW n \in Nodes, NEW w \in Writes, HandleWrite(n, w)
  PROVE  IInv'
<1> USE ChainAssumption DEF Nodes, Nil
<1>1. n = 1
  BY DEF HandleWrite, IsHead, IInv, StaticChain
<1>2. /\ events' = [events EXCEPT ![1] = Append(@, w)]
      /\ handler' = [handler EXCEPT
           ![w] = [pc |-> "created", node |-> 1, seq |-> Len(events[1])]]
      /\ handler[w].pc = "idle"
      /\ UNCHANGED <<predecessor, successor, channel, faults, down>>
      /\ UNCHANGED <<nextEventSeq, eventQueue, replicator, outgoing, lateEvents>>
      /\ UNCHANGED <<lastConfirmed, nextAckSeq, ackQueue, ackProcessor, applied,
                     lateAcks>>
  BY <1>1 DEF HandleWrite, neighbours, eventVars, ackVars
<1>3. /\ events[1] \in Seq(Writes) /\ events'[1] = Append(events[1], w)
      /\ \A k \in Nodes : k # 1 => events'[k] = events[k]
      /\ \A k \in Nodes : events[k] \in Seq(Writes)
  BY <1>2 DEF IInv, TypeOK, EventTypes
<1>4. /\ Len(events'[1]) = Len(events[1]) + 1
      /\ \A s \in 1..Len(events[1]) : events'[1][s] = events[1][s]
      /\ events'[1][Len(events[1]) + 1] = w
  BY <1>3
<1>5. \A e \in Event : FromHead(e) => FromHead(e)'
  BY <1>3, <1>4 DEF FromHead, Event
<1>6. TypeOK'
  <2>1. EventTypes' /\ AckTypes'
    <3>1. events' \in [Nodes -> Seq(Writes)]
      BY <1>2, <1>3 DEF IInv, TypeOK, EventTypes
    <3>. QED BY <1>2, <3>1 DEF IInv, TypeOK, EventTypes, AckTypes
  <2>2. ClientTypes'
    BY <1>2, <1>3 DEF IInv, TypeOK, ClientTypes, HandlerStates
  <2>. QED BY <1>2, <2>1, <2>2 DEF IInv, TypeOK
<1>7. StaticChain'
  BY <1>2 DEF IInv, StaticChain
<1>8. EventsInv'
  <2>1. CountersInv' /\ BuffersInv'
    <3>1. \A k \in Nodes : Len(events[k]) \in Nat /\ nextEventSeq[k] \in Nat
      BY DEF IInv, TypeOK, EventTypes
    <3>2. 1 \in Nodes
      OBVIOUS
    <3>3. CountersInv'
      <4> SUFFICES ASSUME NEW k \in Nodes
                   PROVE  /\ nextEventSeq[k] <= Len(events'[k])
                          /\ k # 1 => /\ nextEventSeq[k] = Len(events'[k])
                                      /\ nextEventSeq[k] <= nextEventSeq[k - 1]
        BY <1>2 DEF CountersInv
      <4>1. nextEventSeq[k] <= Len(events[k])
            /\ (k # 1 => /\ nextEventSeq[k] = Len(events[k])
                         /\ nextEventSeq[k] <= nextEventSeq[k - 1])
        BY DEF IInv, EventsInv, CountersInv
      <4>2. CASE k = 1
        BY <4>1, <4>2, <1>4, <3>1, <3>2
      <4>3. CASE k # 1
        BY <4>1, <4>3, <1>3
      <4>. QED BY <4>2, <4>3
    <3>4. BuffersInv'
      <4> SUFFICES ASSUME NEW k \in Nodes
                   PROVE  /\ Len(events'[k]) <= Len(events'[1])
                          /\ \A s \in 1..Len(events'[k]) : events'[k][s] = events'[1][s]
        BY DEF BuffersInv
      <4>1. /\ Len(events[k]) <= Len(events[1])
            /\ \A s \in 1..Len(events[k]) : events[k][s] = events[1][s]
        BY DEF IInv, EventsInv, BuffersInv
      <4>2. CASE k # 1
        <5>1. events'[k] = events[k] /\ Len(events[k]) \in Nat /\ Len(events[1]) \in Nat
          BY <4>2, <1>3, <3>1, <3>2
        <5>2. \A s \in 1..Len(events[k]) : s \in 1..Len(events[1])
          BY <4>1, <5>1
        <5>. QED BY <4>1, <5>1, <5>2, <1>4
      <4>. QED BY <4>2, <1>4, <3>1, <3>2
    <3>. QED BY <3>3, <3>4
  <2>2. QueuesInv' /\ OutgoingInv'
    BY <1>2, <1>5 DEF IInv, EventsInv, QueuesInv, OutgoingInv, TypeOK, EventTypes
  <2>3. LateEventsInv'
    BY <1>2, <1>5 DEF IInv, EventsInv, LateEventsInv, TypeOK, EventTypes
  <2>. QED BY <2>1, <2>2, <2>3 DEF EventsInv
<1>9. AcksInv'
  <2>1. \A k \in Nodes : \A s \in 1..Len(applied[k]) : s \in 1..Len(events[1])
    <3> SUFFICES ASSUME NEW k \in Nodes
                 PROVE  Len(applied[k]) <= Len(events[1])
      BY <1>3 DEF IInv, TypeOK, AckTypes
    <3>1. /\ Len(applied[k]) \in Nat /\ nextAckSeq[k] \in Nat /\ nextEventSeq[k] \in Nat
          /\ Len(events[k]) \in Nat /\ Len(events[1]) \in Nat
      BY <1>3, NodeTypes DEF IInv
    <3>2. Len(applied[k]) <= nextAckSeq[k] /\ nextAckSeq[k] <= nextEventSeq[k]
      BY <3>1 DEF IInv, AcksInv, ProgressInv
    <3>3. nextEventSeq[k] <= Len(events[k]) /\ Len(events[k]) <= Len(events[1])
      BY DEF IInv, EventsInv, CountersInv, BuffersInv
    <3>. QED BY <3>1, <3>2, <3>3
  <2>2. StorageInv'
    BY <2>1, <1>2, <1>4 DEF IInv, AcksInv, StorageInv
  <2>3. ProgressInv' /\ AckOrderInv' /\ TailAckInv'
    BY <1>2 DEF IInv, AcksInv, ProgressInv, AckOrderInv, TailAckInv, Processing
  <2>. QED BY <2>2, <2>3 DEF AcksInv
<1>10. HandlersInv'
  <2>1. \A v \in Writes : handler'[v] = IF v = w
          THEN [pc |-> "created", node |-> 1, seq |-> Len(events[1])] ELSE handler[v]
    BY <1>2 DEF IInv, TypeOK, ClientTypes
  <2>2. \A v \in Writes : handler[v].seq \in Nat
    BY DEF IInv, TypeOK, ClientTypes
  <2>3. \A s \in 1..Len(events'[1]) : handler'[events'[1][s]].pc # "idle"
    BY <1>3, <1>4, <2>1 DEF IInv, HandlersInv
  <2>4. \A v \in Writes : handler'[v].pc # "idle" =>
          /\ handler'[v].node = 1
          /\ handler'[v].seq < Len(events'[1])
          /\ events'[1][handler'[v].seq + 1] = v
    <3>1. Len(events[1]) \in Nat
      BY <1>3
    <3>2. \A v \in Writes \ {w} : handler[v].pc # "idle" =>
            handler[v].seq + 1 \in 1..Len(events[1])
      BY <2>2, <3>1 DEF IInv, HandlersInv
    <3> SUFFICES ASSUME NEW v \in Writes, handler'[v].pc # "idle"
                 PROVE  /\ handler'[v].node = 1
                        /\ handler'[v].seq < Len(events'[1])
                        /\ events'[1][handler'[v].seq + 1] = v
      OBVIOUS
    <3>3. CASE v = w
      BY <3>3, <2>1, <1>4, <3>1
    <3>4. CASE v # w
      <4>1. handler'[v] = handler[v]
        BY <3>4, <2>1
      <4>2. /\ handler[v].node = 1
            /\ handler[v].seq < Len(events[1])
            /\ events[1][handler[v].seq + 1] = v
        BY <4>1 DEF IInv, HandlersInv
      <4>3. handler[v].seq + 1 \in 1..Len(events[1])
        BY <3>2, <3>4, <4>1
      <4>. QED BY <4>1, <4>2, <4>3, <1>4, <2>2, <3>1
    <3>. QED BY <3>3, <3>4
  <2>5. \A v \in Writes : channel'[v] # {} =>
          /\ handler'[v].pc # "idle"
          /\ channel'[v] = {v}
          /\ handler'[v].seq < Len(applied'[1])
    BY <1>2, <2>1 DEF IInv, HandlersInv
  <2>6. \A v \in Writes : handler'[v].pc = "answered" => handler'[v].seq < Len(applied'[1])
    BY <1>2, <2>1 DEF IInv, HandlersInv
  <2>. QED BY <2>3, <2>4, <2>5, <2>6 DEF HandlersInv
<1>. QED BY <1>6, <1>7, <1>8, <1>9, <1>10 DEF IInv

(* Steps that only move a handler or a goroutine to its next wait. *)
LEMMA OpenAckChannelStep ==
  ASSUME IInv, NEW w \in Writes, OpenAckChannel(w)
  PROVE  IInv'
<1>1. /\ handler' = [handler EXCEPT ![w].pc = "open"]
      /\ handler[w].pc = "created"
      /\ UNCHANGED <<predecessor, successor, events, channel, faults, down>>
      /\ UNCHANGED <<nextEventSeq, eventQueue, replicator, outgoing, lateEvents>>
      /\ UNCHANGED ackVars
      /\ UNCHANGED <<lastConfirmed, nextAckSeq, ackQueue, ackProcessor, applied,
                     lateAcks>>
  BY DEF OpenAckChannel, neighbours, eventVars, ackVars
<1>2. TypeOK'
  <2>1. ClientTypes'
    BY <1>1 DEF IInv, TypeOK, ClientTypes, HandlerStates
  <2>2. EventTypes' /\ AckTypes'
    BY <1>1 DEF IInv, TypeOK, EventTypes, AckTypes
  <2>. QED BY <1>1, <2>1, <2>2 DEF IInv, TypeOK
<1>3. StaticChain' /\ EventsInv' /\ AcksInv'
  BY <1>1, EventsFrame, AcksFrame DEF IInv, StaticChain
<1>4. HandlersInv'
  <2>1. \A v \in Writes : /\ handler'[v].node = handler[v].node
                          /\ handler'[v].seq = handler[v].seq
                          /\ handler'[v].pc = IF v = w THEN "open" ELSE handler[v].pc
    BY <1>1 DEF IInv, TypeOK, ClientTypes
  <2>2. \A s \in 1..Len(events[1]) : events[1][s] \in Writes
    BY ChainAssumption DEF IInv, TypeOK, EventTypes, Nodes
  <2>. QED BY <1>1, <2>1, <2>2 DEF IInv, HandlersInv
<1>. QED BY <1>2, <1>3, <1>4 DEF IInv

LEMMA ReceiveResultStep ==
  ASSUME IInv, NEW w \in Writes, ReceiveResult(w)
  PROVE  IInv'
<1>1. /\ handler' = [handler EXCEPT ![w].pc = "answered"]
      /\ handler[w].pc = "waiting" /\ channel[w] # {}
      /\ UNCHANGED <<predecessor, successor, events, channel, faults, down>>
      /\ UNCHANGED <<nextEventSeq, eventQueue, replicator, outgoing, lateEvents>>
      /\ UNCHANGED ackVars
      /\ UNCHANGED <<lastConfirmed, nextAckSeq, ackQueue, ackProcessor, applied,
                     lateAcks>>
  BY DEF ReceiveResult, neighbours, eventVars, ackVars
<1>2. TypeOK'
  <2>1. ClientTypes'
    BY <1>1 DEF IInv, TypeOK, ClientTypes, HandlerStates
  <2>2. EventTypes' /\ AckTypes'
    BY <1>1 DEF IInv, TypeOK, EventTypes, AckTypes
  <2>. QED BY <1>1, <2>1, <2>2 DEF IInv, TypeOK
<1>3. StaticChain' /\ EventsInv' /\ AcksInv'
  BY <1>1, EventsFrame, AcksFrame DEF IInv, StaticChain
<1>4. HandlersInv'
  <2>1. \A v \in Writes : /\ handler'[v].node = handler[v].node
                          /\ handler'[v].seq = handler[v].seq
                          /\ handler'[v].pc = IF v = w THEN "answered" ELSE handler[v].pc
    BY <1>1 DEF IInv, TypeOK, ClientTypes
  <2>2. \A s \in 1..Len(events[1]) : events[1][s] \in Writes
    BY ChainAssumption DEF IInv, TypeOK, EventTypes, Nodes
  <2>. QED BY <1>1, <2>1, <2>2 DEF IInv, HandlersInv
<1>. QED BY <1>2, <1>3, <1>4 DEF IInv

LEMMA BufferOwnEventStep ==
  ASSUME IInv, NEW w \in Writes, BufferOwnEvent(w)
  PROVE  IInv'
<1> USE ChainAssumption DEF Nodes
<1> DEFINE e == [seq |-> handler[w].seq, write |-> w]
<1>1. /\ handler' = [handler EXCEPT ![w].pc = "waiting"]
      /\ handler[w].pc = "open"
      /\ BufferEvent(handler[w].node, e, replicator)
      /\ UNCHANGED <<predecessor, successor, events, channel, faults, down>>
      /\ UNCHANGED <<nextEventSeq, outgoing, lateEvents>>
      /\ UNCHANGED ackVars
      /\ UNCHANGED <<lastConfirmed, nextAckSeq, ackQueue, ackProcessor, applied,
                     lateAcks>>
  BY DEF BufferOwnEvent, neighbours, ackVars
<1>2. /\ handler[w].node = 1 /\ handler[w].seq \in Nat
      /\ handler[w].seq < Len(events[1])
      /\ events[1][handler[w].seq + 1] = w
  BY <1>1 DEF IInv, HandlersInv, TypeOK, ClientTypes
<1>3. e \in Event /\ FromHead(e)
  BY <1>2 DEF Event, FromHead
<1>4. EventTypes' /\ EventsInv' /\ \A k \in Nodes : replicator'[k] # "stopped"
  <2>1. /\ replicator \in [Nodes -> ReplicatorStates]
        /\ outgoing' \in [Nodes -> SUBSET Event]
        /\ \A k \in Nodes : outgoing'[k] \subseteq outgoing[k]
        /\ lateEvents' \subseteq lateEvents
        /\ \A k \in Nodes : replicator[k] # "stopped"
    BY <1>1 DEF IInv, TypeOK, EventTypes, StaticChain
  <2>2. BufferEvent(1, e, replicator) /\ 1 \in Nodes
    BY <1>1, <1>2
  <2>. HIDE DEF e, Nodes
  <2>. QED BY <1>1, <1>3, <2>1, <2>2, BufferEventKeeps
<1>5. TypeOK'
  BY <1>1, <1>4 DEF IInv, TypeOK, AckTypes, ClientTypes, HandlerStates
<1>6. StaticChain' /\ AcksInv'
  BY <1>1, <1>4, AcksFrame DEF IInv, StaticChain
<1>7. HandlersInv'
  <2>1. \A v \in Writes : /\ handler'[v].node = handler[v].node
                          /\ handler'[v].seq = handler[v].seq
                          /\ handler'[v].pc = IF v = w THEN "waiting" ELSE handler[v].pc
    BY <1>1 DEF IInv, TypeOK, ClientTypes
  <2>2. \A s \in 1..Len(events[1]) : events[1][s] \in Writes
    BY DEF IInv, TypeOK, EventTypes
  <2>. QED BY <1>1, <2>1, <2>2 DEF IInv, HandlersInv
<1>. QED BY <1>4, <1>5, <1>6, <1>7 DEF IInv

LEMMA IdleReplicatorStep ==
  ASSUME IInv, NEW n \in Nodes, FindNoEvent(n) \/ BlockReplicator(n)
  PROVE  IInv'
<1>1. /\ \/ replicator' = [replicator EXCEPT ![n] = "park"]
         \/ replicator' = [replicator EXCEPT ![n] = "wait"]
      /\ UNCHANGED <<predecessor, successor, events, faults, down, ackVars, clientVars>>
      /\ UNCHANGED <<nextEventSeq, eventQueue, outgoing, lateEvents>>
      /\ UNCHANGED <<lastConfirmed, nextAckSeq, ackQueue, ackProcessor, applied,
                     lateAcks, handler, channel>>
  BY DEF FindNoEvent, BlockReplicator, neighbours, ackVars, clientVars
<1>2. TypeOK'
  BY <1>1 DEF IInv, TypeOK, EventTypes, AckTypes, ClientTypes, ReplicatorStates
<1>3. StaticChain'
  BY <1>1 DEF IInv, StaticChain, TypeOK, EventTypes
<1>4. EventsInv' /\ AcksInv' /\ HandlersInv'
  BY <1>1, EventsFrame, AcksFrame, HandlersFrame DEF IInv
<1>. QED BY <1>2, <1>3, <1>4 DEF IInv

LEMMA ReplicateAtTailStep ==
  ASSUME IInv, NEW n \in Nodes, ReplicateAtTail(n)
  PROVE  IInv'
<1> USE ChainAssumption DEF Nodes
<1>1. n = N
  BY DEF ReplicateAtTail, IsTail, Nil, IInv, StaticChain
<1>. PICK e \in outgoing[n] : BufferAck(n, e.seq, ackProcessor)
  BY DEF ReplicateAtTail
<1>2. /\ outgoing' = [outgoing EXCEPT ![n] = {}]
      /\ replicator' = [replicator EXCEPT ![n] = "scan"]
      /\ UNCHANGED <<predecessor, successor, events, nextEventSeq, eventQueue,
                     lateEvents, lastConfirmed, nextAckSeq, applied, lateAcks,
                     clientVars, handler, channel, faults>>
  BY DEF ReplicateAtTail, neighbours, clientVars
<1>3. e.seq \in Nat /\ e.seq < nextEventSeq[n] /\ \A j \in Nodes : ~(n < j)
  BY <1>1 DEF IInv, TypeOK, EventTypes, EventsInv, OutgoingInv, Event
<1>4. /\ AckTypes' /\ AcksInv' /\ down' = down
      /\ \A k \in Nodes : ackProcessor'[k] # "stopped"
  <2>1. ackProcessor \in [Nodes -> AckProcessorStates] /\ lateAcks' \subseteq lateAcks
    BY <1>2 DEF IInv, TypeOK, AckTypes
  <2>. HIDE DEF Nodes
  <2>. QED BY <1>2, <1>3, <2>1, BufferAckKeeps
<1>5. TypeOK'
  BY <1>2, <1>4 DEF IInv, TypeOK, EventTypes, ClientTypes, ReplicatorStates
<1>6. StaticChain'
  BY <1>2, <1>4 DEF IInv, StaticChain, TypeOK, EventTypes
<1>7. EventsInv'
  <2>1. OutgoingInv'
    BY <1>2 DEF IInv, EventsInv, OutgoingInv, TypeOK, EventTypes, FromHead
  <2>. QED BY <2>1, <1>2 DEF IInv, EventsInv, CountersInv, BuffersInv, QueuesInv,
                             LateEventsInv, FromHead
<1>8. HandlersInv'
  BY <1>2, HandlersFrame DEF IInv
<1>. QED BY <1>4, <1>5, <1>6, <1>7, <1>8 DEF IInv

LEMMA ReplicateToSuccessorStep ==
  ASSUME IInv, NEW n \in Nodes, ReplicateToSuccessor(n)
  PROVE  IInv'
<1> USE ChainAssumption DEF Nodes
<1> DEFINE states == [replicator EXCEPT ![n] = "scan"]
<1>1. successor[n] = n + 1 /\ n + 1 \in Nodes
  BY DEF ReplicateToSuccessor, IsTail, Nil, IInv, StaticChain
<1>. PICK e \in outgoing[n] : BufferEvent(n + 1, e, states)
  BY <1>1 DEF ReplicateToSuccessor
<1>2. /\ outgoing' = [outgoing EXCEPT ![n] = {}]
      /\ UNCHANGED <<predecessor, successor, events, nextEventSeq, lateEvents,
                     ackVars, clientVars, handler, channel, faults, down>>
      /\ UNCHANGED <<lastConfirmed, nextAckSeq, ackQueue, ackProcessor, applied,
                     lateAcks>>
  BY DEF ReplicateToSuccessor, neighbours, clientVars, ackVars
<1>3. e \in Event /\ FromHead(e) /\ e.seq < nextEventSeq[(n + 1) - 1]
  BY DEF IInv, TypeOK, EventTypes, EventsInv, OutgoingInv
<1>4. EventTypes' /\ EventsInv' /\ \A k \in Nodes : replicator'[k] # "stopped"
  <2>1. /\ states \in [Nodes -> ReplicatorStates]
        /\ \A k \in Nodes : states[k] # "stopped"
    BY DEF IInv, TypeOK, EventTypes, StaticChain, ReplicatorStates
  <2>2. /\ outgoing' \in [Nodes -> SUBSET Event]
        /\ \A k \in Nodes : outgoing'[k] \subseteq outgoing[k]
        /\ lateEvents' \subseteq lateEvents
    BY <1>2 DEF IInv, TypeOK, EventTypes
  <2>. HIDE DEF states, Nodes
  <2>. QED BY <1>1, <1>2, <1>3, <2>1, <2>2, BufferEventKeeps
<1>5. TypeOK'
  BY <1>2, <1>4 DEF IInv, TypeOK, AckTypes, ClientTypes
<1>6. StaticChain' /\ AcksInv' /\ HandlersInv'
  BY <1>2, <1>4, AcksFrame, HandlersFrame DEF IInv, StaticChain
<1>. QED BY <1>4, <1>5, <1>6 DEF IInv

LEMMA ReplicateTimesOutStep ==
  ASSUME IInv, NEW n \in Nodes, ReplicateTimesOut(n)
  PROVE  IInv'
<1> USE ChainAssumption DEF Nodes
<1>1. successor[n] = n + 1 /\ n + 1 \in Nodes
  BY DEF ReplicateTimesOut, IsTail, Nil, IInv, StaticChain
<1>2. /\ lateEvents' = lateEvents \cup
                        {[to |-> n + 1, event |-> e] : e \in outgoing[n]}
      /\ outgoing' = [outgoing EXCEPT ![n] = {}]
      /\ replicator' = [replicator EXCEPT ![n] = "scan"]
      /\ faults' \in 0..MaxFaults
      /\ UNCHANGED <<predecessor, successor, events, nextEventSeq, eventQueue,
                     ackVars, clientVars, handler, channel, down>>
      /\ UNCHANGED <<lastConfirmed, nextAckSeq, ackQueue, ackProcessor, applied,
                     lateAcks>>
  BY <1>1 DEF ReplicateTimesOut, neighbours, clientVars, ackVars, IInv, TypeOK
<1>3. \A e \in outgoing[n] : e \in Event /\ FromHead(e) /\ e.seq < nextEventSeq[n]
  BY DEF IInv, TypeOK, EventTypes, EventsInv, OutgoingInv
<1>4. EventTypes'
  BY <1>1, <1>2, <1>3 DEF IInv, TypeOK, EventTypes, ReplicatorStates
<1>5. TypeOK'
  BY <1>2, <1>4 DEF IInv, TypeOK, AckTypes, ClientTypes
<1>6. StaticChain'
  BY <1>2 DEF IInv, StaticChain, TypeOK, EventTypes
<1>7. EventsInv'
  <2>1. OutgoingInv'
    BY <1>2 DEF IInv, EventsInv, OutgoingInv, TypeOK, EventTypes, FromHead
  <2>2. LateEventsInv'
    BY <1>1, <1>2, <1>3 DEF IInv, EventsInv, LateEventsInv, FromHead
  <2>. QED BY <2>1, <2>2, <1>2 DEF IInv, EventsInv, CountersInv, BuffersInv,
                                   QueuesInv, FromHead
<1>8. AcksInv' /\ HandlersInv'
  BY <1>2, AcksFrame, HandlersFrame DEF IInv
<1>. QED BY <1>5, <1>6, <1>7, <1>8 DEF IInv

LEMMA DeliverLateEventStep ==
  ASSUME IInv, NEW m \in lateEvents, DeliverLateEvent(m)
  PROVE  IInv'
<1>1. /\ m.to \in Nodes /\ m.event \in Event /\ FromHead(m.event)
      /\ m.to # 1 => m.event.seq < nextEventSeq[m.to - 1]
  BY DEF IInv, TypeOK, EventTypes, EventsInv, LateEventsInv
<1>2. /\ BufferEvent(m.to, m.event, replicator)
      /\ lateEvents' = lateEvents \ {m}
      /\ UNCHANGED <<predecessor, successor, events, nextEventSeq, outgoing,
                     ackVars, clientVars, handler, channel, faults, down>>
      /\ UNCHANGED <<lastConfirmed, nextAckSeq, ackQueue, ackProcessor, applied,
                     lateAcks>>
  BY DEF DeliverLateEvent, neighbours, clientVars, ackVars
<1>3. EventTypes' /\ EventsInv' /\ \A k \in Nodes : replicator'[k] # "stopped"
  <2>1. /\ replicator \in [Nodes -> ReplicatorStates]
        /\ \A k \in Nodes : replicator[k] # "stopped"
        /\ outgoing' \in [Nodes -> SUBSET Event]
        /\ \A k \in Nodes : outgoing'[k] \subseteq outgoing[k]
        /\ lateEvents' \subseteq lateEvents
    BY <1>2 DEF IInv, TypeOK, EventTypes, StaticChain
  <2>. QED BY <1>1, <1>2, <2>1, BufferEventKeeps
<1>4. TypeOK'
  BY <1>2, <1>3 DEF IInv, TypeOK, AckTypes, ClientTypes
<1>5. StaticChain' /\ AcksInv' /\ HandlersInv'
  BY <1>2, <1>3, AcksFrame, HandlersFrame, ChainAssumption DEF IInv, StaticChain, Nodes
<1>. QED BY <1>3, <1>4, <1>5 DEF IInv

-----------------------------------------------------------------------------
(* The ACK processor.  These steps leave the events alone. *)
LEMMA IdleAckProcessorStep ==
  ASSUME IInv, NEW n \in Nodes, FindNoAck(n) \/ BlockAckProcessor(n)
  PROVE  IInv'
<1>1. /\ ackProcessor[n] \in {"scan", "park"}
      /\ \/ ackProcessor' = [ackProcessor EXCEPT ![n] = "park"]
         \/ ackProcessor' = [ackProcessor EXCEPT ![n] = "wait"]
      /\ UNCHANGED <<predecessor, successor, events, faults, down, clientVars>>
      /\ UNCHANGED <<nextEventSeq, eventQueue, replicator, outgoing, lateEvents>>
      /\ UNCHANGED <<lastConfirmed, nextAckSeq, ackQueue, applied, lateAcks,
                     handler, channel>>
  BY DEF FindNoAck, BlockAckProcessor, neighbours, eventVars, clientVars
<1>2. TypeOK'
  BY <1>1 DEF IInv, TypeOK, EventTypes, AckTypes, ClientTypes, AckProcessorStates
<1>3. StaticChain'
  BY <1>1 DEF IInv, StaticChain, TypeOK, AckTypes
<1>4. EventsInv' /\ HandlersInv'
  BY <1>1, EventsFrame, HandlersFrame DEF IInv
<1>5. AcksInv'
  <2>1. ProgressInv'
    BY <1>1 DEF IInv, AcksInv, ProgressInv, Processing, TypeOK, AckTypes
  <2>. QED BY <1>1, <2>1 DEF IInv, AcksInv, StorageInv, AckOrderInv, TailAckInv
<1>. QED BY <1>2, <1>3, <1>4, <1>5 DEF IInv

LEMMA TakeNextAckStep ==
  ASSUME IInv, NEW n \in Nodes, TakeNextAck(n)
  PROVE  IInv'
<1> USE ChainAssumption DEF Nodes
<1>1. /\ ackProcessor[n] = "scan"
      /\ nextAckSeq[n] \in ackQueue[n]
      /\ ackQueue' = [ackQueue EXCEPT ![n] = @ \ {nextAckSeq[n]}]
      /\ nextAckSeq' = [nextAckSeq EXCEPT ![n] = @ + 1]
      /\ ackProcessor' = [ackProcessor EXCEPT ![n] = "confirm"]
      /\ UNCHANGED <<predecessor, successor, events, faults, down, clientVars>>
      /\ UNCHANGED <<nextEventSeq, eventQueue, replicator, outgoing, lateEvents>>
      /\ UNCHANGED <<lastConfirmed, applied, lateAcks, handler, channel>>
  BY DEF TakeNextAck, neighbours, eventVars, clientVars
<1>2. TypeOK'
  <2>1. AckTypes'
    <3>0. AckTypes
      BY DEF IInv, TypeOK
    <3>1. ackQueue' \in [Nodes -> SUBSET Nat]
      BY <1>1, <3>0 DEF AckTypes
    <3>2. nextAckSeq' \in [Nodes -> Nat]
      BY <1>1, <3>0 DEF AckTypes
    <3>3. ackProcessor' \in [Nodes -> AckProcessorStates]
      BY <1>1, <3>0 DEF AckTypes, AckProcessorStates
    <3>. QED BY <1>1, <3>0, <3>1, <3>2, <3>3 DEF AckTypes
  <2>. QED BY <1>1, <2>1 DEF IInv, TypeOK, EventTypes, ClientTypes
<1>3. StaticChain'
  BY <1>1 DEF IInv, StaticChain, TypeOK, AckTypes
<1>4. EventsInv' /\ HandlersInv'
  BY <1>1, EventsFrame, HandlersFrame DEF IInv
<1>5. \A k \in Nodes :
        /\ nextAckSeq[k] \in Nat /\ nextEventSeq[k] \in Nat
        /\ Len(applied[k]) \in Nat
        /\ nextAckSeq'[k] = IF k = n THEN nextAckSeq[k] + 1 ELSE nextAckSeq[k]
        /\ ackQueue'[k] \subseteq ackQueue[k]
        /\ ackQueue[k] \subseteq Nat
        /\ ackProcessor'[k] = IF k = n THEN "confirm" ELSE ackProcessor[k]
  <2>1. /\ nextAckSeq \in [Nodes -> Nat] /\ ackQueue \in [Nodes -> SUBSET Nat]
        /\ ackProcessor \in [Nodes -> AckProcessorStates]
    BY DEF IInv, TypeOK, AckTypes
  <2>2. \A k \in Nodes : nextEventSeq[k] \in Nat /\ Len(applied[k]) \in Nat
    BY NodeTypes DEF IInv
  <2>. QED BY <1>1, <2>1, <2>2
<1>6. nextAckSeq[n] < nextEventSeq[n]
  <2>1. CASE n = N
    BY <1>1, <2>1 DEF IInv, AcksInv, TailAckInv
  <2>2. CASE n # N
    <3>1. n + 1 \in Nodes /\ n < n + 1 /\ n + 1 # 1
      BY <2>2
    <3>2. nextAckSeq[n] < Len(applied[n + 1])
      BY <1>1, <3>1 DEF IInv, AcksInv, AckOrderInv
    <3>3. Len(applied[n + 1]) <= nextAckSeq[n + 1] /\ nextAckSeq[n + 1] <= nextEventSeq[n + 1]
      BY <1>5, <3>1 DEF IInv, AcksInv, ProgressInv
    <3>4. nextEventSeq[n + 1] <= nextEventSeq[(n + 1) - 1]
      BY <3>1 DEF IInv, EventsInv, CountersInv
    <3>. QED BY <1>5, <3>1, <3>2, <3>3, <3>4
  <2>. QED BY <2>1, <2>2
<1>7. AcksInv'
  <2>1. ProgressInv'
    BY <1>1, <1>5, <1>6 DEF IInv, AcksInv, ProgressInv, Processing
  <2>2. StorageInv'
    BY <1>1 DEF IInv, AcksInv, StorageInv
  <2>3. AckOrderInv'
    BY <1>1, <1>5 DEF IInv, AcksInv, AckOrderInv
  <2>4. TailAckInv'
    BY <1>1, <1>5 DEF IInv, AcksInv, TailAckInv
  <2>. QED BY <2>1, <2>2, <2>3, <2>4 DEF AcksInv
<1>. QED BY <1>2, <1>3, <1>4, <1>7 DEF IInv

LEMMA ConfirmAckStep ==
  ASSUME IInv, NEW n \in Nodes, ConfirmAck(n)
  PROVE  IInv'
<1>1. /\ lastConfirmed[n] = nextAckSeq[n] - 2
      /\ nextAckSeq[n] > 0 /\ nextAckSeq[n] \in Nat /\ Len(events[n]) \in Nat
      /\ nextAckSeq[n] <= Len(events[n])
  BY DEF ConfirmAck, IInv, AcksInv, ProgressInv, EventsInv, CountersInv, TypeOK,
         EventTypes, AckTypes, Processing
<1>2. /\ ackProcessor[n] = "confirm"
      /\ ackProcessor' = [ackProcessor EXCEPT ![n] = "apply"]
      /\ lastConfirmed' = [lastConfirmed EXCEPT ![n] = @ + 1]
      /\ UNCHANGED <<predecessor, successor, events, faults, down, clientVars>>
      /\ UNCHANGED <<nextEventSeq, eventQueue, replicator, outgoing, lateEvents>>
      /\ UNCHANGED <<nextAckSeq, ackQueue, applied, lateAcks, handler, channel>>
  BY <1>1 DEF ConfirmAck, AckSeq, neighbours, eventVars, clientVars
<1>3. \A k \in Nodes :
        /\ lastConfirmed'[k] = IF k = n THEN nextAckSeq[k] - 1 ELSE lastConfirmed[k]
        /\ ackProcessor'[k] = IF k = n THEN "apply" ELSE ackProcessor[k]
  BY <1>1, <1>2 DEF IInv, TypeOK, AckTypes
<1>4. TypeOK'
  <2>1. AckTypes'
    BY <1>1, <1>2 DEF IInv, TypeOK, AckTypes, AckProcessorStates
  <2>. QED BY <1>2, <2>1 DEF IInv, TypeOK, EventTypes, ClientTypes
<1>5. StaticChain'
  BY <1>2, <1>3 DEF IInv, StaticChain
<1>6. EventsInv' /\ HandlersInv'
  BY <1>2, EventsFrame, HandlersFrame, ChainAssumption DEF IInv, Nodes
<1>7. AcksInv'
  <2>1. ProgressInv'
    BY <1>2, <1>3 DEF IInv, AcksInv, ProgressInv, Processing
  <2>. QED BY <1>2, <2>1 DEF IInv, AcksInv, StorageInv, AckOrderInv, TailAckInv
<1>. QED BY <1>4, <1>5, <1>6, <1>7 DEF IInv

LEMMA ApplyStep ==
  ASSUME IInv, NEW n \in Nodes, Apply(n)
  PROVE  /\ IInv'
         /\ nextAckSeq[n] = Len(applied[n]) + 1
         /\ Len(applied[n]) < Len(events[1])
         /\ applied' = [applied EXCEPT ![n] = Append(@, events[1][Len(applied[n]) + 1])]
<1> USE ChainAssumption DEF Nodes
<1>1. /\ ackProcessor[n] = "apply"
      /\ ackProcessor' = [ackProcessor EXCEPT ![n] = "send"]
      /\ applied' = [applied EXCEPT ![n] = Append(@, events[n][(nextAckSeq[n] - 1) + 1])]
      /\ UNCHANGED <<predecessor, successor, events, faults, down, clientVars>>
      /\ UNCHANGED <<nextEventSeq, eventQueue, replicator, outgoing, lateEvents>>
      /\ UNCHANGED <<lastConfirmed, nextAckSeq, ackQueue, lateAcks, handler, channel>>
  BY DEF Apply, AckSeq, neighbours, eventVars, clientVars
<1>2. \A k \in Nodes :
        /\ nextAckSeq[k] \in Nat /\ nextEventSeq[k] \in Nat
        /\ applied[k] \in Seq(Writes) /\ Len(applied[k]) \in Nat
        /\ events[k] \in Seq(Writes) /\ Len(events[k]) \in Nat
        /\ ackProcessor'[k] = IF k = n THEN "send" ELSE ackProcessor[k]
        /\ ackQueue[k] \subseteq Nat
  <2>1. /\ nextAckSeq \in [Nodes -> Nat] /\ nextEventSeq \in [Nodes -> Nat]
        /\ applied \in [Nodes -> Seq(Writes)] /\ events \in [Nodes -> Seq(Writes)]
        /\ ackProcessor \in [Nodes -> AckProcessorStates]
        /\ ackQueue \in [Nodes -> SUBSET Nat]
    BY DEF IInv, TypeOK, EventTypes, AckTypes
  <2>2. \A k \in Nodes : applied[k] \in Seq(Writes) /\ events[k] \in Seq(Writes)
    BY <2>1
  <2>3. \A k \in Nodes : Len(applied[k]) \in Nat /\ Len(events[k]) \in Nat
    BY NodeTypes DEF IInv
  <2>. QED BY <1>1, <2>1, <2>2, <2>3
<1>3. Len(applied[n]) = nextAckSeq[n] - 1 /\ nextAckSeq[n] > 0
  BY <1>1, <1>2 DEF IInv, AcksInv, ProgressInv, Processing
<1>4. nextAckSeq[n] <= Len(events[n]) /\ Len(events[n]) <= Len(events[1])
  BY <1>2 DEF IInv, AcksInv, ProgressInv, EventsInv, CountersInv, BuffersInv
<1>5. /\ events[n][nextAckSeq[n]] = events[1][nextAckSeq[n]]
      /\ events[1][nextAckSeq[n]] \in Writes
  BY <1>2, <1>3, <1>4 DEF IInv, EventsInv, BuffersInv
<1>6. /\ applied' = [applied EXCEPT ![n] = Append(@, events[1][nextAckSeq[n]])]
      /\ applied'[n] = Append(applied[n], events[1][nextAckSeq[n]])
      /\ \A k \in Nodes : k # n => applied'[k] = applied[k]
      /\ applied' \in [Nodes -> Seq(Writes)]
  <2>1. (nextAckSeq[n] - 1) + 1 = nextAckSeq[n]
    BY <1>2
  <2>2. applied' = [applied EXCEPT ![n] = Append(@, events[1][nextAckSeq[n]])]
    BY <1>1, <1>5, <2>1
  <2>3. applied \in [Nodes -> Seq(Writes)]
    BY DEF IInv, TypeOK, AckTypes
  <2>4. Append(applied[n], events[1][nextAckSeq[n]]) \in Seq(Writes)
    BY <1>2, <1>5
  <2>. QED BY <2>2, <2>3, <2>4
<1>7. /\ Len(applied'[n]) = nextAckSeq[n]
      /\ \A k \in Nodes : Len(applied[k]) <= Len(applied'[k])
  BY <1>2, <1>3, <1>5, <1>6
<1>8. TypeOK'
  <2>1. AckTypes'
    BY <1>1, <1>6 DEF IInv, TypeOK, AckTypes, AckProcessorStates
  <2>. QED BY <1>1, <2>1 DEF IInv, TypeOK, EventTypes, ClientTypes
<1>9. StaticChain'
  BY <1>1, <1>2 DEF IInv, StaticChain
<1>10. EventsInv'
  BY <1>1, EventsFrame DEF IInv
<1>11. HandlersInv'
  <2>1. \A w \in Writes : handler[w].seq \in Nat
    BY DEF IInv, TypeOK, ClientTypes
  <2>2. 1 \in Nodes
    OBVIOUS
  <2>3. Len(applied[1]) <= Len(applied'[1]) /\ Len(applied[1]) \in Nat /\ Len(applied'[1]) \in Nat
    BY <1>2, <1>6, <1>7, <2>2
  <2>. QED BY <1>1, <2>1, <2>3 DEF IInv, HandlersInv
<1>12. AcksInv'
  <2>1. ProgressInv'
    <3>1. \A k \in Nodes : k # n => ackProcessor'[k] = ackProcessor[k] /\ applied'[k] = applied[k]
      BY <1>2, <1>6
    <3>2. ackProcessor[n] = "apply" /\ ackProcessor'[n] = "send"
      BY <1>1, <1>2
    <3>. QED BY <1>1, <1>7, <3>1, <3>2 DEF IInv, AcksInv, ProgressInv, Processing
  <2>2. StorageInv'
    <3> SUFFICES ASSUME NEW k \in Nodes, NEW s \in 1..Len(applied'[k])
                 PROVE  applied'[k][s] = events[1][s]
      BY <1>1 DEF StorageInv
    <3>1. CASE k = n /\ s = nextAckSeq[n]
      BY <3>1, <1>2, <1>3, <1>5, <1>6
    <3>2. CASE k = n /\ s # nextAckSeq[n]
      BY <3>2, <1>2, <1>3, <1>5, <1>6, <1>7 DEF IInv, AcksInv, StorageInv
    <3>3. CASE k # n
      BY <3>3, <1>6 DEF IInv, AcksInv, StorageInv
    <3>. QED BY <3>1, <3>2, <3>3
  <2>3. AckOrderInv'
    <3> SUFFICES ASSUME NEW i \in Nodes, NEW j \in Nodes, i < j
                 PROVE  /\ nextAckSeq[i] <= Len(applied'[j])
                        /\ \A s \in ackQueue[i] : s < Len(applied'[j])
                        /\ \A m \in lateAcks : m.to = i => m.seq < Len(applied'[j])
      BY <1>1 DEF AckOrderInv
    <3>1. Len(applied'[j]) \in Nat /\ \A m \in lateAcks : m.seq \in Nat
      BY <1>6 DEF IInv, TypeOK, AckTypes
    <3>2. /\ nextAckSeq[i] <= Len(applied[j])
          /\ \A s \in ackQueue[i] : s < Len(applied[j])
          /\ \A m \in lateAcks : m.to = i => m.seq < Len(applied[j])
      BY DEF IInv, AcksInv, AckOrderInv
    <3>3. /\ Len(applied[j]) \in Nat /\ nextAckSeq[i] \in Nat /\ ackQueue[i] \subseteq Nat
          /\ Len(applied[j]) <= Len(applied'[j])
      BY <1>2, <1>7
    <3>. QED BY <3>1, <3>2, <3>3
  <2>4. TailAckInv'
    BY <1>1 DEF IInv, AcksInv, TailAckInv
  <2>. QED BY <2>1, <2>2, <2>3, <2>4 DEF AcksInv
<1>13. IInv'
  BY <1>8, <1>9, <1>10, <1>11, <1>12 DEF IInv
<1>14. nextAckSeq[n] = Len(applied[n]) + 1 /\ Len(applied[n]) < Len(events[1])
  <2>1. /\ nextAckSeq[n] \in Nat /\ Len(applied[n]) \in Nat
        /\ Len(events[n]) \in Nat /\ Len(events[1]) \in Nat
    BY <1>2
  <2>. QED BY <2>1, <1>3, <1>4
<1>15. applied' = [applied EXCEPT ![n] = Append(@, events[1][Len(applied[n]) + 1])]
  <2>1. events[1][Len(applied[n]) + 1] = events[1][nextAckSeq[n]]
    BY <1>14
  <2>. QED BY <2>1, <1>6
<1>. QED BY <1>13, <1>14, <1>15

LEMMA SignalAtHeadStep ==
  ASSUME IInv, NEW n \in Nodes, SignalAtHead(n)
  PROVE  IInv'
<1> USE ChainAssumption DEF Nodes, Nil
<1>1. n = 1
  BY DEF SignalAtHead, IsHead, IInv, StaticChain
<1>2. /\ ackProcessor[1] = "send"
      /\ ackProcessor' = [ackProcessor EXCEPT ![1] = "scan"]
      /\ channel' = [w \in Writes |->
           IF w \in AckedHandler(1)
           THEN channel[w] \cup {events[1][AckSeq(1) + 1]} ELSE channel[w]]
      /\ UNCHANGED <<predecessor, successor, events, faults, down, handler>>
      /\ UNCHANGED <<nextEventSeq, eventQueue, replicator, outgoing, lateEvents>>
      /\ UNCHANGED <<lastConfirmed, nextAckSeq, ackQueue, applied, lateAcks>>
  BY <1>1 DEF SignalAtHead, neighbours, eventVars
<1>3. /\ Len(applied[1]) = nextAckSeq[1] /\ nextAckSeq[1] > 0 /\ nextAckSeq[1] \in Nat
  <2>1. 1 \in Nodes
    OBVIOUS
  <2>. QED BY <1>2, <2>1 DEF IInv, AcksInv, ProgressInv, Processing, TypeOK, AckTypes
<1>4. \A w \in AckedHandler(1) :
        /\ w \in Writes /\ handler[w].pc # "idle"
        /\ handler[w].seq < Len(applied[1])
        /\ events[1][AckSeq(1) + 1] = w
  BY <1>3 DEF AckedHandler, AckSeq, IInv, HandlersInv
<1>5. TypeOK'
  <2>1. AckTypes' /\ EventTypes'
    BY <1>2 DEF IInv, TypeOK, AckTypes, EventTypes, AckProcessorStates
  <2>2. ClientTypes'
    BY <1>2, <1>4 DEF IInv, TypeOK, ClientTypes
  <2>. QED BY <1>2, <2>1, <2>2 DEF IInv, TypeOK
<1>6. StaticChain'
  BY <1>2 DEF IInv, StaticChain, TypeOK, AckTypes
<1>7. EventsInv'
  BY <1>2, EventsFrame DEF IInv
<1>8. AcksInv'
  <2>1. ProgressInv'
    BY <1>2 DEF IInv, AcksInv, ProgressInv, Processing, TypeOK, AckTypes
  <2>. QED BY <1>2, <2>1 DEF IInv, AcksInv, StorageInv, AckOrderInv, TailAckInv
<1>9. HandlersInv'
  BY <1>2, <1>4 DEF IInv, HandlersInv
<1>. QED BY <1>5, <1>6, <1>7, <1>8, <1>9 DEF IInv

(* An ACK that node n sends its predecessor p may be queued there. *)
LEMMA AckedBehind ==
  ASSUME IInv, NEW n \in Nodes, ackProcessor[n] = "send", ~IsHead(n)
  PROVE  /\ predecessor[n] = n - 1 /\ n - 1 \in Nodes
         /\ AckSeq(n) \in Nat
         /\ AckSeq(n) < nextEventSeq[n - 1]
         /\ \A j \in Nodes : n - 1 < j => AckSeq(n) < Len(applied[j])
<1> USE ChainAssumption DEF Nodes, Nil
<1>1. predecessor[n] = n - 1 /\ n - 1 \in Nodes /\ n # 1
  BY DEF IsHead, IInv, StaticChain
<1>2. \A k \in Nodes : nextAckSeq[k] \in Nat /\ nextEventSeq[k] \in Nat /\ Len(applied[k]) \in Nat
  BY DEF IInv, TypeOK, EventTypes, AckTypes
<1>3. nextAckSeq[n] > 0 /\ Len(applied[n]) = nextAckSeq[n] /\ nextAckSeq[n] <= nextEventSeq[n]
  BY DEF IInv, AcksInv, ProgressInv, Processing
<1>4. nextEventSeq[n] <= nextEventSeq[n - 1]
  BY <1>1 DEF IInv, EventsInv, CountersInv
<1>5. \A j \in Nodes : n < j => nextAckSeq[n] <= Len(applied[j])
  BY DEF IInv, AcksInv, AckOrderInv
<1>6. \A j \in Nodes : n - 1 < j => nextAckSeq[n] <= Len(applied[j])
  BY <1>2, <1>3, <1>5
<1>. QED BY <1>1, <1>2, <1>3, <1>4, <1>6 DEF AckSeq

LEMMA AckToPredecessorStep ==
  ASSUME IInv, NEW n \in Nodes, AckToPredecessor(n)
  PROVE  IInv'
<1> DEFINE states == [ackProcessor EXCEPT ![n] = "scan"]
<1>1. /\ ackProcessor[n] = "send" /\ ~IsHead(n)
      /\ BufferAck(predecessor[n], AckSeq(n), states)
      /\ UNCHANGED <<predecessor, successor, events, faults, clientVars>>
      /\ UNCHANGED <<nextEventSeq, eventQueue, replicator, outgoing, lateEvents>>
      /\ UNCHANGED <<lastConfirmed, nextAckSeq, applied, lateAcks, handler, channel>>
  BY DEF AckToPredecessor, neighbours, eventVars, clientVars
<1>2. /\ predecessor[n] = n - 1 /\ n - 1 \in Nodes
      /\ AckSeq(n) \in Nat
      /\ AckSeq(n) < nextEventSeq[n - 1]
      /\ \A j \in Nodes : n - 1 < j => AckSeq(n) < Len(applied[j])
  BY <1>1, AckedBehind
<1>3. /\ AckTypes' /\ AcksInv' /\ down' = down
      /\ \A k \in Nodes : ackProcessor'[k] # "stopped"
  <2>1. /\ states \in [Nodes -> AckProcessorStates]
        /\ \A k \in Nodes : \/ states[k] = ackProcessor[k]
                            \/ ackProcessor[k] = "send" /\ states[k] = "scan"
    BY <1>1 DEF IInv, TypeOK, AckTypes, AckProcessorStates
  <2>2. BufferAck(n - 1, AckSeq(n), states) /\ lateAcks' \subseteq lateAcks
    BY <1>1, <1>2
  <2>. HIDE DEF states
  <2>. QED BY <1>1, <1>2, <2>1, <2>2, BufferAckKeeps
<1>4. TypeOK'
  BY <1>1, <1>3 DEF IInv, TypeOK, EventTypes, ClientTypes
<1>5. StaticChain' /\ EventsInv' /\ HandlersInv'
  BY <1>1, <1>3, EventsFrame, HandlersFrame DEF IInv, StaticChain
<1>. QED BY <1>3, <1>4, <1>5 DEF IInv

LEMMA AckTimesOutStep ==
  ASSUME IInv, NEW n \in Nodes, AckTimesOut(n)
  PROVE  IInv'
<1>1. /\ ackProcessor[n] = "send" /\ ~IsHead(n)
      /\ ackProcessor' = [ackProcessor EXCEPT ![n] = "scan"]
      /\ lateAcks' = lateAcks \cup {[to |-> predecessor[n], seq |-> AckSeq(n)]}
      /\ faults' \in 0..MaxFaults
      /\ UNCHANGED <<predecessor, successor, events, down, clientVars>>
      /\ UNCHANGED <<nextEventSeq, eventQueue, replicator, outgoing, lateEvents>>
      /\ UNCHANGED <<lastConfirmed, nextAckSeq, ackQueue, applied, handler, channel>>
  BY ChainAssumption DEF AckTimesOut, neighbours, eventVars, clientVars, IInv, TypeOK
<1>2. /\ predecessor[n] = n - 1 /\ n - 1 \in Nodes /\ n - 1 # N
      /\ AckSeq(n) \in Nat
      /\ \A j \in Nodes : n - 1 < j => AckSeq(n) < Len(applied[j])
  BY <1>1, AckedBehind, ChainAssumption DEF Nodes
<1>3. TypeOK'
  <2>1. AckTypes'
    BY <1>1, <1>2 DEF IInv, TypeOK, AckTypes, AckProcessorStates
  <2>. QED BY <1>1, <2>1 DEF IInv, TypeOK, EventTypes, ClientTypes
<1>4. StaticChain'
  BY <1>1 DEF IInv, StaticChain, TypeOK, AckTypes
<1>5. EventsInv' /\ HandlersInv'
  BY <1>1, EventsFrame, HandlersFrame DEF IInv
<1>6. AcksInv'
  <2>1. ProgressInv'
    BY <1>1 DEF IInv, AcksInv, ProgressInv, Processing, TypeOK, AckTypes
  <2>2. AckOrderInv' /\ TailAckInv'
    BY <1>1, <1>2 DEF IInv, AcksInv, AckOrderInv, TailAckInv
  <2>. QED BY <1>1, <2>1, <2>2 DEF IInv, AcksInv, StorageInv
<1>. QED BY <1>3, <1>4, <1>5, <1>6 DEF IInv

(* An ACK still to be handled is of an event its receiver has passed on. *)
LEMMA LateAckPassed ==
  ASSUME IInv, NEW m \in lateAcks
  PROVE  m.seq < nextEventSeq[m.to]
<1>1. PICK k, j : k = m.to /\ j = k + 1
  OBVIOUS
<1>2. /\ k \in Nodes /\ m.seq \in Nat /\ k # N
      /\ \A i \in Nodes : k < i => m.seq < Len(applied[i])
  BY <1>1 DEF IInv, TypeOK, AckTypes, AcksInv, AckOrderInv, TailAckInv
<1>3. j \in Nodes /\ k < j /\ j # 1 /\ j - 1 = k
  BY <1>1, <1>2, ChainAssumption DEF Nodes
<1>4. m.seq < Len(applied[j])
  BY <1>2, <1>3
<1>5. /\ nextAckSeq[j] \in Nat /\ nextEventSeq[j] \in Nat
      /\ nextEventSeq[k] \in Nat /\ Len(applied[j]) \in Nat
  BY <1>2, <1>3 DEF IInv, TypeOK, EventTypes, AckTypes
<1>6. Len(applied[j]) <= nextAckSeq[j] /\ nextAckSeq[j] <= nextEventSeq[j]
  BY <1>3, <1>5 DEF IInv, AcksInv, ProgressInv
<1>7. nextEventSeq[j] <= nextEventSeq[k]
  BY <1>2, <1>3 DEF IInv, EventsInv, CountersInv
<1>8. m.seq < nextEventSeq[k]
  BY <1>2, <1>4, <1>5, <1>6, <1>7
<1>. QED BY <1>1, <1>8

LEMMA DeliverLateAckStep ==
  ASSUME IInv, NEW m \in lateAcks, DeliverLateAck(m)
  PROVE  IInv'
<1> USE ChainAssumption DEF Nodes
<1>1. /\ BufferAck(m.to, m.seq, ackProcessor)
      /\ lateAcks' \subseteq lateAcks
      /\ UNCHANGED <<predecessor, successor, events, faults, clientVars>>
      /\ UNCHANGED <<nextEventSeq, eventQueue, replicator, outgoing, lateEvents>>
      /\ UNCHANGED <<lastConfirmed, nextAckSeq, applied, handler, channel>>
  BY DEF DeliverLateAck, neighbours, eventVars, clientVars
<1>2. /\ m.to \in Nodes /\ m.seq \in Nat /\ m.to # N
      /\ \A j \in Nodes : m.to < j => m.seq < Len(applied[j])
  BY DEF IInv, TypeOK, AckTypes, AcksInv, AckOrderInv, TailAckInv
<1>3. m.seq < nextEventSeq[m.to]
  BY LateAckPassed
<1>4. /\ AckTypes' /\ AcksInv' /\ down' = down
      /\ \A k \in Nodes : ackProcessor'[k] # "stopped"
  <2>1. ackProcessor \in [Nodes -> AckProcessorStates]
    BY DEF IInv, TypeOK, AckTypes
  <2>. HIDE DEF Nodes
  <2>. QED BY <1>1, <1>2, <1>3, <2>1, BufferAckKeeps
<1>5. TypeOK'
  BY <1>1, <1>4 DEF IInv, TypeOK, EventTypes, ClientTypes
<1>6. StaticChain' /\ EventsInv' /\ HandlersInv'
  BY <1>1, <1>4, EventsFrame, HandlersFrame DEF IInv, StaticChain
<1>. QED BY <1>4, <1>5, <1>6 DEF IInv

-----------------------------------------------------------------------------
LEMMA NextIInv == IInv /\ [Next]_vars => IInv'
<1> SUFFICES ASSUME IInv, [Next]_vars PROVE IInv'
  OBVIOUS
<1>1. ASSUME NEW n \in Nodes, NEW w \in Writes, HandleWrite(n, w) PROVE IInv'
  BY <1>1, HandleWriteStep
<1>2. ASSUME NEW w \in Writes, HandlerStep(w) PROVE IInv'
  BY <1>2, OpenAckChannelStep, BufferOwnEventStep, ReceiveResultStep DEF HandlerStep
<1>3. ASSUME NEW n \in Nodes, ReplicatorStep(n) PROVE IInv'
  BY <1>3, TakeNextEventStep, IdleReplicatorStep, ReplicateAtTailStep,
     ReplicateToSuccessorStep DEF ReplicatorStep
<1>4. ASSUME NEW n \in Nodes, AckProcessorStep(n) PROVE IInv'
  BY <1>4, TakeNextAckStep, IdleAckProcessorStep, ConfirmAckStep, ApplyStep,
     SignalAtHeadStep, AckToPredecessorStep DEF AckProcessorStep
<1>5. ASSUME Fault PROVE IInv'
  BY <1>5, ReplicateTimesOutStep, AckTimesOutStep, DeliverLateEventStep,
     DeliverLateAckStep DEF Fault
<1>6. CASE UNCHANGED vars
  <2>1. UNCHANGED <<predecessor, successor, events, lastConfirmed, nextEventSeq,
          eventQueue, replicator, outgoing, nextAckSeq, ackQueue,
          ackProcessor, applied, handler, channel, lateEvents, lateAcks,
          faults, down>>
    BY <1>6 DEF vars
  <2>2. TypeOK' /\ StaticChain'
    BY <2>1 DEF IInv, TypeOK, EventTypes, AckTypes, ClientTypes, StaticChain
  <2>3. EventsInv' /\ AcksInv' /\ HandlersInv'
    BY <2>1, EventsFrame, AcksFrame, HandlersFrame DEF IInv, ackVars, clientVars
  <2>. QED BY <2>2, <2>3 DEF IInv
<1>. QED BY <1>1, <1>2, <1>3, <1>4, <1>5, <1>6 DEF Next

(* The inductive invariant holds throughout. *)
THEOREM InductiveInvariant == Spec => []IInv
BY InitIInv, NextIInv, PTL DEF Spec

(* Type correctness: every queue, counter and goroutine stays in its range,  *)
(* and event and ACK numbers never go below their starting values.           *)
THEOREM TypeCorrect == Spec => []TypeOK
<1>1. IInv => TypeOK
  BY DEF IInv
<1>. QED BY <1>1, InductiveInvariant, PTL

(* The panics of AddEvent and AcknowledgeEvent and the nil event of        *)
(* bufferAck are unreachable in a chain of any length, however many RPCs   *)
(* time out and whenever their handlers run after all.                     *)
THEOREM PanicsUnreachable == Spec => []NeverPanics
<1>1. IInv => NeverPanics
  BY DEF IInv, StaticChain, NeverPanics
<1>. QED BY <1>1, InductiveInvariant, PTL

(* A client that has its answer has its write on every node, at the place  *)
(* the HEAD gave it.                                                       *)
THEOREM AnswersAreDurable == Spec => []AnsweredIsEverywhere
<1>1. ASSUME IInv PROVE AnsweredIsEverywhere
  <2> USE ChainAssumption DEF Nodes
  <2> SUFFICES ASSUME NEW w \in Writes, handler[w].pc = "answered", NEW n \in Nodes
               PROVE  /\ handler[w].seq < Len(applied[n])
                      /\ applied[n][handler[w].seq + 1] = w
    BY DEF AnsweredIsEverywhere
  <2>1. /\ handler[w].seq \in Nat
        /\ handler[w].seq < Len(applied[1])
        /\ events[1][handler[w].seq + 1] = w
    BY <1>1 DEF IInv, HandlersInv, TypeOK, ClientTypes
  <2>2. 1 \in Nodes /\ Len(applied[1]) \in Nat /\ Len(applied[n]) \in Nat /\ nextAckSeq[1] \in Nat
    BY <1>1 DEF IInv, TypeOK, AckTypes
  <2>3. Len(applied[1]) <= Len(applied[n])
    <3>1. CASE n = 1
      BY <3>1, <2>2
    <3>2. CASE n # 1
      <4>1. nextAckSeq[1] <= Len(applied[n])
        BY <3>2, <2>2, <1>1 DEF IInv, AcksInv, AckOrderInv
      <4>2. Len(applied[1]) <= nextAckSeq[1]
        BY <2>2, <1>1 DEF IInv, AcksInv, ProgressInv
      <4>. QED BY <4>1, <4>2, <2>2
    <3>. QED BY <3>1, <3>2
  <2>4. handler[w].seq + 1 \in 1..Len(applied[n])
    BY <2>1, <2>2, <2>3
  <2>. QED BY <2>1, <2>2, <2>3, <2>4, <1>1 DEF IInv, AcksInv, StorageInv
<1>. QED BY <1>1, InductiveInvariant, PTL

(* A handler is given the result of its own request only. *)
THEOREM ResultsAreOwn == Spec => []OwnResult
<1>1. IInv => OwnResult
  BY DEF IInv, HandlersInv, OwnResult
<1>. QED BY <1>1, InductiveInvariant, PTL

-----------------------------------------------------------------------------
LEMMA PrefixByElements ==
  ASSUME NEW S, NEW s \in Seq(S), NEW t \in Seq(S), Len(s) <= Len(t),
         \A i \in 1..Len(s) : s[i] = t[i]
  PROVE  IsPrefix(s, t)
<1>1. /\ SubSeq(s, 1, Len(s)) \in Seq(S) /\ SubSeq(t, 1, Len(s)) \in Seq(S)
      /\ Len(SubSeq(s, 1, Len(s))) = Len(s) /\ Len(SubSeq(t, 1, Len(s))) = Len(s)
  OBVIOUS
<1>2. \A i \in 1..Len(s) : SubSeq(s, 1, Len(s))[i] = s[i] /\ SubSeq(t, 1, Len(s))[i] = t[i]
  OBVIOUS
<1>3. SubSeq(s, 1, Len(s)) = SubSeq(t, 1, Len(s))
  BY <1>1, <1>2
<1>. QED BY <1>3 DEF IsPrefix

(* A node's buffer is always the beginning of its predecessor's. *)
THEOREM BuffersFollow == Spec => []BuffersFollowHead
<1>1. ASSUME IInv PROVE BuffersFollowHead
  <2> USE ChainAssumption DEF Nodes, Nil
  <2> SUFFICES ASSUME NEW n \in Nodes, n # N
               PROVE  IsPrefix(events[n + 1], events[n])
    BY <1>1 DEF BuffersFollowHead, IsTail, IInv, StaticChain
  <2>1. n + 1 \in Nodes /\ n + 1 # 1 /\ (n + 1) - 1 = n
    OBVIOUS
  <2>2. /\ events[n] \in Seq(Writes) /\ events[n + 1] \in Seq(Writes)
        /\ Len(events[n]) \in Nat /\ Len(events[n + 1]) \in Nat
        /\ nextEventSeq[n] \in Nat /\ nextEventSeq[n + 1] \in Nat
    BY <1>1, <2>1, NodeTypes DEF IInv
  <2>3. /\ Len(events[n + 1]) = nextEventSeq[n + 1]
        /\ nextEventSeq[n + 1] <= nextEventSeq[n]
        /\ nextEventSeq[n] <= Len(events[n])
    BY <1>1, <2>1 DEF IInv, EventsInv, CountersInv
  <2>4. Len(events[n + 1]) <= Len(events[n])
    BY <2>2, <2>3
  <2>5. \A i \in 1..Len(events[n + 1]) : events[n + 1][i] = events[n][i]
    BY <1>1, <2>1, <2>2, <2>4 DEF IInv, EventsInv, BuffersInv
  <2>. HIDE DEF Nodes
  <2>. QED BY <2>2, <2>4, <2>5, PrefixByElements
<1>. QED BY <1>1, InductiveInvariant, PTL

(* A node never applies what its successor has not applied: the storages   *)
(* are stages of one history, and the TAIL's is the latest.                *)
THEOREM DownstreamFirst == Spec => []AppliedDownstreamFirst
<1>1. ASSUME IInv PROVE AppliedDownstreamFirst
  <2> USE ChainAssumption DEF Nodes, Nil
  <2> SUFFICES ASSUME NEW n \in Nodes
               PROVE  IF n = N THEN IsPrefix(applied[n], events[n])
                               ELSE IsPrefix(applied[n], applied[n + 1])
    BY <1>1 DEF AppliedDownstreamFirst, IsTail, IInv, StaticChain
  <2>1. /\ events[n] \in Seq(Writes) /\ applied[n] \in Seq(Writes)
        /\ Len(events[n]) \in Nat /\ Len(applied[n]) \in Nat
        /\ nextEventSeq[n] \in Nat /\ nextAckSeq[n] \in Nat
    BY <1>1, NodeTypes DEF IInv
  <2>2. /\ Len(applied[n]) <= nextAckSeq[n] /\ nextAckSeq[n] <= nextEventSeq[n]
        /\ nextEventSeq[n] <= Len(events[n])
    <3>1. nextEventSeq[n] <= Len(events[n])
      BY <1>1 DEF IInv, EventsInv, CountersInv
    <3>2. ProgressInv
      BY <1>1 DEF IInv, AcksInv
    <3>. QED BY <2>1, <3>1, <3>2 DEF ProgressInv
  <2>3. \A i \in 1..Len(applied[n]) : applied[n][i] = events[1][i]
    BY <1>1 DEF IInv, AcksInv, StorageInv
  <2>4. CASE n = N
    <3>1. Len(applied[n]) <= Len(events[n])
      BY <2>1, <2>2
    <3>2. \A i \in 1..Len(applied[n]) : applied[n][i] = events[n][i]
      BY <1>1, <2>1, <2>3, <3>1 DEF IInv, EventsInv, BuffersInv
    <3>. HIDE DEF Nodes
    <3>. QED BY <2>1, <2>4, <3>1, <3>2, PrefixByElements
  <2>5. CASE n # N
    <3>1. n + 1 \in Nodes /\ n < n + 1
      BY <2>5
    <3>2. applied[n + 1] \in Seq(Writes) /\ Len(applied[n + 1]) \in Nat
      BY <1>1, <3>1, NodeTypes DEF IInv
    <3>3. nextAckSeq[n] <= Len(applied[n + 1])
      BY <1>1, <3>1 DEF IInv, AcksInv, AckOrderInv
    <3>4. Len(applied[n]) <= Len(applied[n + 1])
      BY <2>1, <2>2, <3>2, <3>3
    <3>5. \A i \in 1..Len(applied[n + 1]) : applied[n + 1][i] = events[1][i]
      BY <1>1, <3>1 DEF IInv, AcksInv, StorageInv
    <3>6. \A i \in 1..Len(applied[n]) : applied[n][i] = applied[n + 1][i]
      BY <2>1, <2>3, <3>2, <3>4, <3>5
    <3>. HIDE DEF Nodes
    <3>. QED BY <2>1, <2>5, <3>2, <3>4, <3>6, PrefixByElements
  <2>. QED BY <2>4, <2>5
<1>. QED BY <1>1, InductiveInvariant, PTL

-----------------------------------------------------------------------------
(* Refinement of CommittedLog. *)
Answered == {w \in Writes : handler[w].pc = "answered"}

LEMMA CommittedStep ==
  ASSUME IInv, [Next]_vars
  PROVE  [Committed!Next]_(Committed!vars)
<1> USE ChainAssumption DEF Nodes
<1> DEFINE Stutter == /\ events'[1] = events[1]
                      /\ applied'[N] = applied[N]
                      /\ Answered' = Answered
<1>0. Stutter => UNCHANGED Committed!vars
  BY DEF Committed!vars, Answered
<1>1. ASSUME NEW n \in Nodes, NEW w \in Writes, HandleWrite(n, w)
      PROVE  Committed!Accept(w)
  <2>1. n = 1
    BY <1>1 DEF HandleWrite, IsHead, IInv, StaticChain, Nil
  <2>2. events'[1] = Append(events[1], w) /\ applied' = applied
    BY <1>1, <2>1 DEF HandleWrite, ackVars, IInv, TypeOK, EventTypes
  <2>3. \A v \in Writes : handler'[v].pc = "answered" <=> handler[v].pc = "answered"
    BY <1>1 DEF HandleWrite, IInv, TypeOK, ClientTypes
  <2>4. w \notin Range(events[1])
    <3>1. events[1] \in Seq(Writes) /\ handler[w].pc = "idle"
      BY <1>1 DEF HandleWrite, IInv, TypeOK, EventTypes
    <3>2. \A s \in 1..Len(events[1]) : events[1][s] # w
      BY <3>1 DEF IInv, HandlersInv
    <3>3. DOMAIN events[1] = 1..Len(events[1])
      BY <3>1
    <3>. QED BY <3>2, <3>3 DEF Range
  <2>5. Answered' = Answered
    BY <2>3 DEF Answered
  <2>. QED BY <2>2, <2>4, <2>5 DEF Committed!Accept, Committed!Range, Range, Answered
<1>2. ASSUME NEW w \in Writes, ReceiveResult(w) PROVE Committed!Answer(w)
  <2>1. /\ handler[w].seq \in Nat
        /\ handler[w].seq < Len(applied[1])
        /\ events[1][handler[w].seq + 1] = w
    BY <1>2 DEF ReceiveResult, IInv, HandlersInv, TypeOK, ClientTypes
  <2>2. /\ Len(applied[1]) \in Nat /\ applied[N] \in Seq(Writes) /\ Len(applied[N]) \in Nat
        /\ nextAckSeq[1] \in Nat
    BY NodeTypes DEF IInv
  <2>3. Len(applied[1]) <= Len(applied[N])
    <3>1. Len(applied[1]) <= nextAckSeq[1]
      BY <2>2 DEF IInv, AcksInv, ProgressInv
    <3>2. 1 < N => nextAckSeq[1] <= Len(applied[N])
      BY DEF IInv, AcksInv, AckOrderInv
    <3>. QED BY <2>2, <3>1, <3>2
  <2>4. handler[w].seq + 1 \in 1..Len(applied[N])
    BY <2>1, <2>2, <2>3
  <2>5. applied[N][handler[w].seq + 1] = w
    BY <2>1, <2>4 DEF IInv, AcksInv, StorageInv
  <2>6. w \in Range(applied[N])
    <3>1. DOMAIN applied[N] = 1..Len(applied[N])
      BY <2>2
    <3>. QED BY <2>4, <2>5, <3>1 DEF Range
  <2>7. events' = events /\ applied' = applied
    BY <1>2 DEF ReceiveResult, ackVars
  <2>8. \A v \in Writes : handler'[v].pc = IF v = w THEN "answered" ELSE handler[v].pc
    BY <1>2 DEF ReceiveResult, IInv, TypeOK, ClientTypes
  <2>9. Answered' = Answered \cup {w}
    BY <2>8 DEF Answered
  <2>. QED BY <2>6, <2>7, <2>9 DEF Committed!Answer, Committed!Range, Range, Answered
<1>3. ASSUME NEW w \in Writes, OpenAckChannel(w) \/ BufferOwnEvent(w) PROVE Stutter
  <2>1. \A v \in Writes : handler'[v].pc = "answered" <=> handler[v].pc = "answered"
    BY <1>3 DEF OpenAckChannel, BufferOwnEvent, IInv, TypeOK, ClientTypes
  <2>2. UNCHANGED <<events, applied>>
    BY <1>3 DEF OpenAckChannel, BufferOwnEvent, ackVars
  <2>. QED BY <2>1, <2>2 DEF Answered
<1>4. ASSUME NEW n \in Nodes, ReplicatorStep(n) PROVE Stutter
  <2>1. UNCHANGED <<applied, handler>> /\ events'[1] = events[1]
    BY <1>4, TakeNextEventStep DEF ReplicatorStep, TakeNextEvent, FindNoEvent,
       BlockReplicator, ReplicateAtTail, ReplicateToSuccessor, ackVars, clientVars
  <2>. QED BY <2>1 DEF Answered
<1>5. ASSUME NEW n \in Nodes, Apply(n), n = N PROVE Committed!Commit
  <2>1. /\ Len(applied[N]) < Len(events[1])
        /\ applied' = [applied EXCEPT ![N] = Append(@, events[1][Len(applied[N]) + 1])]
    BY <1>5, ApplyStep
  <2>2. applied'[N] = Append(applied[N], events[1][Len(applied[N]) + 1])
    BY <2>1 DEF IInv, TypeOK, AckTypes
  <2>3. UNCHANGED <<events, handler>>
    BY <1>5 DEF Apply, clientVars
  <2>. QED BY <2>1, <2>2, <2>3 DEF Committed!Commit
<1>6. ASSUME NEW n \in Nodes, AckProcessorStep(n), ~(Apply(n) /\ n = N) PROVE Stutter
  <2>1. applied'[N] = applied[N]
    BY <1>6 DEF AckProcessorStep, TakeNextAck, FindNoAck, BlockAckProcessor,
       ConfirmAck, Apply, SignalAtHead, AckToPredecessor, IInv, TypeOK, AckTypes
  <2>2. UNCHANGED <<events, handler>>
    BY <1>6 DEF AckProcessorStep, TakeNextAck, FindNoAck, BlockAckProcessor,
       ConfirmAck, Apply, SignalAtHead, AckToPredecessor, clientVars
  <2>. QED BY <2>1, <2>2 DEF Answered
<1>7. ASSUME Fault PROVE Stutter
  <2>1. UNCHANGED <<events, applied, handler>>
    BY <1>7 DEF Fault, ReplicateTimesOut, AckTimesOut, DeliverLateEvent,
       DeliverLateAck, ackVars, clientVars
  <2>. QED BY <2>1 DEF Answered
<1>8. CASE UNCHANGED vars
  BY <1>8 DEF vars, Committed!vars
<1>9. (\E n \in Nodes, w \in Writes : HandleWrite(n, w)) => Committed!Next
  BY <1>1 DEF Committed!Next
<1>10. ASSUME NEW w \in Writes, HandlerStep(w) PROVE Committed!Next \/ Stutter
  BY <1>10, <1>2, <1>3 DEF HandlerStep, Committed!Next
<1>11. ASSUME NEW n \in Nodes, ReplicatorStep(n) \/ AckProcessorStep(n)
       PROVE  Committed!Next \/ Stutter
  BY <1>11, <1>4, <1>5, <1>6 DEF Committed!Next
<1>. HIDE DEF Stutter
<1>. QED BY <1>0, <1>7, <1>8, <1>9, <1>10, <1>11 DEF Next

(* The chain, of any length, implements the committed log it promises: the *)
(* HEAD's buffer is the order of the writes, the TAIL's storage is what    *)
(* readers see, and an answer is given for what they see.                  *)
THEOREM ChainImplementsCommittedLog == Spec => ImplementsCommittedLog
<1>1. Init => Committed!Init
  BY ChainAssumption DEF Init, EmptyNodes, NoRequests, Committed!Init, Nodes
<1>2. IInv /\ [Next]_vars => [Committed!Next]_(Committed!vars)
  BY CommittedStep
<1>. QED BY <1>1, <1>2, InductiveInvariant, PTL DEF Spec, Committed!Spec, ImplementsCommittedLog

-----------------------------------------------------------------------------
(***************************************************************************)
(* Nothing is lost between two queues, nor a result on its way to a        *)
(* handler.  The invariant so far says that nodes only take what has       *)
(* passed the node before them; here the direction is the other: what has  *)
(* passed a node is still somewhere.                                       *)
(***************************************************************************)

(* A replicator has an event in hand only to send it, and one at a time. *)
HandsInv ==
  \A n \in Nodes : /\ replicator[n] # "send" => outgoing[n] = {}
                   /\ \A e, f \in outgoing[n] : e = f

(* Every number between two nodes' counters is in hand, in the queue, or   *)
(* in an RPC that timed out: NothingForgotten for a chain that stands.     *)
Carried(n, s) ==
  \/ \E e \in outgoing[n] : e.seq = s
  \/ \E e \in eventQueue[n + 1] : e.seq = s
  \/ \E m \in lateEvents : m.to = n + 1 /\ m.event.seq = s

EventsKept ==
  \A n \in Nodes, s \in Nat :
    n < N /\ nextEventSeq[n + 1] <= s /\ s < nextEventSeq[n] => Carried(n, s)

TailKept ==
  \A s \in Nat : nextAckSeq[N] <= s /\ s < nextEventSeq[N] =>
    s \in ackQueue[N] \/ \E e \in outgoing[N] : e.seq = s

Returned(n, s) ==
  \/ Processing(n) /\ s = nextAckSeq[n] - 1
  \/ s \in ackQueue[n - 1]
  \/ \E m \in lateAcks : m.to = n - 1 /\ m.seq = s

AcksKept ==
  \A n \in Nodes, s \in Nat :
    n > 1 /\ nextAckSeq[n - 1] <= s /\ s < nextAckSeq[n] => Returned(n, s)

(* The HEAD's replicator is given events by handlers that have opened      *)
(* their channel, and by nobody else.                                      *)
Queued(w) == handler[w].pc \in {"waiting", "answered"}

QueuedInv ==
  /\ \A e \in eventQueue[1] : Queued(e.write)
  /\ \A s \in 1..nextEventSeq[1] : Queued(events[1][s])

(* A handler that waits is still to be served, or has been. *)
WaitersInv ==
  \A w \in Writes : handler[w].pc = "waiting" =>
    \/ handler[w].seq >= nextAckSeq[1]
    \/ handler[w].seq = nextAckSeq[1] - 1 /\ Processing(1)
    \/ channel[w] # {}

DeliveryInv ==
  HandsInv /\ EventsKept /\ TailKept /\ AcksKept /\ QueuedInv /\ WaitersInv

-----------------------------------------------------------------------------
(* What an action leaves alone. *)
LEMMA EventsSideFrame ==
  ASSUME HandsInv, EventsKept,
         \A n \in Nodes : replicator[n] = "send" => replicator'[n] = "send",
         UNCHANGED <<nextEventSeq, eventQueue, outgoing, lateEvents>>
  PROVE  HandsInv' /\ EventsKept'
BY DEF HandsInv, EventsKept, Carried

LEMMA AcksSideFrame ==
  ASSUME TailKept, AcksKept,
         UNCHANGED <<nextEventSeq, outgoing, ackProcessor, nextAckSeq,
                     ackQueue, lateAcks>>
  PROVE  TailKept' /\ AcksKept'
BY DEF TailKept, AcksKept, Returned, Processing

LEMMA HandlersSideFrame ==
  ASSUME QueuedInv, WaitersInv,
         UNCHANGED <<nextEventSeq, events, eventQueue, handler, channel,
                     ackProcessor, nextAckSeq>>
  PROVE  QueuedInv' /\ WaitersInv'
BY DEF QueuedInv, WaitersInv, Queued, Processing

(* bufferEvent loses no number, and keeps the event it is given unless it  *)
(* comes too late.                                                         *)
LEMMA BufferEventKept ==
  ASSUME IInv, NEW m \in Nodes, NEW e \in Event,
         NEW states \in [Nodes -> ReplicatorStates], BufferEvent(m, e, states)
  PROVE  /\ \A k \in Nodes \ {m} : eventQueue'[k] = eventQueue[k]
         /\ \A s \in Nat : (\E f \in eventQueue[m] : f.seq = s)
              => \E f \in eventQueue'[m] : f.seq = s
         /\ e.seq >= nextEventSeq[m] => \E f \in eventQueue'[m] : f.seq = e.seq
         /\ \A f \in eventQueue'[m] : f \in eventQueue[m] \/ f = e
         /\ \A k \in Nodes : replicator'[k] = "send" <=> states[k] = "send"
<1>1. /\ eventQueue \in [Nodes -> SUBSET Event]
      /\ nextEventSeq[m] \in Nat /\ e.seq \in Nat
  BY DEF IInv, TypeOK, EventTypes, Event
<1>2. CASE e.seq < nextEventSeq[m]
  BY <1>1, <1>2 DEF BufferEvent
<1>3. CASE e.seq >= nextEventSeq[m]
  <2>1. /\ eventQueue' = [eventQueue EXCEPT
                            ![m] = {f \in @ : f.seq # e.seq} \cup {e}]
        /\ replicator' = [states EXCEPT ![m] = Woken(@)]
    BY <1>1, <1>3 DEF BufferEvent
  <2>2. eventQueue'[m] = {f \in eventQueue[m] : f.seq # e.seq} \cup {e}
    BY <1>1, <2>1
  <2>3. \A k \in Nodes : replicator'[k] = "send" <=> states[k] = "send"
    BY <2>1 DEF Woken
  <2>. QED BY <1>1, <2>1, <2>2, <2>3
<1>. QED BY <1>1, <1>2, <1>3

(* Likewise for bufferAck; a processor is woken, not disturbed. *)
LEMMA BufferAckKept ==
  ASSUME IInv, NEW m \in Nodes, NEW seq \in Nat, seq < nextEventSeq[m],
         NEW states \in [Nodes -> AckProcessorStates], BufferAck(m, seq, states)
  PROVE  /\ \A k \in Nodes : ackQueue[k] \subseteq ackQueue'[k]
         /\ seq >= nextAckSeq[m] => seq \in ackQueue'[m]
         /\ \A k \in Nodes : \/ ackProcessor'[k] = states[k]
                             \/ states[k] = "wait" /\ ackProcessor'[k] = "scan"
<1>1. /\ ackQueue \in [Nodes -> SUBSET Nat] /\ nextAckSeq[m] \in Nat
      /\ Len(events[m]) \in Nat /\ nextEventSeq[m] \in Nat
      /\ nextEventSeq[m] <= Len(events[m])
  BY DEF IInv, TypeOK, AckTypes, EventTypes, EventsInv, CountersInv
<1>2. CASE seq < nextAckSeq[m]
  BY <1>1, <1>2 DEF BufferAck
<1>3. CASE seq >= nextAckSeq[m]
  <2>1. /\ ackQueue' = [ackQueue EXCEPT ![m] = @ \cup {seq}]
        /\ ackProcessor' = [states EXCEPT ![m] = Woken(@)]
    BY <1>1, <1>3 DEF BufferAck
  <2>. QED BY <1>1, <2>1 DEF Woken
<1>. QED BY <1>1, <1>2, <1>3

-----------------------------------------------------------------------------
LEMMA InitDelivery == Init => DeliveryInv
<1>. SUFFICES ASSUME Init PROVE DeliveryInv
  OBVIOUS
<1>. USE ChainAssumption DEF Nodes, Nil, Init, EmptyNodes, NoRequests
<1>1. HandsInv
  BY DEF HandsInv
<1>2. EventsKept /\ TailKept /\ AcksKept
  BY DEF EventsKept, TailKept, AcksKept
<1>3. QueuedInv /\ WaitersInv
  BY DEF QueuedInv, WaitersInv
<1>. QED BY <1>1, <1>2, <1>3 DEF DeliveryInv

LEMMA HandleWriteDelivers ==
  ASSUME IInv, DeliveryInv, NEW n \in Nodes, NEW w \in Writes, HandleWrite(n, w)
  PROVE  DeliveryInv'
<1>. USE ChainAssumption DEF Nodes, Nil
<1>1. n = 1
  BY DEF HandleWrite, IsHead, IInv, StaticChain
<1>2. /\ handler[w].pc = "idle"
      /\ events' = [events EXCEPT ![1] = Append(@, w)]
      /\ handler' = [handler EXCEPT
           ![w] = [pc |-> "created", node |-> 1, seq |-> Len(events[1])]]
      /\ UNCHANGED <<nextEventSeq, eventQueue, replicator, outgoing, lateEvents,
                     nextAckSeq, ackQueue, ackProcessor, lateAcks, channel>>
  BY <1>1 DEF HandleWrite, eventVars, ackVars
<1>3. HandsInv' /\ EventsKept' /\ TailKept' /\ AcksKept'
  BY <1>2, EventsSideFrame, AcksSideFrame DEF DeliveryInv
<1>4. /\ events \in [Nodes -> Seq(Writes)] /\ nextEventSeq[1] \in Nat
      /\ nextEventSeq[1] <= Len(events[1])
      /\ eventQueue \in [Nodes -> SUBSET Event]
      /\ handler \in [Writes -> [pc : HandlerStates,
                                 node : Nodes \cup {Nil}, seq : Nat]]
  BY DEF IInv, TypeOK, EventTypes, ClientTypes, EventsInv, CountersInv
<1>5. QueuedInv'
  <2>1. ASSUME NEW v \in Writes, Queued(v) PROVE Queued(v)'
    BY <1>2, <1>4, <2>1 DEF Queued
  <2>2. \A e \in eventQueue[1] : e.write \in Writes
    BY <1>4 DEF Event
  <2>3. ASSUME NEW s \in 1..nextEventSeq[1]
        PROVE  events'[1][s] = events[1][s] /\ events[1][s] \in Writes
    BY <1>2, <1>4
  <2>. QED BY <1>2, <2>1, <2>2, <2>3 DEF DeliveryInv, QueuedInv
<1>6. WaitersInv'
  BY <1>2, <1>4 DEF DeliveryInv, WaitersInv, Processing
<1>. QED BY <1>3, <1>5, <1>6 DEF DeliveryInv

LEMMA OpenAckChannelDelivers ==
  ASSUME IInv, DeliveryInv, NEW w \in Writes,
         OpenAckChannel(w) \/ ReceiveResult(w)
  PROVE  DeliveryInv'
<1>1. UNCHANGED <<events, nextEventSeq, eventQueue, replicator, outgoing,
                  lateEvents, nextAckSeq, ackQueue, ackProcessor, lateAcks,
                  channel>>
  BY DEF OpenAckChannel, ReceiveResult, eventVars, ackVars
<1>2. HandsInv' /\ EventsKept' /\ TailKept' /\ AcksKept'
  BY <1>1, EventsSideFrame, AcksSideFrame DEF DeliveryInv
<1>3. handler \in [Writes -> [pc : HandlerStates,
                              node : Nodes \cup {Nil}, seq : Nat]]
  BY DEF IInv, TypeOK, ClientTypes
<1>4. \A v \in Writes : /\ handler'[v].seq = handler[v].seq
                        /\ handler'[v].pc = "waiting" => handler[v].pc = "waiting"
                        /\ Queued(v) => Queued(v)'
  BY <1>3 DEF OpenAckChannel, ReceiveResult, Queued
<1>5. QueuedInv'
  <2>1. /\ \A e \in eventQueue[1] : e.write \in Writes
        /\ \A s \in 1..nextEventSeq[1] : events[1][s] \in Writes
    BY ChainAssumption
       DEF IInv, TypeOK, EventTypes, Event, Nodes, EventsInv, CountersInv
  <2>. QED BY <1>1, <1>4, <2>1 DEF DeliveryInv, QueuedInv
<1>6. WaitersInv'
  BY <1>1, <1>4 DEF DeliveryInv, WaitersInv, Processing
<1>. QED BY <1>2, <1>5, <1>6 DEF DeliveryInv

(* The handler's own event is new to the replicator: no event of its       *)
(* number has been queued, because the handler had not queued it.          *)
LEMMA BufferOwnEventDelivers ==
  ASSUME IInv, DeliveryInv, NEW w \in Writes, BufferOwnEvent(w)
  PROVE  DeliveryInv'
<1>. USE ChainAssumption DEF Nodes, Nil
<1>. DEFINE q == handler[w].seq
            e == [seq |-> q, write |-> w]
<1>1. /\ handler[w].pc = "open" /\ handler[w].node = 1 /\ q \in Nat
      /\ q < Len(events[1]) /\ events[1][q + 1] = w
      /\ handler \in [Writes -> [pc : HandlerStates,
                                 node : Nodes \cup {Nil}, seq : Nat]]
  BY DEF BufferOwnEvent, IInv, TypeOK, ClientTypes, HandlersInv
<1>2. /\ handler' = [handler EXCEPT ![w].pc = "waiting"]
      /\ BufferEvent(1, e, replicator)
      /\ UNCHANGED <<events, nextEventSeq, outgoing, lateEvents,
                     nextAckSeq, ackQueue, ackProcessor, lateAcks, channel>>
  BY <1>1 DEF BufferOwnEvent, ackVars
<1>3. /\ 1 \in Nodes /\ e \in Event
      /\ replicator \in [Nodes -> ReplicatorStates]
      /\ nextEventSeq[1] \in Nat /\ nextAckSeq[1] \in Nat
      /\ nextAckSeq[1] <= nextEventSeq[1]
  BY <1>1 DEF Event, IInv, TypeOK, EventTypes, AckTypes, AcksInv, ProgressInv
<1>. HIDE DEF e
<1>4. /\ \A k \in Nodes \ {1} : eventQueue'[k] = eventQueue[k]
      /\ \A f \in eventQueue'[1] : f \in eventQueue[1] \/ f = e
      /\ \A k \in Nodes : replicator'[k] = "send" <=> replicator[k] = "send"
  BY <1>2, <1>3, BufferEventKept
<1>5. HandsInv'
  BY <1>2, <1>4 DEF DeliveryInv, HandsInv
<1>6. EventsKept'
  <2>1. \A n \in Nodes : n < N => n + 1 \in Nodes \ {1}
    OBVIOUS
  <2>. QED BY <1>2, <1>4, <2>1 DEF DeliveryInv, EventsKept, Carried
<1>7. TailKept' /\ AcksKept'
  BY <1>2, AcksSideFrame DEF DeliveryInv
<1>8. QueuedInv'
  <2>1. \A v \in Writes : Queued(v) => Queued(v)'
    BY <1>1, <1>2 DEF Queued
  <2>2. Queued(w)'
    BY <1>1, <1>2 DEF Queued
  <2>3. /\ \A f \in eventQueue[1] : f.write \in Writes
        /\ \A s \in 1..nextEventSeq[1] : events[1][s] \in Writes
    BY DEF IInv, TypeOK, EventTypes, Event, EventsInv, CountersInv
  <2>. QED BY <1>2, <1>4, <2>1, <2>2, <2>3 DEF DeliveryInv, QueuedInv, e
<1>9. WaitersInv'
  <2>1. q >= nextEventSeq[1]
    <3>1. CASE q < nextEventSeq[1]
      <4>1. q + 1 \in 1..nextEventSeq[1]
        BY <1>1, <1>3, <3>1
      <4>2. Queued(w)
        BY <1>1, <4>1 DEF DeliveryInv, QueuedInv
      <4>. QED BY <1>1, <4>2 DEF Queued
    <3>. QED BY <1>1, <1>3, <3>1
  <2>2. q >= nextAckSeq[1]
    BY <1>1, <1>3, <2>1
  <2>. QED BY <1>1, <1>2, <2>2 DEF DeliveryInv, WaitersInv, Processing
<1>. QED BY <1>5, <1>6, <1>7, <1>8, <1>9 DEF DeliveryInv

LEMMA TakeNextEventDelivers ==
  ASSUME IInv, DeliveryInv, NEW n \in Nodes, TakeNextEvent(n)
  PROVE  DeliveryInv'
<1>. USE ChainAssumption DEF Nodes, Nil
<1>. PICK e \in NextEvents(n) :
       /\ eventQueue' = [eventQueue EXCEPT ![n] = @ \ {e}]
       /\ nextEventSeq' = [nextEventSeq EXCEPT ![n] = @ + 1]
       /\ outgoing' = [outgoing EXCEPT ![n] = {e}]
       /\ replicator' = [replicator EXCEPT ![n] = "send"]
  BY DEF TakeNextEvent
<1>1. /\ e \in eventQueue[n] /\ e.seq = nextEventSeq[n] /\ FromHead(e)
      /\ \A k \in Nodes : nextEventSeq[k] \in Nat
      /\ \A k \in Nodes : \A f \in eventQueue[k] : f.write \in Writes
      /\ \A s \in 1..nextEventSeq[1] : events[1][s] \in Writes
  BY DEF NextEvents, IInv, TypeOK, EventTypes, Event, EventsInv, QueuesInv,
         CountersInv
<1>2. /\ outgoing[n] = {} /\ events'[1] = events[1]
      /\ UNCHANGED <<lateEvents, nextAckSeq, ackQueue, ackProcessor, lateAcks,
                     handler, channel>>
  BY TakeNextEventStep
     DEF TakeNextEvent, DeliveryInv, HandsInv, ackVars, clientVars
<1>3. \A k \in Nodes :
        /\ eventQueue'[k] = IF k = n THEN eventQueue[k] \ {e} ELSE eventQueue[k]
        /\ nextEventSeq'[k] = IF k = n THEN nextEventSeq[k] + 1 ELSE nextEventSeq[k]
        /\ outgoing'[k] = IF k = n THEN {e} ELSE outgoing[k]
        /\ replicator'[k] = IF k = n THEN "send" ELSE replicator[k]
  BY DEF IInv, TypeOK, EventTypes
<1>4. HandsInv'
  BY <1>3 DEF DeliveryInv, HandsInv
<1>5. EventsKept'
  <2>. SUFFICES ASSUME NEW k \in Nodes, NEW s \in Nat, k < N,
                       nextEventSeq'[k + 1] <= s, s < nextEventSeq'[k]
                PROVE  Carried(k, s)'
    BY DEF EventsKept
  <2>1. k + 1 \in Nodes
    OBVIOUS
  <2>2. CASE k = n /\ s = e.seq
    BY <1>3, <2>2 DEF Carried
  <2>3. CASE ~(k = n /\ s = e.seq)
    <3>1. nextEventSeq[k + 1] <= s /\ s < nextEventSeq[k]
      BY <1>1, <1>3, <2>1, <2>3
    <3>2. ASSUME k + 1 = n PROVE s # e.seq
      <4>1. nextEventSeq'[n] = e.seq + 1 /\ e.seq \in Nat
        BY <1>1, <1>3
      <4>. QED BY <3>2, <4>1
    <3>3. Carried(k, s)
      BY <3>1 DEF DeliveryInv, EventsKept
    <3>. QED BY <1>2, <1>3, <2>1, <3>2, <3>3 DEF Carried
  <2>. QED BY <2>2, <2>3
<1>6. TailKept' /\ AcksKept'
  <2>1. TailKept'
    BY <1>1, <1>2, <1>3 DEF DeliveryInv, TailKept
  <2>2. AcksKept'
    BY <1>2 DEF DeliveryInv, AcksKept, Returned, Processing
  <2>. QED BY <2>1, <2>2
<1>7. QueuedInv'
  <2>1. \A w \in Writes : Queued(w)' <=> Queued(w)
    BY <1>2 DEF Queued
  <2>2. \A f \in eventQueue'[1] : Queued(f.write)'
    BY <1>1, <1>3, <2>1 DEF DeliveryInv, QueuedInv
  <2>3. ASSUME NEW s \in 1..nextEventSeq'[1] PROVE Queued(events[1][s])'
    <3>1. CASE s \in 1..nextEventSeq[1]
      BY <1>1, <1>2, <2>1, <3>1 DEF DeliveryInv, QueuedInv
    <3>2. CASE s \notin 1..nextEventSeq[1]
      <4>1. n = 1 /\ s = e.seq + 1
        BY <1>1, <1>3, <3>2
      <4>2. events'[1][s] = e.write /\ Queued(e.write)
        BY <1>1, <1>2, <4>1 DEF FromHead, DeliveryInv, QueuedInv
      <4>. QED BY <1>1, <2>1, <4>2
    <3>. QED BY <3>1, <3>2
  <2>. QED BY <2>2, <2>3 DEF QueuedInv
<1>8. WaitersInv'
  BY <1>2 DEF DeliveryInv, WaitersInv, Processing
<1>. QED BY <1>4, <1>5, <1>6, <1>7, <1>8 DEF DeliveryInv

LEMMA IdleReplicatorDelivers ==
  ASSUME IInv, DeliveryInv, NEW n \in Nodes, FindNoEvent(n) \/ BlockReplicator(n)
  PROVE  DeliveryInv'
<1>1. /\ \A k \in Nodes : replicator[k] = "send" => replicator'[k] = "send"
      /\ UNCHANGED <<events, nextEventSeq, eventQueue, outgoing, lateEvents,
                     nextAckSeq, ackQueue, ackProcessor, lateAcks, handler,
                     channel>>
  BY DEF FindNoEvent, BlockReplicator, ackVars, clientVars, IInv, TypeOK,
         EventTypes
<1>. QED BY <1>1, EventsSideFrame, AcksSideFrame, HandlersSideFrame
         DEF DeliveryInv

LEMMA ReplicateAtTailDelivers ==
  ASSUME IInv, DeliveryInv, NEW n \in Nodes, ReplicateAtTail(n)
  PROVE  DeliveryInv'
<1>. USE ChainAssumption DEF Nodes, Nil
<1>1. n = N
  BY DEF ReplicateAtTail, IsTail, IInv, StaticChain
<1>. PICK e \in outgoing[N] : BufferAck(N, e.seq, ackProcessor)
  BY <1>1 DEF ReplicateAtTail
<1>2. /\ outgoing' = [outgoing EXCEPT ![N] = {}]
      /\ replicator' = [replicator EXCEPT ![N] = "scan"]
      /\ UNCHANGED <<events, nextEventSeq, eventQueue, lateEvents, nextAckSeq,
                     lateAcks, handler, channel>>
  BY <1>1 DEF ReplicateAtTail, clientVars
<1>3. /\ e.seq \in Nat /\ e.seq < nextEventSeq[N] /\ N \in Nodes
      /\ ackProcessor \in [Nodes -> AckProcessorStates]
      /\ \A f \in outgoing[N] : f = e
  BY DEF IInv, TypeOK, EventTypes, AckTypes, Event, EventsInv, OutgoingInv,
         DeliveryInv, HandsInv
<1>4. /\ \A k \in Nodes : ackQueue[k] \subseteq ackQueue'[k]
      /\ e.seq >= nextAckSeq[N] => e.seq \in ackQueue'[N]
      /\ \A k \in Nodes : \/ ackProcessor'[k] = ackProcessor[k]
                          \/ ackProcessor[k] = "wait" /\ ackProcessor'[k] = "scan"
  BY <1>3, BufferAckKept
<1>5. HandsInv' /\ EventsKept'
  <2>1. \A k \in Nodes :
          /\ outgoing'[k] = IF k = N THEN {} ELSE outgoing[k]
          /\ replicator'[k] = IF k = N THEN "scan" ELSE replicator[k]
    BY <1>2 DEF IInv, TypeOK, EventTypes
  <2>2. HandsInv'
    BY <2>1 DEF DeliveryInv, HandsInv
  <2>3. EventsKept'
    BY <1>2, <2>1 DEF DeliveryInv, EventsKept, Carried
  <2>. QED BY <2>2, <2>3
<1>6. TailKept'
  BY <1>2, <1>3, <1>4 DEF DeliveryInv, TailKept
<1>7. AcksKept' /\ WaitersInv'
  BY <1>2, <1>4 DEF DeliveryInv, AcksKept, Returned, WaitersInv, Processing
<1>8. QueuedInv'
  BY <1>2 DEF DeliveryInv, QueuedInv, Queued
<1>. QED BY <1>5, <1>6, <1>7, <1>8 DEF DeliveryInv

LEMMA ReplicateToSuccessorDelivers ==
  ASSUME IInv, DeliveryInv, NEW n \in Nodes, ReplicateToSuccessor(n)
  PROVE  DeliveryInv'
<1>. USE ChainAssumption DEF Nodes, Nil
<1>. DEFINE states == [replicator EXCEPT ![n] = "scan"]
<1>1. successor[n] = n + 1 /\ n + 1 \in Nodes /\ n + 1 # 1 /\ n # N
  BY DEF ReplicateToSuccessor, IsTail, IInv, StaticChain
<1>. PICK e \in outgoing[n] : BufferEvent(n + 1, e, states)
  BY <1>1 DEF ReplicateToSuccessor
<1>2. /\ outgoing' = [outgoing EXCEPT ![n] = {}]
      /\ UNCHANGED <<events, nextEventSeq, lateEvents, nextAckSeq, ackQueue,
                     ackProcessor, lateAcks, handler, channel>>
  BY DEF ReplicateToSuccessor, ackVars, clientVars
<1>3. /\ e \in Event /\ e.seq \in Nat
      /\ states \in [Nodes -> ReplicatorStates]
      /\ \A k \in Nodes : states[k] = IF k = n THEN "scan" ELSE replicator[k]
      /\ \A f \in outgoing[n] : f = e
      /\ \A k \in Nodes : outgoing'[k] = IF k = n THEN {} ELSE outgoing[k]
  BY <1>2 DEF IInv, TypeOK, EventTypes, Event, ReplicatorStates, DeliveryInv,
              HandsInv
<1>. HIDE DEF states
<1>4. /\ \A k \in Nodes \ {n + 1} : eventQueue'[k] = eventQueue[k]
      /\ \A s \in Nat : (\E f \in eventQueue[n + 1] : f.seq = s)
           => \E f \in eventQueue'[n + 1] : f.seq = s
      /\ e.seq >= nextEventSeq[n + 1] =>
           \E f \in eventQueue'[n + 1] : f.seq = e.seq
      /\ \A k \in Nodes : replicator'[k] = "send" <=> states[k] = "send"
  BY <1>1, <1>3, BufferEventKept
<1>5. HandsInv'
  BY <1>3, <1>4 DEF DeliveryInv, HandsInv
<1>6. EventsKept'
  <2>. SUFFICES ASSUME NEW k \in Nodes, NEW s \in Nat, k < N,
                       nextEventSeq[k + 1] <= s, s < nextEventSeq[k]
                PROVE  Carried(k, s)'
    BY <1>2 DEF EventsKept
  <2>1. k + 1 \in Nodes
    OBVIOUS
  <2>2. Carried(k, s)
    BY DEF DeliveryInv, EventsKept
  <2>3. CASE k = n /\ \E f \in outgoing[n] : f.seq = s
    BY <1>3, <1>4, <2>3 DEF Carried
  <2>4. CASE ~(k = n /\ \E f \in outgoing[n] : f.seq = s)
    BY <1>2, <1>3, <1>4, <2>1, <2>2, <2>4 DEF Carried
  <2>. QED BY <2>3, <2>4
<1>7. TailKept' /\ AcksKept' /\ WaitersInv'
  <2>1. TailKept'
    BY <1>1, <1>2, <1>3 DEF DeliveryInv, TailKept
  <2>2. AcksKept' /\ WaitersInv'
    BY <1>2 DEF DeliveryInv, AcksKept, Returned, WaitersInv, Processing
  <2>. QED BY <2>1, <2>2
<1>8. QueuedInv'
  BY <1>1, <1>2, <1>4 DEF DeliveryInv, QueuedInv, Queued
<1>. QED BY <1>5, <1>6, <1>7, <1>8 DEF DeliveryInv

LEMMA ReplicateTimesOutDelivers ==
  ASSUME IInv, DeliveryInv, NEW n \in Nodes, ReplicateTimesOut(n)
  PROVE  DeliveryInv'
<1>. USE ChainAssumption DEF Nodes, Nil
<1>1. successor[n] = n + 1 /\ n # N
  BY DEF ReplicateTimesOut, IsTail, IInv, StaticChain
<1>2. /\ lateEvents' = lateEvents \cup
                        {[to |-> n + 1, event |-> e] : e \in outgoing[n]}
      /\ outgoing' = [outgoing EXCEPT ![n] = {}]
      /\ replicator' = [replicator EXCEPT ![n] = "scan"]
      /\ UNCHANGED <<events, nextEventSeq, eventQueue, nextAckSeq, ackQueue,
                     ackProcessor, lateAcks, handler, channel>>
  BY <1>1 DEF ReplicateTimesOut, ackVars, clientVars
<1>3. \A k \in Nodes :
        /\ outgoing'[k] = IF k = n THEN {} ELSE outgoing[k]
        /\ replicator'[k] = IF k = n THEN "scan" ELSE replicator[k]
  BY <1>2 DEF IInv, TypeOK, EventTypes
<1>4. HandsInv'
  BY <1>3 DEF DeliveryInv, HandsInv
<1>5. EventsKept'
  <2>1. ASSUME NEW k \in Nodes, NEW s \in Nat, Carried(k, s)
        PROVE  Carried(k, s)'
    <3>1. CASE k = n /\ \E e \in outgoing[n] : e.seq = s
      <4>. PICK e \in outgoing[n] : e.seq = s
        BY <3>1
      <4>. DEFINE m == [to |-> n + 1, event |-> e]
      <4>1. m \in lateEvents' /\ m.to = k + 1 /\ m.event.seq = s
        BY <1>2, <3>1
      <4>. HIDE DEF m
      <4>. QED BY <4>1 DEF Carried
    <3>2. CASE ~(k = n /\ \E e \in outgoing[n] : e.seq = s)
      BY <1>2, <1>3, <2>1, <3>2 DEF Carried
    <3>. QED BY <3>1, <3>2
  <2>. QED BY <1>2, <2>1 DEF DeliveryInv, EventsKept
<1>6. TailKept' /\ AcksKept'
  <2>1. TailKept'
    BY <1>1, <1>2, <1>3 DEF DeliveryInv, TailKept
  <2>2. AcksKept'
    BY <1>2 DEF DeliveryInv, AcksKept, Returned, Processing
  <2>. QED BY <2>1, <2>2
<1>7. QueuedInv' /\ WaitersInv'
  BY <1>2, HandlersSideFrame DEF DeliveryInv
<1>. QED BY <1>4, <1>5, <1>6, <1>7 DEF DeliveryInv

LEMMA DeliverLateEventDelivers ==
  ASSUME IInv, DeliveryInv, NEW m \in lateEvents, DeliverLateEvent(m)
  PROVE  DeliveryInv'
<1>. USE ChainAssumption DEF Nodes, Nil
<1>1. /\ m.to \in Nodes /\ m.event \in Event /\ m.event.seq \in Nat /\ m.to # 1
      /\ replicator \in [Nodes -> ReplicatorStates]
  BY DEF IInv, TypeOK, EventTypes, Event, EventsInv, LateEventsInv
<1>2. /\ BufferEvent(m.to, m.event, replicator)
      /\ lateEvents' = lateEvents \ {m}
      /\ UNCHANGED <<events, nextEventSeq, outgoing, nextAckSeq, ackQueue,
                     ackProcessor, lateAcks, handler, channel>>
  BY DEF DeliverLateEvent, ackVars, clientVars
<1>3. /\ \A k \in Nodes \ {m.to} : eventQueue'[k] = eventQueue[k]
      /\ \A s \in Nat : (\E f \in eventQueue[m.to] : f.seq = s)
           => \E f \in eventQueue'[m.to] : f.seq = s
      /\ m.event.seq >= nextEventSeq[m.to] =>
           \E f \in eventQueue'[m.to] : f.seq = m.event.seq
      /\ \A k \in Nodes : replicator'[k] = "send" <=> replicator[k] = "send"
  BY <1>1, <1>2, BufferEventKept
<1>4. HandsInv'
  BY <1>2, <1>3 DEF DeliveryInv, HandsInv
<1>5. EventsKept'
  <2>. SUFFICES ASSUME NEW k \in Nodes, NEW s \in Nat, k < N,
                       nextEventSeq[k + 1] <= s, s < nextEventSeq[k]
                PROVE  Carried(k, s)'
    BY <1>2 DEF EventsKept
  <2>1. k + 1 \in Nodes
    OBVIOUS
  <2>2. Carried(k, s)
    BY DEF DeliveryInv, EventsKept
  <2>3. CASE k + 1 = m.to /\ m.event.seq = s
    BY <1>3, <2>3 DEF Carried
  <2>4. CASE ~(k + 1 = m.to /\ m.event.seq = s)
    BY <1>2, <1>3, <2>1, <2>2, <2>4 DEF Carried
  <2>. QED BY <2>3, <2>4
<1>6. TailKept' /\ AcksKept'
  BY <1>2, AcksSideFrame DEF DeliveryInv
<1>7. QueuedInv' /\ WaitersInv'
  <2>1. eventQueue'[1] = eventQueue[1]
    BY <1>1, <1>3
  <2>. QED BY <1>2, <2>1
           DEF DeliveryInv, QueuedInv, Queued, WaitersInv, Processing
<1>. QED BY <1>4, <1>5, <1>6, <1>7 DEF DeliveryInv

-----------------------------------------------------------------------------
LEMMA TakeNextAckDelivers ==
  ASSUME IInv, DeliveryInv, NEW n \in Nodes, TakeNextAck(n)
  PROVE  DeliveryInv'
<1>. USE ChainAssumption DEF Nodes
<1>1. /\ ackProcessor[n] = "scan"
      /\ UNCHANGED <<events, nextEventSeq, eventQueue, replicator, outgoing,
                     lateEvents, lateAcks, handler, channel>>
  BY DEF TakeNextAck, eventVars, clientVars
<1>2. /\ \A k \in Nodes : nextAckSeq[k] \in Nat
      /\ nextAckSeq'[n] = nextAckSeq[n] + 1
      /\ \A k \in Nodes \ {n} : nextAckSeq'[k] = nextAckSeq[k]
  BY DEF TakeNextAck, IInv, TypeOK, AckTypes
<1>a. /\ ackQueue'[n] = ackQueue[n] \ {nextAckSeq[n]}
      /\ \A k \in Nodes \ {n} : ackQueue'[k] = ackQueue[k]
      /\ ackProcessor'[n] = "confirm"
      /\ \A k \in Nodes \ {n} : ackProcessor'[k] = ackProcessor[k]
  BY DEF TakeNextAck, IInv, TypeOK, AckTypes
<1>3. HandsInv' /\ EventsKept'
  BY <1>1, EventsSideFrame DEF DeliveryInv
<1>4. TailKept'
  <2>1. N \in Nodes
    OBVIOUS
  <2>. QED BY <1>1, <1>2, <1>a, <2>1 DEF DeliveryInv, TailKept
<1>5. AcksKept'
  <2>. SUFFICES ASSUME NEW k \in Nodes, NEW s \in Nat, k > 1,
                       nextAckSeq'[k - 1] <= s, s < nextAckSeq'[k]
                PROVE  Returned(k, s)'
    BY DEF AcksKept
  <2>1. k - 1 \in Nodes
    OBVIOUS
  <2>2. CASE k = n /\ s = nextAckSeq[n]
    BY <1>2, <1>a, <2>2 DEF Returned, Processing
  <2>3. CASE ~(k = n /\ s = nextAckSeq[n])
    <3>1. nextAckSeq[k - 1] <= s /\ s < nextAckSeq[k]
      BY <1>2, <2>1, <2>3
    <3>2. k - 1 = n => s # nextAckSeq[n]
      BY <1>2, <2>1
    <3>3. Returned(k, s)
      BY <3>1 DEF DeliveryInv, AcksKept
    <3>. QED BY <1>1, <1>2, <1>a, <2>1, <3>2, <3>3 DEF Returned, Processing
  <2>. QED BY <2>2, <2>3
<1>6. QueuedInv'
  BY <1>1 DEF DeliveryInv, QueuedInv, Queued
<1>7. WaitersInv'
  <2>1. 1 \in Nodes /\ \A w \in Writes : handler[w].seq \in Nat
    BY DEF IInv, TypeOK, ClientTypes
  <2>. SUFFICES ASSUME NEW w \in Writes, handler[w].pc = "waiting",
                       channel[w] = {}
                PROVE  \/ handler[w].seq >= nextAckSeq'[1]
                       \/ handler[w].seq = nextAckSeq'[1] - 1 /\ Processing(1)'
    BY <1>1 DEF WaitersInv
  <2>2. \/ handler[w].seq >= nextAckSeq[1]
        \/ handler[w].seq = nextAckSeq[1] - 1 /\ Processing(1)
    BY DEF DeliveryInv, WaitersInv
  <2>3. CASE n = 1
    BY <1>1, <1>2, <1>a, <2>1, <2>2, <2>3 DEF Processing
  <2>4. CASE n # 1
    BY <1>2, <1>a, <2>1, <2>2, <2>4 DEF Processing
  <2>. QED BY <2>3, <2>4
<1>. QED BY <1>3, <1>4, <1>5, <1>6, <1>7 DEF DeliveryInv

(* A processor that goes on with the number it has, or goes to sleep. *)
LEMMA AckProcessorDelivers ==
  ASSUME IInv, DeliveryInv, NEW n \in Nodes,
         \/ FindNoAck(n)
         \/ BlockAckProcessor(n)
         \/ ConfirmAck(n)
         \/ Apply(n)
  PROVE  DeliveryInv'
<1>1. /\ \A k \in Nodes : Processing(k) <=> Processing(k)'
      /\ UNCHANGED <<events, nextEventSeq, eventQueue, replicator, outgoing,
                     lateEvents, nextAckSeq, ackQueue, lateAcks, handler,
                     channel>>
  BY DEF FindNoAck, BlockAckProcessor, ConfirmAck, Apply, Processing, eventVars,
         clientVars, IInv, TypeOK, AckTypes
<1>2. HandsInv' /\ EventsKept'
  BY <1>1, EventsSideFrame DEF DeliveryInv
<1>3. TailKept' /\ AcksKept'
  BY <1>1 DEF DeliveryInv, TailKept, AcksKept, Returned
<1>4. QueuedInv' /\ WaitersInv'
  BY <1>1, ChainAssumption
     DEF DeliveryInv, QueuedInv, Queued, WaitersInv, Nodes
<1>. QED BY <1>2, <1>3, <1>4 DEF DeliveryInv

LEMMA SignalAtHeadDelivers ==
  ASSUME IInv, DeliveryInv, NEW n \in Nodes, SignalAtHead(n)
  PROVE  DeliveryInv'
<1>. USE ChainAssumption DEF Nodes, Nil
<1>1. n = 1
  BY DEF SignalAtHead, IsHead, IInv, StaticChain
<1>2. /\ ackProcessor' = [ackProcessor EXCEPT ![1] = "scan"]
      /\ channel' = [w \in Writes |->
           IF w \in AckedHandler(1)
           THEN channel[w] \cup {events[1][AckSeq(1) + 1]} ELSE channel[w]]
      /\ UNCHANGED <<events, nextEventSeq, eventQueue, replicator, outgoing,
                     lateEvents, nextAckSeq, ackQueue, lateAcks, handler>>
  BY <1>1 DEF SignalAtHead, eventVars
<1>3. HandsInv' /\ EventsKept' /\ TailKept'
  BY <1>2, EventsSideFrame DEF DeliveryInv, TailKept
<1>4. AcksKept'
  BY <1>2 DEF DeliveryInv, AcksKept, Returned, Processing, IInv, TypeOK, AckTypes
<1>5. QueuedInv'
  BY <1>2 DEF DeliveryInv, QueuedInv, Queued
<1>6. WaitersInv'
  <2>. SUFFICES ASSUME NEW w \in Writes, handler[w].pc = "waiting",
                       handler[w].seq < nextAckSeq[1]
                PROVE  channel'[w] # {}
    <3>1. nextAckSeq[1] \in Nat /\ \A v \in Writes : handler[v].seq \in Nat
      BY SMTT(30) DEF IInv, TypeOK, ClientTypes, AckTypes
    <3>2. \A v \in Writes : \/ handler[v].seq >= nextAckSeq[1]
                             \/ handler[v].seq < nextAckSeq[1]
      BY <3>1
    <3>. QED BY <1>2, <3>2 DEF WaitersInv
  <2>1. handler[w].node = 1
    BY DEF IInv, HandlersInv
  <2>2. handler[w].seq \in Nat /\ nextAckSeq[1] \in Nat
    BY DEF IInv, TypeOK, ClientTypes, AckTypes
  <2>3. CASE channel[w] # {}
    BY <1>2, <2>3
  <2>4. CASE channel[w] = {}
    <3>1. w \in AckedHandler(1)
      BY <2>1, <2>2, <2>4 DEF DeliveryInv, WaitersInv, AckedHandler, AckSeq
    <3>. QED BY <1>2, <3>1
  <2>. QED BY <2>3, <2>4
<1>. QED BY <1>3, <1>4, <1>5, <1>6 DEF DeliveryInv

LEMMA AckToPredecessorDelivers ==
  ASSUME IInv, DeliveryInv, NEW n \in Nodes, AckToPredecessor(n)
  PROVE  DeliveryInv'
<1>. USE ChainAssumption DEF Nodes, Nil
<1>. DEFINE states == [ackProcessor EXCEPT ![n] = "scan"]
<1>1. /\ ackProcessor[n] = "send" /\ ~IsHead(n)
      /\ BufferAck(predecessor[n], AckSeq(n), states)
      /\ UNCHANGED <<events, nextEventSeq, eventQueue, replicator, outgoing,
                     lateEvents, nextAckSeq, lateAcks, handler, channel>>
  BY DEF AckToPredecessor, eventVars, clientVars
<1>2. /\ predecessor[n] = n - 1 /\ n - 1 \in Nodes
      /\ AckSeq(n) \in Nat /\ AckSeq(n) < nextEventSeq[n - 1]
  BY <1>1, AckedBehind
<1>3. /\ states \in [Nodes -> AckProcessorStates]
      /\ \A k \in Nodes : states[k] = IF k = n THEN "scan" ELSE ackProcessor[k]
  BY DEF IInv, TypeOK, AckTypes, AckProcessorStates
<1>4. BufferAck(n - 1, AckSeq(n), states)
  BY <1>1, <1>2
<1>. HIDE DEF states
<1>5. /\ \A k \in Nodes : ackQueue[k] \subseteq ackQueue'[k]
      /\ AckSeq(n) >= nextAckSeq[n - 1] => AckSeq(n) \in ackQueue'[n - 1]
      /\ \A k \in Nodes : \/ ackProcessor'[k] = states[k]
                          \/ states[k] = "wait" /\ ackProcessor'[k] = "scan"
  BY <1>2, <1>3, <1>4, BufferAckKept
<1>6. \A k \in Nodes \ {n} : Processing(k) <=> Processing(k)'
  BY <1>3, <1>5 DEF Processing
<1>7. HandsInv' /\ EventsKept'
  BY <1>1, EventsSideFrame DEF DeliveryInv
<1>8. TailKept'
  BY <1>1, <1>5 DEF DeliveryInv, TailKept
<1>9. AcksKept'
  <2>. SUFFICES ASSUME NEW k \in Nodes, NEW s \in Nat, k > 1,
                       nextAckSeq[k - 1] <= s, s < nextAckSeq[k]
                PROVE  Returned(k, s)'
    BY <1>1 DEF AcksKept
  <2>1. k - 1 \in Nodes
    OBVIOUS
  <2>2. Returned(k, s)
    BY DEF DeliveryInv, AcksKept
  <2>3. CASE k = n /\ s = AckSeq(n)
    BY <1>5, <2>3 DEF Returned
  <2>4. CASE ~(k = n /\ s = AckSeq(n))
    BY <1>1, <1>5, <1>6, <2>1, <2>2, <2>4 DEF Returned, AckSeq
  <2>. QED BY <2>3, <2>4
<1>10. QueuedInv' /\ WaitersInv'
  <2>1. 1 \in Nodes \ {n}
    BY <1>2
  <2>. QED BY <1>1, <1>6, <2>1 DEF DeliveryInv, QueuedInv, Queued, WaitersInv
<1>. QED BY <1>7, <1>8, <1>9, <1>10 DEF DeliveryInv

LEMMA AckTimesOutDelivers ==
  ASSUME IInv, DeliveryInv, NEW n \in Nodes, AckTimesOut(n)
  PROVE  DeliveryInv'
<1>. USE ChainAssumption DEF Nodes, Nil
<1>1. /\ ackProcessor[n] = "send" /\ ~IsHead(n)
      /\ ackProcessor' = [ackProcessor EXCEPT ![n] = "scan"]
      /\ lateAcks' = lateAcks \cup {[to |-> predecessor[n], seq |-> AckSeq(n)]}
      /\ UNCHANGED <<events, nextEventSeq, eventQueue, replicator, outgoing,
                     lateEvents, nextAckSeq, ackQueue, handler, channel>>
  BY DEF AckTimesOut, eventVars, clientVars
<1>2. predecessor[n] = n - 1 /\ n - 1 \in Nodes
  BY <1>1, AckedBehind
<1>3. \A k \in Nodes \ {n} : Processing(k) <=> Processing(k)'
  BY <1>1 DEF Processing, IInv, TypeOK, AckTypes
<1>4. HandsInv' /\ EventsKept' /\ TailKept'
  BY <1>1, EventsSideFrame DEF DeliveryInv, TailKept
<1>5. AcksKept'
  <2>1. ASSUME NEW k \in Nodes, NEW s \in Nat, Returned(k, s)
        PROVE  Returned(k, s)'
    <3>1. CASE k = n /\ s = AckSeq(n)
      <4>1. [to |-> n - 1, seq |-> s] \in lateAcks'
        BY <1>1, <1>2, <3>1
      <4>. QED BY <3>1, <4>1 DEF Returned
    <3>2. CASE ~(k = n /\ s = AckSeq(n))
      BY <1>1, <1>3, <2>1, <3>2 DEF Returned, AckSeq
    <3>. QED BY <3>1, <3>2
  <2>. QED BY <1>1, <2>1 DEF DeliveryInv, AcksKept
<1>6. QueuedInv' /\ WaitersInv'
  <2>1. 1 \in Nodes \ {n}
    BY <1>2
  <2>. QED BY <1>1, <1>3, <2>1 DEF DeliveryInv, QueuedInv, Queued, WaitersInv
<1>. QED BY <1>4, <1>5, <1>6 DEF DeliveryInv

LEMMA DeliverLateAckDelivers ==
  ASSUME IInv, DeliveryInv, NEW m \in lateAcks, DeliverLateAck(m)
  PROVE  DeliveryInv'
<1>. USE ChainAssumption DEF Nodes
<1>1. /\ BufferAck(m.to, m.seq, ackProcessor)
      /\ lateAcks' = lateAcks \ {m}
      /\ UNCHANGED <<events, nextEventSeq, eventQueue, replicator, outgoing,
                     lateEvents, nextAckSeq, handler, channel>>
  BY DEF DeliverLateAck, eventVars, clientVars
<1>2. /\ m.to \in Nodes /\ m.seq \in Nat /\ m.seq < nextEventSeq[m.to]
      /\ ackProcessor \in [Nodes -> AckProcessorStates]
  BY LateAckPassed DEF IInv, TypeOK, AckTypes
<1>3. /\ \A k \in Nodes : ackQueue[k] \subseteq ackQueue'[k]
      /\ m.seq >= nextAckSeq[m.to] => m.seq \in ackQueue'[m.to]
      /\ \A k \in Nodes : \/ ackProcessor'[k] = ackProcessor[k]
                          \/ ackProcessor[k] = "wait" /\ ackProcessor'[k] = "scan"
  BY <1>1, <1>2, BufferAckKept
<1>4. \A k \in Nodes : Processing(k) <=> Processing(k)'
  BY <1>3 DEF Processing
<1>5. HandsInv' /\ EventsKept'
  BY <1>1, EventsSideFrame DEF DeliveryInv
<1>6. TailKept'
  BY <1>1, <1>3 DEF DeliveryInv, TailKept
<1>7. AcksKept'
  <2>. SUFFICES ASSUME NEW k \in Nodes, NEW s \in Nat, k > 1,
                       nextAckSeq[k - 1] <= s, s < nextAckSeq[k]
                PROVE  Returned(k, s)'
    BY <1>1 DEF AcksKept
  <2>1. k - 1 \in Nodes
    OBVIOUS
  <2>2. Returned(k, s)
    BY DEF DeliveryInv, AcksKept
  <2>3. CASE m.to = k - 1 /\ m.seq = s
    BY <1>3, <2>3 DEF Returned
  <2>4. CASE ~(m.to = k - 1 /\ m.seq = s)
    BY <1>1, <1>3, <1>4, <2>1, <2>2, <2>4 DEF Returned
  <2>. QED BY <2>3, <2>4
<1>8. QueuedInv' /\ WaitersInv'
  BY <1>1, <1>4 DEF DeliveryInv, QueuedInv, Queued, WaitersInv
<1>. QED BY <1>5, <1>6, <1>7, <1>8 DEF DeliveryInv

-----------------------------------------------------------------------------
LEMMA NextDelivery == IInv /\ DeliveryInv /\ [Next]_vars => DeliveryInv'
<1>. SUFFICES ASSUME IInv, DeliveryInv, [Next]_vars PROVE DeliveryInv'
  OBVIOUS
<1>1. ASSUME NEW n \in Nodes, NEW w \in Writes, HandleWrite(n, w)
      PROVE  DeliveryInv'
  BY <1>1, HandleWriteDelivers
<1>2. ASSUME NEW w \in Writes, HandlerStep(w) PROVE DeliveryInv'
  BY <1>2, OpenAckChannelDelivers, BufferOwnEventDelivers DEF HandlerStep
<1>3. ASSUME NEW n \in Nodes, ReplicatorStep(n) PROVE DeliveryInv'
  BY <1>3, TakeNextEventDelivers, IdleReplicatorDelivers,
     ReplicateAtTailDelivers, ReplicateToSuccessorDelivers DEF ReplicatorStep
<1>4. ASSUME NEW n \in Nodes, AckProcessorStep(n) PROVE DeliveryInv'
  BY <1>4, TakeNextAckDelivers, AckProcessorDelivers, SignalAtHeadDelivers,
     AckToPredecessorDelivers DEF AckProcessorStep
<1>5. CASE Fault
  BY <1>5, ReplicateTimesOutDelivers, AckTimesOutDelivers,
     DeliverLateEventDelivers, DeliverLateAckDelivers DEF Fault
<1>6. CASE UNCHANGED vars
  BY <1>6, EventsSideFrame, AcksSideFrame, HandlersSideFrame
     DEF vars, DeliveryInv
<1>. QED BY <1>1, <1>2, <1>3, <1>4, <1>5, <1>6 DEF Next

(* Nothing is lost on its way, throughout. *)
THEOREM DeliveryInvariant == Spec => []DeliveryInv
BY InitDelivery, NextDelivery, InductiveInvariant, PTL DEF Spec

(* Nothing falls between two queues: whatever has passed a node's counter    *)
(* and not yet its neighbour's is in the node's hands, in the neighbour's    *)
(* queue or in an RPC that timed out (replicateNextEvents, processNextAcks). *)
THEOREM ChainForgetsNothing == Spec => []NothingForgotten
<1>1. ASSUME IInv, DeliveryInv PROVE NothingForgotten
  <2>. USE ChainAssumption DEF Nodes, Nil
  <2>1. \A k \in Nodes : nextEventSeq[k] \in Nat /\ nextAckSeq[k] \in Nat
    BY <1>1 DEF IInv, TypeOK, EventTypes, AckTypes
  <2>2. ASSUME NEW n \in Nodes, ~IsTail(n),
               NEW s \in nextEventSeq[successor[n]]..nextEventSeq[n] - 1
        PROVE  EventInTransit(n, s)
    <3>1. successor[n] = n + 1 /\ n < N /\ n + 1 \in Nodes
      BY <1>1, <2>2 DEF IsTail, IInv, StaticChain
    <3>2. s \in Nat /\ nextEventSeq[n + 1] <= s /\ s < nextEventSeq[n]
      BY <2>1, <3>1
    <3>3. Carried(n, s)
      BY <1>1, <3>1, <3>2 DEF DeliveryInv, EventsKept
    <3>. QED BY <3>1, <3>3 DEF EventInTransit, Carried
  <2>3. ASSUME NEW n \in Nodes, IsTail(n),
               NEW s \in nextAckSeq[n]..nextEventSeq[n] - 1
        PROVE  s \in ackQueue[n] \/ \E e \in outgoing[n] : e.seq = s
    <3>1. n = N
      BY <1>1, <2>3 DEF IsTail, IInv, StaticChain
    <3>2. s \in Nat /\ nextAckSeq[N] <= s /\ s < nextEventSeq[N]
      BY <2>1, <3>1
    <3>. QED BY <1>1, <3>1, <3>2 DEF DeliveryInv, TailKept
  <2>4. ASSUME NEW n \in Nodes, ~IsHead(n),
               NEW s \in nextAckSeq[predecessor[n]]..nextAckSeq[n] - 1
        PROVE  AckInTransit(n, s)
    <3>1. predecessor[n] = n - 1 /\ n > 1 /\ n - 1 \in Nodes
      BY <1>1, <2>4 DEF IsHead, IInv, StaticChain
    <3>2. s \in Nat /\ nextAckSeq[n - 1] <= s /\ s < nextAckSeq[n]
      BY <2>1, <3>1
    <3>3. Returned(n, s)
      BY <1>1, <3>1, <3>2 DEF DeliveryInv, AcksKept
    <3>. QED BY <3>1, <3>3 DEF AckInTransit, Returned, Processing, AckSeq
  <2>. QED BY <2>2, <2>3, <2>4 DEF NothingForgotten
<1>. QED BY <1>1, InductiveInvariant, DeliveryInvariant, PTL

(* No handler sleeps on a result that has come and gone: OpenAckChannel      *)
(* precedes bufferEvent, so SignalAckIfWaiting finds the channel.            *)
THEOREM WaitersAreServed == Spec => []WaitingIsNotInVain
<1>1. ASSUME IInv, DeliveryInv PROVE WaitingIsNotInVain
  <2>. SUFFICES ASSUME NEW w \in Writes, handler[w].pc = "waiting"
                PROVE  WaitsForSomething(w)
    BY DEF WaitingIsNotInVain
  <2>1. handler[w].node = 1
    BY <1>1 DEF IInv, HandlersInv
  <2>. QED BY <1>1, <2>1 DEF DeliveryInv, WaitersInv, WaitsForSomething, Processing,
                       AckSeq
<1>. QED BY <1>1, InductiveInvariant, DeliveryInvariant, PTL
=============================================================================
