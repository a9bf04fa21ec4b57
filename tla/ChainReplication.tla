-------------------------- MODULE ChainReplication --------------------------
(***************************************************************************)
(* The replication chain of pkg/server with its neighbours in place.  A    *)
(* write enters at the HEAD, which numbers it; each node's event           *)
(* replicator goroutine hands it to the successor; at the TAIL it turns    *)
(* into an ACK, which each node's ACK processor goroutine confirms,        *)
(* applies to its storage and hands to the predecessor; at the HEAD it     *)
(* wakes the client's handler.                                             *)
(*                                                                         *)
(* One action is one critical section or one call.  An RPC that succeeds   *)
(* is one step, delivery and response together: the caller's goroutine is  *)
(* blocked meanwhile and looks at its queue again afterwards.  An RPC that *)
(* times out is only logged by the caller, and its handler may still run   *)
(* later or never (lateEvents, lateAcks).                                  *)
(***************************************************************************)
EXTENDS Integers, Sequences, SequencesExt

CONSTANTS
  N,            \* the number of nodes
  Writes,       \* the write requests; each is handled by one gRPC handler
  MaxFaults     \* bound: RPCs that time out

ASSUME ChainAssumption == N \in Nat \ {0} /\ MaxFaults \in Nat

Nodes == 1..N
Nil == 0                                    \* the nil neighbour
Event == [seq : Nat, write : Writes]        \* pb.Event

VARIABLES
  predecessor, successor,   \* n.predecessor, n.successor: a node or Nil
  events,                   \* eventBuffer.events: number s is at index s + 1
  lastConfirmed,            \* eventBuffer.lastConfirmed
  nextEventSeq, eventQueue, \* what the replicator sends next, what waits
  replicator,               \* where the event replicator goroutine is
  outgoing,                 \* the event it has taken and not yet sent
  nextAckSeq, ackQueue,     \* the same for ACKs, queued by their number
  ackProcessor,             \* where the ACK processor goroutine is
  applied,                  \* storage: the writes applied, in order
  handler,                  \* the gRPC handler of each write
  channel,                  \* the handler's buffered result channel
  lateEvents, lateAcks,     \* RPCs that timed out and may still be handled
  faults,                   \* how many RPCs have timed out
  down                      \* the processes that have stopped

eventVars == <<nextEventSeq, eventQueue, replicator, outgoing, lateEvents>>
ackVars == <<lastConfirmed, nextAckSeq, ackQueue, ackProcessor, applied,
             lateAcks>>
clientVars == <<handler, channel>>
neighbours == <<predecessor, successor>>
vars == <<predecessor, successor, events, lastConfirmed, nextEventSeq,
          eventQueue, replicator, outgoing, nextAckSeq, ackQueue,
          ackProcessor, applied, handler, channel, lateEvents, lateAcks,
          faults, down>>

HandlerStates == {"idle", "created", "open", "waiting", "answered"}
ReplicatorStates == {"scan", "send", "park", "wait", "stopped"}
AckProcessorStates ==
  {"scan", "confirm", "apply", "send", "park", "wait", "stopped"}

EventTypes ==
  /\ events \in [Nodes -> Seq(Writes)]
  /\ nextEventSeq \in [Nodes -> Nat]
  /\ eventQueue \in [Nodes -> SUBSET Event]
  /\ replicator \in [Nodes -> ReplicatorStates]
  /\ outgoing \in [Nodes -> SUBSET Event]
  /\ lateEvents \subseteq [to : Nodes, event : Event]

AckTypes ==
  /\ lastConfirmed \in [Nodes -> Nat \cup {-1}]
  /\ nextAckSeq \in [Nodes -> Nat]
  /\ ackQueue \in [Nodes -> SUBSET Nat]
  /\ ackProcessor \in [Nodes -> AckProcessorStates]
  /\ applied \in [Nodes -> Seq(Writes)]
  /\ lateAcks \subseteq [to : Nodes, seq : Nat]

ClientTypes ==
  /\ handler \in [Writes -> [pc : HandlerStates,
                             node : Nodes \cup {Nil}, seq : Nat]]
  /\ channel \in [Writes -> SUBSET Writes]

TypeOK ==
  /\ predecessor \in [Nodes -> Nodes \cup {Nil}]
  /\ successor \in [Nodes -> Nodes \cup {Nil}]
  /\ EventTypes
  /\ AckTypes
  /\ ClientTypes
  /\ faults \in 0..MaxFaults
  /\ down \subseteq Nodes

-----------------------------------------------------------------------------
(* NewServer: an empty node whose two goroutines are about to scan. *)
EmptyNodes ==
  /\ events = [n \in Nodes |-> <<>>]
  /\ lastConfirmed = [n \in Nodes |-> -1]
  /\ nextEventSeq = [n \in Nodes |-> 0]
  /\ eventQueue = [n \in Nodes |-> {}]
  /\ replicator = [n \in Nodes |-> "scan"]
  /\ outgoing = [n \in Nodes |-> {}]
  /\ nextAckSeq = [n \in Nodes |-> 0]
  /\ ackQueue = [n \in Nodes |-> {}]
  /\ ackProcessor = [n \in Nodes |-> "scan"]
  /\ applied = [n \in Nodes |-> <<>>]

NoRequests(absent) ==
  /\ handler = [w \in Writes |-> [pc |-> "idle", node |-> Nil, seq |-> 0]]
  /\ channel = [w \in Writes |-> {}]
  /\ lateEvents = {}
  /\ lateAcks = {}
  /\ faults = 0
  /\ down = absent

(* The chain 1 (HEAD), 2, ..., N (TAIL). *)
Init ==
  /\ predecessor = [n \in Nodes |-> n - 1]
  /\ successor = [n \in Nodes |-> IF n = N THEN Nil ELSE n + 1]
  /\ EmptyNodes
  /\ NoRequests({})

IsHead(n) == predecessor[n] = Nil
IsTail(n) == successor[n] = Nil

(* A notified goroutine leaves its select; one that is anywhere else, even *)
(* on its way to the select, misses the notification.                      *)
Woken(pc) == IF pc = "wait" THEN "scan" ELSE pc

(* Mutant: an event that finds the replicator busy is not queued. *)
BufferEventOnlyIfIdle(m, e, states) ==
  IF e.seq < nextEventSeq[m] \/ states[m] # "wait"
  THEN /\ replicator' = states
       /\ UNCHANGED eventQueue
  ELSE /\ eventQueue' = [eventQueue EXCEPT ![m] = @ \cup {e}]
       /\ replicator' = [states EXCEPT ![m] = Woken(@)]

(* bufferEvent of event e at node m; states are the replicators' states    *)
(* after the caller's own step.                                            *)
BufferEvent(m, e, states) ==
  IF e.seq < nextEventSeq[m]
  THEN /\ replicator' = states
       /\ UNCHANGED eventQueue
  ELSE /\ eventQueue' = [eventQueue EXCEPT
                           ![m] = {f \in @ : f.seq # e.seq} \cup {e}]
       /\ replicator' = [states EXCEPT ![m] = Woken(@)]

(* bufferAck of number seq at node m: the event must be in m's buffer, or  *)
(* a nil event is dereferenced and the process dies.                       *)
BufferAck(m, seq, states) ==
  IF seq < nextAckSeq[m]
  THEN /\ ackProcessor' = states
       /\ UNCHANGED <<ackQueue, down>>
  ELSE IF seq >= Len(events[m])
  THEN /\ down' = down \cup {m}
       /\ ackProcessor' = states
       /\ UNCHANGED ackQueue
  ELSE /\ ackQueue' = [ackQueue EXCEPT ![m] = @ \cup {seq}]
       /\ ackProcessor' = [states EXCEPT ![m] = Woken(@)]
       /\ UNCHANGED down

-----------------------------------------------------------------------------
(* The gRPC handler of a write at node n. *)

(* requireHead, then the Create...Event that numbers the write. *)
HandleWrite(n, w) ==
  /\ n \notin down
  /\ handler[w].pc = "idle"
  /\ IsHead(n)
  /\ events' = [events EXCEPT ![n] = Append(@, w)]
  /\ handler' = [handler EXCEPT
       ![w] = [pc |-> "created", node |-> n, seq |-> Len(events[n])]]
  /\ UNCHANGED <<neighbours, eventVars, ackVars, channel, faults, down>>

OpenAckChannel(w) ==
  /\ handler[w].pc = "created"
  /\ handler[w].node \notin down
  /\ handler' = [handler EXCEPT ![w].pc = "open"]
  /\ UNCHANGED <<neighbours, events, eventVars, ackVars, channel, faults,
                 down>>

(* Mutant: the event is numbered when it is queued, not when it is created. *)
BufferEventNumberedLate(w) ==
  /\ handler[w].pc = "open"
  /\ handler[w].node \notin down
  /\ handler' = [handler EXCEPT ![w].pc = "waiting"]
  /\ LET n == handler[w].node
         seq == nextEventSeq[n] + Cardinality(eventQueue[n])
     IN  BufferEvent(n, [seq |-> seq, write |-> w], replicator)
  /\ UNCHANGED <<neighbours, events, nextEventSeq, outgoing, lateEvents,
                 ackVars, channel, faults, down>>

(* handleEventReplication: the handler queues its own event. *)
BufferOwnEvent(w) ==
  /\ handler[w].pc = "open"
  /\ handler[w].node \notin down
  /\ handler' = [handler EXCEPT ![w].pc = "waiting"]
  /\ BufferEvent(handler[w].node,
                 [seq |-> handler[w].seq, write |-> w], replicator)
  /\ UNCHANGED <<neighbours, events, nextEventSeq, outgoing, lateEvents,
                 ackVars, channel, faults, down>>

(* Mutant: the handler does not wait for the ACK. *)
ReceiveNoResult(w) ==
  /\ handler[w].pc = "waiting"
  /\ handler' = [handler EXCEPT ![w].pc = "answered"]
  /\ UNCHANGED <<neighbours, events, eventVars, ackVars, channel, faults,
                 down>>

(* WaitForAck returns, the deferred CloseAckChannel runs, the client has   *)
(* its answer.                                                             *)
ReceiveResult(w) ==
  /\ handler[w].pc = "waiting"
  /\ handler[w].node \notin down
  /\ channel[w] # {}
  /\ handler' = [handler EXCEPT ![w].pc = "answered"]
  /\ UNCHANGED <<neighbours, events, eventVars, ackVars, channel, faults,
                 down>>

-----------------------------------------------------------------------------
(* The event replicator goroutine of node n. *)

(* Mutant: the replicator takes whatever is queued. *)
AnyQueuedEvents(n) == {e \in eventQueue[n] : e.seq >= nextEventSeq[n]}

(* The queued event the replicator looks for, if any. *)
NextEvents(n) == {e \in eventQueue[n] : e.seq = nextEventSeq[n]}

(* Take the next event off the queue and AddEvent it: an event the buffer  *)
(* has is not added again, one that leaves a gap is a panic.               *)
TakeNextEvent(n) ==
  /\ n \notin down
  /\ replicator[n] = "scan"
  /\ \E e \in NextEvents(n) :
       /\ eventQueue' = [eventQueue EXCEPT ![n] = @ \ {e}]
       /\ nextEventSeq' = [nextEventSeq EXCEPT ![n] = @ + 1]
       /\ outgoing' = [outgoing EXCEPT ![n] = {e}]
       /\ replicator' = [replicator EXCEPT ![n] = "send"]
       /\ events' = IF e.seq = Len(events[n])
                    THEN [events EXCEPT ![n] = Append(@, e.write)]
                    ELSE events
       /\ down' = IF e.seq > Len(events[n]) THEN down \cup {n} ELSE down
  /\ UNCHANGED <<neighbours, ackVars, clientVars, lateEvents, faults>>

(* Nothing to send: replicateNextEvents releases eventMu and returns ... *)
FindNoEvent(n) ==
  /\ n \notin down
  /\ replicator[n] = "scan"
  /\ NextEvents(n) = {}
  /\ replicator' = [replicator EXCEPT ![n] = "park"]
  /\ UNCHANGED <<neighbours, events, nextEventSeq, eventQueue, outgoing,
                 lateEvents, ackVars, clientVars, faults, down>>

(* ... and only then does the goroutine block on sendChan. *)
BlockReplicator(n) ==
  /\ n \notin down
  /\ replicator[n] = "park"
  /\ replicator' = [replicator EXCEPT ![n] = "wait"]
  /\ UNCHANGED <<neighbours, events, nextEventSeq, eventQueue, outgoing,
                 lateEvents, ackVars, clientVars, faults, down>>

(* Mutant: every node acknowledges, not the TAIL alone. *)
ReplicateAtAnyNode(n) ==
  /\ n \notin down
  /\ replicator[n] = "send"
  /\ \E e \in outgoing[n] : BufferAck(n, e.seq, ackProcessor)
  /\ outgoing' = [outgoing EXCEPT ![n] = {}]
  /\ replicator' = [replicator EXCEPT ![n] = "scan"]
  /\ UNCHANGED <<neighbours, events, nextEventSeq, eventQueue, lateEvents,
                 lastConfirmed, nextAckSeq, applied, lateAcks, clientVars,
                 faults>>

(* replicateEvent at the TAIL: the event is acknowledged on the spot. *)
ReplicateAtTail(n) ==
  /\ n \notin down
  /\ replicator[n] = "send"
  /\ IsTail(n)
  /\ \E e \in outgoing[n] : BufferAck(n, e.seq, ackProcessor)
  /\ outgoing' = [outgoing EXCEPT ![n] = {}]
  /\ replicator' = [replicator EXCEPT ![n] = "scan"]
  /\ UNCHANGED <<neighbours, events, nextEventSeq, eventQueue, lateEvents,
                 lastConfirmed, nextAckSeq, applied, lateAcks, clientVars,
                 faults>>

(* replicateEvent elsewhere: the ReplicateEvent RPC succeeds. *)
ReplicateToSuccessor(n) ==
  /\ n \notin down
  /\ replicator[n] = "send"
  /\ ~IsTail(n)
  /\ successor[n] \notin down
  /\ \E e \in outgoing[n] :
       BufferEvent(successor[n], e, [replicator EXCEPT ![n] = "scan"])
  /\ outgoing' = [outgoing EXCEPT ![n] = {}]
  /\ UNCHANGED <<neighbours, events, nextEventSeq, lateEvents, ackVars,
                 clientVars, faults, down>>

(* Mutant: the TAIL, too, calls a successor. *)
ReplicateFromTailTimesOut(n) ==
  /\ n \notin down
  /\ replicator[n] = "send"
  /\ faults < MaxFaults
  /\ faults' = faults + 1
  /\ lateEvents' = lateEvents \cup
                   {[to |-> successor[n], event |-> e] : e \in outgoing[n]}
  /\ outgoing' = [outgoing EXCEPT ![n] = {}]
  /\ replicator' = [replicator EXCEPT ![n] = "scan"]
  /\ UNCHANGED <<neighbours, events, nextEventSeq, eventQueue, ackVars,
                 clientVars, down>>

(* The RPC times out, which is logged; the replicator goes on to the next  *)
(* event.                                                                  *)
ReplicateTimesOut(n) ==
  /\ n \notin down
  /\ replicator[n] = "send"
  /\ ~IsTail(n)
  /\ faults < MaxFaults
  /\ faults' = faults + 1
  /\ lateEvents' = lateEvents \cup
                   {[to |-> successor[n], event |-> e] : e \in outgoing[n]}
  /\ outgoing' = [outgoing EXCEPT ![n] = {}]
  /\ replicator' = [replicator EXCEPT ![n] = "scan"]
  /\ UNCHANGED <<neighbours, events, nextEventSeq, eventQueue, ackVars,
                 clientVars, down>>

(* The handler of a ReplicateEvent its caller has given up on runs. *)
DeliverLateEvent(m) ==
  /\ m.to \notin down
  /\ lateEvents' = lateEvents \ {m}
  /\ BufferEvent(m.to, m.event, replicator)
  /\ UNCHANGED <<neighbours, events, nextEventSeq, outgoing, ackVars,
                 clientVars, faults, down>>

-----------------------------------------------------------------------------
(* The ACK processor goroutine of node n. *)

(* The number being processed: the goroutine has already moved past it. *)
AckSeq(n) == nextAckSeq[n] - 1

TakeNextAck(n) ==
  /\ n \notin down
  /\ ackProcessor[n] = "scan"
  /\ nextAckSeq[n] \in ackQueue[n]
  /\ ackQueue' = [ackQueue EXCEPT ![n] = @ \ {nextAckSeq[n]}]
  /\ nextAckSeq' = [nextAckSeq EXCEPT ![n] = @ + 1]
  /\ ackProcessor' = [ackProcessor EXCEPT ![n] = "confirm"]
  /\ UNCHANGED <<neighbours, events, eventVars, lastConfirmed, applied,
                 lateAcks, clientVars, faults, down>>

FindNoAck(n) ==
  /\ n \notin down
  /\ ackProcessor[n] = "scan"
  /\ nextAckSeq[n] \notin ackQueue[n]
  /\ ackProcessor' = [ackProcessor EXCEPT ![n] = "park"]
  /\ UNCHANGED <<neighbours, events, eventVars, lastConfirmed, nextAckSeq,
                 ackQueue, applied, lateAcks, clientVars, faults, down>>

BlockAckProcessor(n) ==
  /\ n \notin down
  /\ ackProcessor[n] = "park"
  /\ ackProcessor' = [ackProcessor EXCEPT ![n] = "wait"]
  /\ UNCHANGED <<neighbours, events, eventVars, lastConfirmed, nextAckSeq,
                 ackQueue, applied, lateAcks, clientVars, faults, down>>

(* eventBuffer.AcknowledgeEvent: only the next number may be confirmed, an *)
(* older one is ignored, any other is a panic.                             *)
ConfirmAck(n) ==
  /\ n \notin down
  /\ ackProcessor[n] = "confirm"
  /\ ackProcessor' = [ackProcessor EXCEPT ![n] = "apply"]
  /\ IF AckSeq(n) <= lastConfirmed[n]
     THEN UNCHANGED <<lastConfirmed, down>>
     ELSE IF AckSeq(n) = lastConfirmed[n] + 1 /\ AckSeq(n) < Len(events[n])
     THEN /\ lastConfirmed' = [lastConfirmed EXCEPT ![n] = @ + 1]
          /\ UNCHANGED down
     ELSE /\ down' = down \cup {n}
          /\ UNCHANGED lastConfirmed
  /\ UNCHANGED <<neighbours, events, eventVars, nextAckSeq, ackQueue,
                 applied, lateAcks, clientVars, faults>>

(* applyEvent: the event reaches this node's storage. *)
Apply(n) ==
  /\ n \notin down
  /\ ackProcessor[n] = "apply"
  /\ applied' = [applied EXCEPT ![n] = Append(@, events[n][AckSeq(n) + 1])]
  /\ ackProcessor' = [ackProcessor EXCEPT ![n] = "send"]
  /\ UNCHANGED <<neighbours, events, eventVars, lastConfirmed, nextAckSeq,
                 ackQueue, lateAcks, clientVars, faults, down>>

(* Mutant: the result goes to every handler that waits. *)
AllHandlers(n) == {w \in Writes : handler[w].pc \in {"open", "waiting"}}

(* Mutant: the counter, already moved on, is taken for the event's number. *)
NextHandler(n) ==
  {w \in Writes : /\ handler[w].pc \in {"open", "waiting"}
                  /\ handler[w].node = n
                  /\ handler[w].seq = nextAckSeq[n]}

(* Who has a channel open for the number that node n has just processed. *)
AckedHandler(n) ==
  {w \in Writes : /\ handler[w].pc \in {"open", "waiting"}
                  /\ handler[w].node = n
                  /\ handler[w].seq = AckSeq(n)}

(* SignalAckIfWaiting at the HEAD: the result of applying the event goes   *)
(* to the handler with a channel for its number, if there is one.          *)
SignalAtHead(n) ==
  /\ n \notin down
  /\ ackProcessor[n] = "send"
  /\ IsHead(n)
  /\ channel' = [w \in Writes |->
       IF w \in AckedHandler(n)
       THEN channel[w] \cup {events[n][AckSeq(n) + 1]}
       ELSE channel[w]]
  /\ ackProcessor' = [ackProcessor EXCEPT ![n] = "scan"]
  /\ UNCHANGED <<neighbours, events, eventVars, lastConfirmed, nextAckSeq,
                 ackQueue, applied, lateAcks, handler, faults, down>>

(* The AcknowledgeEvent RPC to the predecessor succeeds. *)
AckToPredecessor(n) ==
  /\ n \notin down
  /\ ackProcessor[n] = "send"
  /\ ~IsHead(n)
  /\ predecessor[n] \notin down
  /\ BufferAck(predecessor[n], AckSeq(n),
               [ackProcessor EXCEPT ![n] = "scan"])
  /\ UNCHANGED <<neighbours, events, eventVars, lastConfirmed, nextAckSeq,
                 applied, lateAcks, clientVars, faults>>

AckTimesOut(n) ==
  /\ n \notin down
  /\ ackProcessor[n] = "send"
  /\ ~IsHead(n)
  /\ faults < MaxFaults
  /\ faults' = faults + 1
  /\ lateAcks' = lateAcks \cup {[to |-> predecessor[n], seq |-> AckSeq(n)]}
  /\ ackProcessor' = [ackProcessor EXCEPT ![n] = "scan"]
  /\ UNCHANGED <<neighbours, events, eventVars, lastConfirmed, nextAckSeq,
                 ackQueue, applied, clientVars, down>>

DeliverLateAck(m) ==
  /\ m.to \notin down
  /\ lateAcks' = lateAcks \ {m}
  /\ BufferAck(m.to, m.seq, ackProcessor)
  /\ UNCHANGED <<neighbours, events, eventVars, lastConfirmed, nextAckSeq,
                 applied, clientVars, faults>>

-----------------------------------------------------------------------------
ReplicatorStep(n) ==
  \/ TakeNextEvent(n)
  \/ FindNoEvent(n)
  \/ BlockReplicator(n)
  \/ ReplicateAtTail(n)
  \/ ReplicateToSuccessor(n)

AckProcessorStep(n) ==
  \/ TakeNextAck(n)
  \/ FindNoAck(n)
  \/ BlockAckProcessor(n)
  \/ ConfirmAck(n)
  \/ Apply(n)
  \/ SignalAtHead(n)
  \/ AckToPredecessor(n)

HandlerStep(w) ==
  \/ OpenAckChannel(w)
  \/ BufferOwnEvent(w)
  \/ ReceiveResult(w)

Fault ==
  \/ \E n \in Nodes : ReplicateTimesOut(n) \/ AckTimesOut(n)
  \/ \E m \in lateEvents : DeliverLateEvent(m)
  \/ \E m \in lateAcks : DeliverLateAck(m)

Next ==
  \/ \E n \in Nodes, w \in Writes : HandleWrite(n, w)
  \/ \E w \in Writes : HandlerStep(w)
  \/ \E n \in Nodes : ReplicatorStep(n) \/ AckProcessorStep(n)
  \/ Fault

Spec == Init /\ [][Next]_vars

-----------------------------------------------------------------------------
(* Properties. *)

(* Events travel from the HEAD towards the TAIL, in the HEAD's order: a    *)
(* node's buffer is the beginning of its predecessor's (AddEvent's gap     *)
(* check and bufferEvent's queue by number).                               *)
BuffersFollowHead ==
  \A n \in Nodes : ~IsTail(n) => IsPrefix(events[successor[n]], events[n])

(* ACKs travel the other way: a node applies to its storage only what its  *)
(* successor has applied, so the TAIL, which serves the reads, is ahead of *)
(* everybody, and all storages are stages of one history.                  *)
AppliedDownstreamFirst ==
  \A n \in Nodes :
    IF IsTail(n) THEN IsPrefix(applied[n], events[n])
                 ELSE IsPrefix(applied[n], applied[successor[n]])

(* A client is answered only when every node has applied its write, and at *)
(* the place the HEAD gave it: any one surviving node keeps the write, and *)
(* a read at the TAIL sees it.                                             *)
AnsweredIsEverywhere ==
  \A w \in Writes : handler[w].pc = "answered" =>
    \A n \in Nodes : /\ handler[w].seq < Len(applied[n])
                     /\ applied[n][handler[w].seq + 1] = w

(* The result a handler is given is that of its own request, although      *)
(* channels are found by event number only.                                *)
OwnResult == \A w \in Writes : channel[w] \subseteq {w}

(* No run drives a process into one of the panics of AddEvent and          *)
(* AcknowledgeEvent, or into the nil event of bufferAck, whatever RPC      *)
(* times out, is repeated to a node that moved on, or arrives late.        *)
NeverPanics == down = {}

(* Where event number s may be between node n's replicator and the next    *)
(* one's: in hand, queued there, or in an RPC that timed out.              *)
EventInTransit(n, s) ==
  \/ \E e \in outgoing[n] : e.seq = s
  \/ \E e \in eventQueue[successor[n]] : e.seq = s
  \/ \E m \in lateEvents : m.to = successor[n] /\ m.event.seq = s

(* Likewise for an ACK on its way from node n to its predecessor. *)
AckInTransit(n, s) ==
  \/ ackProcessor[n] \in {"confirm", "apply", "send"} /\ AckSeq(n) = s
  \/ s \in ackQueue[predecessor[n]]
  \/ \E m \in lateAcks : m.to = predecessor[n] /\ m.seq = s

(* A goroutine that removes an event or an ACK from its queue and moves    *)
(* its counter past it answers for it: the next hop has it, or it is in    *)
(* hand, or an RPC timed out with it.  Nothing falls between the queues.   *)
NothingForgotten ==
  \A n \in Nodes :
    /\ ~IsTail(n) => \A s \in nextEventSeq[successor[n]]..nextEventSeq[n] - 1 :
                       EventInTransit(n, s)
    /\ IsTail(n) => \A s \in nextAckSeq[n]..nextEventSeq[n] - 1 :
                      s \in ackQueue[n] \/ \E e \in outgoing[n] : e.seq = s
    /\ ~IsHead(n) => \A s \in nextAckSeq[predecessor[n]]..nextAckSeq[n] - 1 :
                       AckInTransit(n, s)

(* The event of write w is still ahead of the HEAD's ACK processor or in   *)
(* its hands, or its result is in the channel.                             *)
WaitsForSomething(w) ==
  LET n == handler[w].node IN
  \/ handler[w].seq >= nextAckSeq[n]
  \/ handler[w].seq = AckSeq(n) /\ ackProcessor[n] \in {"confirm", "apply", "send"}
  \/ channel[w] # {}

(* No handler waits for a result that has come and gone: opening the       *)
(* channel before queueing the event is what makes this true.              *)
WaitingIsNotInVain ==
  \A w \in Writes : handler[w].pc = "waiting" => WaitsForSomething(w)

(* The chain keeps the promise of CommittedLog: the HEAD's buffer is the   *)
(* order, the TAIL's storage is what readers see.                          *)
Committed == INSTANCE CommittedLog WITH
  log <- events[1],
  visible <- applied[N],
  answered <- {w \in Writes : handler[w].pc = "answered"}

ImplementsCommittedLog == Committed!Spec

(* A goroutine that is blocked in its select while its queue holds what it *)
(* is waiting for: the notification came before the select.                *)
ReplicatorStranded(n) == replicator[n] = "wait" /\ NextEvents(n) # {}
AckProcessorStranded(n) ==
  ackProcessor[n] = "wait" /\ nextAckSeq[n] \in ackQueue[n]
=============================================================================
