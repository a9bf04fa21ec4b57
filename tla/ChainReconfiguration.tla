------------------------ MODULE ChainReconfiguration ------------------------
(***************************************************************************)
(* ChainReplication with a chain that changes: nodes crash, join at the    *)
(* TAIL and leave, and the control plane tells the neighbours.             *)
(*                                                                         *)
(* The control plane is its leader here: it has the chain, and one         *)
(* goroutine (a job) per pair of nodes to be reconnected, which calls      *)
(* SetPredecessor and then SetSuccessor.  SetPredecessor is done when it   *)
(* returns.  SetSuccessor only starts a goroutine at the node, which stops *)
(* the event replicator, installs the successor and synchronises with it.  *)
(***************************************************************************)
EXTENDS ChainReplication

CONSTANTS
  Initial,      \* nodes 1..Initial are the chain at the beginning
  MayCrash,     \* the nodes that may crash
  MayLeave,     \* the nodes that may be shut down
  MaxChanges    \* bound: how many nodes crash, leave or join

ASSUME ReconfigurationAssumption ==
  /\ Initial \in 1..N
  /\ MayCrash \subseteq Nodes /\ MayLeave \subseteq Nodes
  /\ MaxChanges \in Nat

VARIABLES
  chain,        \* cp.chain
  joined,       \* nodes 1..joined have been started
  stopped,      \* the nodes whose process has ended
  jobs,         \* the control plane's reconnectNeighbors goroutines
  pendingSyncs, \* SetSuccessor goroutines waiting for syncMu
  sync          \* the one that holds it, per node

reconfigurationVars == <<chain, joined, stopped, jobs, pendingSyncs, sync>>
allVars == <<vars, reconfigurationVars>>

NoSync == [pc |-> "idle", succ |-> Nil,
           ack |-> 0, lastAck |-> -1, event |-> 0, lastEvent |-> -1]

Sequence == Nat \cup {-1}

ReconfigurationTypes ==
  /\ chain \in Seq(Nodes)
  /\ joined \in Initial..N
  /\ stopped \subseteq Nodes
  /\ jobs \subseteq [pred : Nodes \cup {Nil}, succ : Nodes \cup {Nil},
                     epoch : Nat, pc : {"pred", "stopping", "succ"}]
  /\ pendingSyncs \subseteq [node : Nodes, succ : Nodes \cup {Nil}, epoch : Nat]
  /\ sync \in [Nodes -> [pc : {"idle", "stopping", "query", "sync"},
                         succ : Nodes \cup {Nil},
                         ack : Nat, lastAck : Sequence,
                         event : Nat, lastEvent : Sequence]]

ReconfigurationTypeOK == TypeOK /\ ReconfigurationTypes

InitReconfiguration ==
  /\ predecessor = [n \in Nodes |-> IF n <= Initial THEN n - 1 ELSE Nil]
  /\ successor = [n \in Nodes |-> IF n < Initial THEN n + 1 ELSE Nil]
  /\ EmptyNodes
  /\ NoRequests(Nodes \ 1..Initial)
  /\ chain = [n \in 1..Initial |-> n]
  /\ joined = Initial
  /\ stopped = {}
  /\ jobs = {}
  /\ pendingSyncs = {}
  /\ sync = [n \in Nodes |-> NoSync]

(* How often the chain has changed: tells apart goroutines started for the *)
(* same pair of nodes by different changes.                                *)
Epoch == 2 * joined - Len(chain)

(* A goroutine that makes pred and succ neighbours, about to begin. *)
Job(pred, succ) == [pred |-> pred, succ |-> succ, epoch |-> Epoch,
                    pc |-> IF succ = Nil THEN "succ" ELSE "pred"]

-----------------------------------------------------------------------------
(* The nodes and the control plane. *)

Departed == stopped \cup (1..joined \ ToSet(chain))

MayChange == Cardinality(Departed) + joined - Initial < MaxChanges

Crash(n) ==
  /\ n \notin down
  /\ n \in MayCrash \cap ToSet(chain)
  /\ MayChange
  /\ down' = down \cup {n}
  /\ stopped' = stopped \cup {n}
  /\ UNCHANGED <<neighbours, events, eventVars, ackVars, clientVars, faults,
                 chain, joined, jobs, pendingSyncs, sync>>

(* Shutdown calls UnregisterNode: the node is out of the chain and its     *)
(* neighbours will be reconnected, but it is still running ...             *)
Leave(n) ==
  /\ n \notin down
  /\ n \in MayLeave \cap ToSet(chain)
  /\ MayChange
  /\ LET i == CHOOSE k \in DOMAIN chain : chain[k] = n
         pred == IF i = 1 THEN Nil ELSE chain[i - 1]
         succ == IF i = Len(chain) THEN Nil ELSE chain[i + 1]
     IN  /\ chain' = RemoveAt(chain, i)
         /\ jobs' = IF pred = Nil /\ succ = Nil THEN jobs
                    ELSE jobs \cup {Job(pred, succ)}
  /\ UNCHANGED <<vars, joined, stopped, pendingSyncs, sync>>

(* ... until its gRPC server stops. *)
Stop(n) ==
  /\ n \notin down
  /\ n \notin ToSet(chain)
  /\ down' = down \cup {n}
  /\ stopped' = stopped \cup {n}
  /\ UNCHANGED <<neighbours, events, eventVars, ackVars, clientVars, faults,
                 chain, joined, jobs, pendingSyncs, sync>>

(* RegisterNode and NewServer: the new node is appended to the chain, the  *)
(* old TAIL, if it can be reached, is told its successor, and the new node *)
(* starts.                                                                 *)
Join(n) ==
  /\ n = joined + 1 /\ n \in Nodes
  /\ MayChange
  /\ joined' = n
  /\ chain' = Append(chain, n)
  /\ down' = down \ {n}
  /\ IF chain = <<>>
     THEN UNCHANGED <<predecessor, pendingSyncs>>
     ELSE /\ predecessor' = [predecessor EXCEPT ![n] = Last(chain)]
          /\ pendingSyncs' =
               IF Last(chain) \in down THEN pendingSyncs
               ELSE pendingSyncs \cup
                      {[node |-> Last(chain), succ |-> n, epoch |-> Epoch]}
  /\ UNCHANGED <<successor, events, eventVars, ackVars, clientVars, faults,
                 stopped, jobs, sync>>

(* Mutant: nothing is done about a TAIL that has died. *)
ReconnectionsUpToTail(old, dead) ==
  LET live == {i \in DOMAIN old : old[i] \notin dead}
      Gap(i, j) == \E k \in i + 1..j - 1 : k \notin live
      Adjacent(i, j) == i < j /\ \A k \in live : k <= i \/ j <= k
  IN  {Job(old[p[1]], old[p[2]]) : p \in
         {q \in live \X live : Adjacent(q[1], q[2]) /\ Gap(q[1], q[2])}}
      \cup {Job(Nil, old[i]) : i \in
         {k \in live : (\A j \in live : k <= j) /\ 1 \notin live}}

(* reconnectChain over the old chain, of which the nodes in dead have been *)
(* removed: one job across each gap.  A gap before the first live node is  *)
(* not closed by the job that makes it the HEAD, so it counts as a gap     *)
(* behind that node as well.                                               *)
Reconnections(old, dead) ==
  LET live == {i \in DOMAIN old : old[i] \notin dead}
      Gap(i, j) == \/ \E k \in i + 1..j - 1 : k \notin live
                   \/ i > 1 /\ \A k \in live : i <= k
      Adjacent(i, j) == i < j /\ \A k \in live : k <= i \/ j <= k
  IN  {Job(old[p[1]], old[p[2]]) : p \in
         {q \in live \X live : Adjacent(q[1], q[2]) /\ Gap(q[1], q[2])}}
      \cup {Job(old[i], Nil) : i \in
         {k \in live : (\A j \in live : j <= k) /\ Gap(k, Len(old) + 1)}}
      \cup {Job(Nil, old[i]) : i \in
         {k \in live : (\A j \in live : k <= j) /\ 1 \notin live}}

(* updateChain: the others, in their order. *)
Without(order, removed) ==
  LET kept == {i \in DOMAIN order : order[i] \notin removed}
      Rank(i) == Cardinality({j \in kept : j <= i})
  IN  [k \in 1..Cardinality(kept) |-> order[CHOOSE i \in kept : Rank(i) = k]]

(* monitorHeartbeats: nodes that have stopped are removed from the chain   *)
(* and their neighbours reconnected.                                       *)
RemoveDead(dead) ==
  /\ dead # {}
  /\ chain' = Without(chain, dead)
  /\ jobs' = jobs \cup Reconnections(chain, dead)
  /\ UNCHANGED <<vars, joined, stopped, pendingSyncs, sync>>

-----------------------------------------------------------------------------
(* reconnectNeighbors: SetPredecessor at job.succ, SetSuccessor at         *)
(* job.pred; an error of either is only logged.                            *)

MoveJob(j, pc) == jobs' = (jobs \ {j}) \cup {[j EXCEPT !.pc = pc]}

(* SetPredecessor takes ackGoroutineMu and cancels the ACK processor, which *)
(* leaves its select at once if it is there.                               *)
BeginSetPredecessor(j) ==
  /\ j.pc = "pred"
  /\ j.succ \notin down
  /\ \A k \in jobs : ~(k.pc = "stopping" /\ k.succ = j.succ)
  /\ ackProcessor' = [ackProcessor EXCEPT
                        ![j.succ] = IF @ = "wait" THEN "stopped" ELSE @]
  /\ MoveJob(j, "stopping")
  /\ UNCHANGED <<neighbours, events, eventVars, lastConfirmed, nextAckSeq,
                 ackQueue, applied, lateAcks, clientVars, faults, down,
                 chain, joined, stopped, pendingSyncs, sync>>

AckProcessorCancelled(n) == \E j \in jobs : j.pc = "stopping" /\ j.succ = n

(* Otherwise it stops when it next comes to the select. *)
StopAckProcessor(n) ==
  /\ n \notin down
  /\ AckProcessorCancelled(n)
  /\ ackProcessor[n] = "park"
  /\ ackProcessor' = [ackProcessor EXCEPT ![n] = "stopped"]
  /\ UNCHANGED <<neighbours, events, eventVars, lastConfirmed, nextAckSeq,
                 ackQueue, applied, lateAcks, clientVars, faults, down,
                 reconfigurationVars>>

(* setPredecessor, then the ACK processor is started again.  A new         *)
(* predecessor will send its events again, so the queue is cleared; a node *)
(* that becomes HEAD keeps its queue.                                      *)
InstallPredecessor(j) ==
  /\ j.pc = "stopping"
  /\ j.succ \notin down
  /\ ackProcessor[j.succ] = "stopped"
  /\ predecessor' = [predecessor EXCEPT ![j.succ] = j.pred]
  /\ eventQueue' = IF j.pred = Nil THEN eventQueue
                   ELSE [eventQueue EXCEPT ![j.succ] = {}]
  /\ ackProcessor' = [ackProcessor EXCEPT ![j.succ] = "scan"]
  /\ IF j.pred = Nil THEN jobs' = jobs \ {j} ELSE MoveJob(j, "succ")
  /\ UNCHANGED <<successor, events, nextEventSeq, replicator, outgoing,
                 lateEvents, lastConfirmed, nextAckSeq, ackQueue, applied,
                 lateAcks, clientVars, faults, down,
                 chain, joined, stopped, pendingSyncs, sync>>

SetPredecessorFails(j) ==
  /\ j.pc \in {"pred", "stopping"}
  /\ j.succ \in down
  /\ IF j.pred = Nil THEN jobs' = jobs \ {j} ELSE MoveJob(j, "succ")
  /\ UNCHANGED <<vars, chain, joined, stopped, pendingSyncs, sync>>

(* SetSuccessor returns as soon as its goroutine is started. *)
CallSetSuccessor(j) ==
  /\ j.pc = "succ"
  /\ jobs' = jobs \ {j}
  /\ pendingSyncs' =
       IF j.pred \in down THEN pendingSyncs
       ELSE pendingSyncs \cup
              {[node |-> j.pred, succ |-> j.succ, epoch |-> j.epoch]}
  /\ UNCHANGED <<vars, chain, joined, stopped, sync>>

-----------------------------------------------------------------------------
(* The SetSuccessor goroutine of node n. *)

BeginSync(s) ==
  /\ s.node \notin down
  /\ sync[s.node].pc = "idle"
  /\ pendingSyncs' = pendingSyncs \ {s}
  /\ sync' = [sync EXCEPT
                ![s.node] = [NoSync EXCEPT !.pc = "stopping", !.succ = s.succ]]
  /\ replicator' = [replicator EXCEPT
                      ![s.node] = IF @ = "wait" THEN "stopped" ELSE @]
  /\ UNCHANGED <<neighbours, events, nextEventSeq, eventQueue, outgoing,
                 lateEvents, ackVars, clientVars, faults, down,
                 chain, joined, stopped, jobs>>

StopReplicator(n) ==
  /\ n \notin down
  /\ sync[n].pc = "stopping"
  /\ replicator[n] = "park"
  /\ replicator' = [replicator EXCEPT ![n] = "stopped"]
  /\ UNCHANGED <<neighbours, events, nextEventSeq, eventQueue, outgoing,
                 lateEvents, ackVars, clientVars, faults, down,
                 reconfigurationVars>>

(* Mutant: a new TAIL leaves what it has received to its old successor. *)
InstallSuccessorWithoutAcks(n) ==
  /\ n \notin down
  /\ sync[n].pc = "stopping"
  /\ replicator[n] = "stopped"
  /\ successor' = [successor EXCEPT ![n] = sync[n].succ]
  /\ sync' = [sync EXCEPT
       ![n].pc = IF sync[n].succ # Nil THEN "query" ELSE "sync"]
  /\ UNCHANGED <<predecessor, events, eventVars, ackVars, clientVars, faults,
                 down, chain, joined, stopped, jobs, pendingSyncs>>

(* setSuccessor; a node without a successor goes on to acknowledge         *)
(* everything it has received (applyAllUnacknowledgedEvents).              *)
InstallSuccessor(n) ==
  /\ n \notin down
  /\ sync[n].pc = "stopping"
  /\ replicator[n] = "stopped"
  /\ successor' = [successor EXCEPT ![n] = sync[n].succ]
  /\ sync' = [sync EXCEPT ![n] =
       IF sync[n].succ # Nil
       THEN [@ EXCEPT !.pc = "query"]
       ELSE [@ EXCEPT !.pc = "sync", !.ack = lastConfirmed[n] + 1,
                      !.lastAck = Len(events[n]) - 1]]
  /\ UNCHANGED <<predecessor, events, eventVars, ackVars, clientVars, faults,
                 down, chain, joined, stopped, jobs, pendingSyncs>>

(* Mutant: everything received is taken for confirmed, as at a TAIL. *)
QuerySuccessorAcksAll(n) ==
  /\ n \notin down
  /\ sync[n].pc = "query"
  /\ LET m == sync[n].succ IN
     /\ m \notin down
     /\ sync' = [sync EXCEPT ![n] =
          [@ EXCEPT !.pc = "sync",
             !.ack = lastConfirmed[n] + 1, !.lastAck = Len(events[n]) - 1,
             !.event = Len(events[m]), !.lastEvent = Len(events[n]) - 1]]
  /\ UNCHANGED <<vars, chain, joined, stopped, jobs, pendingSyncs>>

(* Mutant: the number of events is taken for the number of the last one. *)
QuerySuccessorOffByOne(n) ==
  /\ n \notin down
  /\ sync[n].pc = "query"
  /\ LET m == sync[n].succ IN
     /\ m \notin down
     /\ sync' = [sync EXCEPT ![n] =
          [@ EXCEPT !.pc = "sync",
             !.ack = lastConfirmed[n] + 1, !.lastAck = lastConfirmed[m] + 1,
             !.event = Len(events[m]), !.lastEvent = Len(events[n]) - 1]]
  /\ UNCHANGED <<vars, chain, joined, stopped, jobs, pendingSyncs>>

(* Mutant: the first missing event is not sent. *)
QuerySuccessorSkipsOne(n) ==
  /\ n \notin down
  /\ sync[n].pc = "query"
  /\ LET m == sync[n].succ IN
     /\ m \notin down
     /\ sync' = [sync EXCEPT ![n] =
          [@ EXCEPT !.pc = "sync",
             !.ack = lastConfirmed[n] + 1, !.lastAck = lastConfirmed[m],
             !.event = Len(events[m]) + 1, !.lastEvent = Len(events[n]) - 1]]
  /\ UNCHANGED <<vars, chain, joined, stopped, jobs, pendingSyncs>>

(* GetLastSequenceNumbers at the successor: catch up with what it has      *)
(* confirmed, then send what it has not received.                          *)
QuerySuccessor(n) ==
  /\ n \notin down
  /\ sync[n].pc = "query"
  /\ LET m == sync[n].succ IN
     /\ m \notin down
     /\ sync' = [sync EXCEPT ![n] =
          [@ EXCEPT !.pc = "sync",
             !.ack = lastConfirmed[n] + 1, !.lastAck = lastConfirmed[m],
             !.event = Len(events[m]), !.lastEvent = Len(events[n]) - 1]]
  /\ UNCHANGED <<vars, chain, joined, stopped, jobs, pendingSyncs>>

(* Mutant: the synchronisation applies the event by itself. *)
SyncAckApplies(n) ==
  /\ n \notin down
  /\ sync[n].pc = "sync"
  /\ sync[n].ack <= sync[n].lastAck
  /\ applied' = [applied EXCEPT ![n] = Append(@, events[n][sync[n].ack + 1])]
  /\ sync' = [sync EXCEPT ![n].ack = @ + 1]
  /\ UNCHANGED <<neighbours, events, eventVars, lastConfirmed, nextAckSeq,
                 ackQueue, ackProcessor, lateAcks, clientVars, faults, down,
                 chain, joined, stopped, jobs, pendingSyncs>>

(* handleEventAcknowledgment of the next event the successor has confirmed. *)
SyncAck(n) ==
  /\ n \notin down
  /\ sync[n].pc = "sync"
  /\ sync[n].ack <= sync[n].lastAck
  /\ BufferAck(n, sync[n].ack, ackProcessor)
  /\ sync' = [sync EXCEPT ![n].ack = @ + 1]
  /\ UNCHANGED <<neighbours, events, eventVars, lastConfirmed, nextAckSeq,
                 applied, lateAcks, clientVars, faults,
                 chain, joined, stopped, jobs, pendingSyncs>>

(* replicateEvent of a missing event; an error is only logged. *)
SyncEvent(n) ==
  /\ n \notin down
  /\ sync[n].pc = "sync"
  /\ sync[n].ack > sync[n].lastAck
  /\ sync[n].event <= sync[n].lastEvent
  /\ LET seq == sync[n].event
         e == [seq |-> seq, write |-> events[n][seq + 1]]
     IN  IF sync[n].succ \in down
         THEN UNCHANGED <<eventQueue, replicator>>
         ELSE BufferEvent(sync[n].succ, e, replicator)
  /\ sync' = [sync EXCEPT ![n].event = @ + 1]
  /\ UNCHANGED <<neighbours, events, nextEventSeq, outgoing, lateEvents,
                 ackVars, clientVars, faults, down,
                 chain, joined, stopped, jobs, pendingSyncs>>

(* The event replicator starts again: after the synchronisation, or after  *)
(* a successor that could not be asked.                                    *)
EndSync(n) ==
  /\ n \notin down
  /\ \/ sync[n].pc = "query" /\ sync[n].succ \in down
     \/ /\ sync[n].pc = "sync"
        /\ sync[n].ack > sync[n].lastAck
        /\ sync[n].event > sync[n].lastEvent
  /\ sync' = [sync EXCEPT ![n] = NoSync]
  /\ replicator' = [replicator EXCEPT ![n] = "scan"]
  /\ UNCHANGED <<neighbours, events, nextEventSeq, eventQueue, outgoing,
                 lateEvents, ackVars, clientVars, faults, down,
                 chain, joined, stopped, jobs, pendingSyncs>>

-----------------------------------------------------------------------------
(* RPCs between neighbours when the other one is gone: an error, logged. *)

ReplicateToDead(n) ==
  /\ n \notin down
  /\ replicator[n] = "send"
  /\ ~IsTail(n)
  /\ successor[n] \in down
  /\ outgoing' = [outgoing EXCEPT ![n] = {}]
  /\ replicator' = [replicator EXCEPT ![n] = "scan"]
  /\ UNCHANGED <<neighbours, events, nextEventSeq, eventQueue, lateEvents,
                 ackVars, clientVars, faults, down, reconfigurationVars>>

AckToDead(n) ==
  /\ n \notin down
  /\ ackProcessor[n] = "send"
  /\ ~IsHead(n)
  /\ predecessor[n] \in down
  /\ ackProcessor' = [ackProcessor EXCEPT ![n] = "scan"]
  /\ UNCHANGED <<neighbours, events, eventVars, lastConfirmed, nextAckSeq,
                 ackQueue, applied, lateAcks, clientVars, faults, down,
                 reconfigurationVars>>

(* The steps of the chain itself; a cancelled goroutine does not block. *)
ChainStep ==
  /\ \/ \E n \in Nodes, w \in Writes : HandleWrite(n, w)
     \/ \E w \in Writes : HandlerStep(w)
     \/ Fault
  /\ UNCHANGED reconfigurationVars

ReplicatorGoroutine(n) ==
  \/ /\ ReplicatorStep(n)
     /\ sync[n].pc = "stopping" => replicator[n] # "park"
     /\ UNCHANGED reconfigurationVars
  \/ ReplicateToDead(n)
  \/ StopReplicator(n)

AckProcessorGoroutine(n) ==
  \/ /\ AckProcessorStep(n)
     /\ AckProcessorCancelled(n) => ackProcessor[n] # "park"
     /\ UNCHANGED reconfigurationVars
  \/ AckToDead(n)
  \/ StopAckProcessor(n)

SyncGoroutine(n) ==
  \/ \E s \in pendingSyncs : s.node = n /\ BeginSync(s)
  \/ InstallSuccessor(n)
  \/ QuerySuccessor(n)
  \/ SyncAck(n)
  \/ SyncEvent(n)
  \/ EndSync(n)

JobStep(pred, succ) ==
  \E j \in jobs :
    /\ j.pred = pred /\ j.succ = succ
    /\ \/ BeginSetPredecessor(j)
       \/ InstallPredecessor(j)
       \/ SetPredecessorFails(j)
       \/ CallSetSuccessor(j)

Monitor == \E dead \in SUBSET (stopped \cap ToSet(chain)) : RemoveDead(dead)

Membership ==
  \/ \E n \in Nodes : Crash(n) \/ Leave(n) \/ Stop(n) \/ Join(n)
  \/ Monitor

NextReconfiguration ==
  \/ ChainStep
  \/ \E n \in Nodes : \/ ReplicatorGoroutine(n)
                      \/ AckProcessorGoroutine(n)
                      \/ SyncGoroutine(n)
  \/ \E p, s \in Nodes \cup {Nil} : JobStep(p, s)
  \/ Membership

ReconfigurationSpec == InitReconfiguration /\ [][NextReconfiguration]_allVars

(* Every goroutine that can run does, on the nodes and on the control      *)
(* plane, whose monitor has a ticker to wake it.                           *)
ReconfigurationFairness ==
  /\ \A w \in Writes :
       WF_allVars(HandlerStep(w) /\ UNCHANGED reconfigurationVars)
  /\ \A n \in Nodes : /\ WF_allVars(ReplicatorGoroutine(n))
                      /\ WF_allVars(AckProcessorGoroutine(n))
                      /\ WF_allVars(SyncGoroutine(n))
  /\ \A p, s \in Nodes \cup {Nil} : WF_allVars(JobStep(p, s))
  /\ WF_allVars(Monitor)

FairReconfigurationSpec == ReconfigurationSpec /\ ReconfigurationFairness

-----------------------------------------------------------------------------
(* Properties. *)

Live == {n \in Nodes : n \notin down}

(* No node that nobody crashed has died: not in a gap in AddEvent, not in  *)
(* AcknowledgeEvent, not in a nil event, however the old and the new       *)
(* neighbours' events, ACKs and synchronisations overlap.                  *)
OnlyCrashesKill == down = stopped \cup (Nodes \ 1..joined)

(* However many changes overlap, no node of the chain dies that has not    *)
(* crashed: an event it is sent leaves no gap in its buffer, and it is     *)
(* asked to confirm no event it does not have.  (A node that has left and  *)
(* is about to end is not spared: reconnections for the chain as it was    *)
(* may still send it ACKs of events that have passed it by.)               *)
MembersSurvive == ToSet(chain) \cap down \subseteq stopped

(* A client that has its answer keeps it when a node behind the HEAD goes: *)
(* every live node of the chain has the write where the HEAD put it,       *)
(* although what the dead node held was sent again and acknowledged by a   *)
(* synchronisation.  (A node that has joined is still being brought up to  *)
(* date.  When the HEAD goes, the new one may give the same number to      *)
(* another write: HeadSendsItsOwn.)                                        *)
AnsweredSurvives ==
  \A w \in Writes : handler[w].pc = "answered" =>
    \A n \in Live \cap ToSet(chain) \cap 1..Initial :
      /\ handler[w].seq < Len(events[n])
      /\ events[n][handler[w].seq + 1] = w

(* The storages of the live nodes are stages of one history, whatever was  *)
(* sent again, sent twice or acknowledged out of turn while the chain was  *)
(* being repaired.                                                         *)
StoragesAgree ==
  \A m, n \in Live :
    IsPrefix(applied[m], applied[n]) \/ IsPrefix(applied[n], applied[m])

(* server_replicate.go:81: what the HEAD replicates is what it had added   *)
(* to its buffer when it created the event.                                *)
HeadSendsItsOwn ==
  \A n \in Live : IsHead(n) =>
    \A e \in outgoing[n] : /\ e.seq < Len(events[n])
                           /\ events[n][e.seq + 1] = e.write

(* Reconfiguration has come to rest: no call to a node is under way and    *)
(* every node of the chain is alive.                                       *)
Settled ==
  /\ jobs = {} /\ pendingSyncs = {}
  /\ \A n \in Nodes : sync[n].pc = "idle"
  /\ ToSet(chain) \cap down = {}

(* Once a repair is over, the nodes' idea of the chain is the control      *)
(* plane's (control_heartbeat.go:142, reconnectChain "updates neighbor     *)
(* connections for nodes adjacent to removed nodes").                      *)
WiredAsChain ==
  Settled =>
    \A i \in DOMAIN chain :
      /\ predecessor[chain[i]] = IF i = 1 THEN Nil ELSE chain[i - 1]
      /\ successor[chain[i]] = IF i = Len(chain) THEN Nil ELSE chain[i + 1]

(* No goroutine has anything to do, and none is stranded. *)
AtRest ==
  /\ Settled
  /\ \A n \in ToSet(chain) :
       /\ replicator[n] = "wait" /\ ~ReplicatorStranded(n)
       /\ ackProcessor[n] = "wait" /\ ~AckProcessorStranded(n)
  /\ \A w \in Writes : handler[w].pc \notin {"created", "open"}

(* When a repaired chain comes to rest, nothing is left behind of what the *)
(* dead node had in its hands: every node of the chain has received and    *)
(* applied all that the HEAD has accepted.                                 *)
NothingLeftBehind ==
  AtRest => \A n \in ToSet(chain) : /\ events[n] = events[Head(chain)]
                                    /\ applied[n] = events[Head(chain)]

(* A write whose HEAD stays alive is answered although a node behind it    *)
(* crashes with the write in its hands: the synchronisation sends it again *)
(* or acknowledges it.  What can still keep the client waiting is a        *)
(* stranded goroutine, or a synchronisation that was faster than the       *)
(* handler, so that the result came before its channel was opened.         *)
AnsweredDespiteCrash ==
  \A w \in Writes :
    \/ handler[w].pc = "created" ~> handler[w].pc = "answered"
    \/ <>(handler[w].pc # "idle" /\ handler[w].node \in down)
    \/ <>[](\E n \in Live : ReplicatorStranded(n) \/ AckProcessorStranded(n))
    \/ <>[](handler[w].pc = "waiting" /\ ~WaitsForSomething(w))

(* A node that joins a chain with a history gets all of it: every answered *)
(* write reaches the storage of every node of the chain, from the old TAIL *)
(* by synchronisation, unless a goroutine is stranded.                     *)
JoinerCatchesUp ==
  \A w \in Writes, n \in Nodes :
    \/ (handler[w].pc = "answered" /\ n \in ToSet(chain)) ~>
         (w \in ToSet(applied[n]) \/ n \in down)
    \/ <>[](\E m \in Live : ReplicatorStranded(m) \/ AckProcessorStranded(m))
=============================================================================
