---------------------------- MODULE ControlPlane ----------------------------
(***************************************************************************)
(* The control plane: servers that replicate the chain's membership        *)
(* through Raft, the nodes that register and unregister with them, and the *)
(* goroutines that wire the nodes as the chain.                            *)
(*                                                                         *)
(* Raft is a library.  A command that reaches the newest leader is in the  *)
(* log for good, one that reaches a leader that has been replaced without  *)
(* knowing it is lost, and a handler that waits for its command when its   *)
(* server ceases to be leader gets an error in either case.  Every server  *)
(* applies the log in order, when it gets to it.                           *)
(***************************************************************************)
EXTENDS Integers, FiniteSets, SequencesExt

CONSTANTS
  Servers,       \* the control plane's servers
  ServerList,    \* their addresses, in the order in which nodes try them
  Nodes,         \* the chain's nodes
  Initial,       \* the nodes registered at the beginning, HEAD first
  Nil,           \* no node
  MayCrash,      \* nodes that may crash
  MayLeave,      \* nodes that may be shut down
  MaySuspect,    \* running nodes whose heartbeats may stay away too long
  MaxEvents      \* bound: what happens to the control plane from outside

ASSUME ControlPlaneAssumption ==
  /\ ServerList \in Seq(Servers) /\ ToSet(ServerList) = Servers
  /\ Initial \in Seq(Nodes) /\ IsInjective(Initial)
  /\ Nil \notin Nodes
  /\ MayCrash \subseteq Nodes /\ MayLeave \subseteq Nodes
  /\ MaySuspect \subseteq Nodes
  /\ MaxEvents \in Nat

VARIABLES
  log,        \* the committed Raft log
  term,       \* how many leaders there have been
  leads,      \* the term a server takes itself for the leader of, 0 for none
  downServers,\* servers that have crashed
  panicked,   \* those of them that crashed by a panic
  replica,    \* a server's state machine: cp.chain, cp.nodes, ...
  snapshot,   \* the snapshot being taken, or taken
  handlers,   \* goroutines that wait for a command or act on its result
  jobs,       \* reconnectNeighbors goroutines
  member,     \* the nodes' processes: state, request under way, neighbours
  answerLost, \* history: nodes whose registration got an error for an answer
  disturbed   \* history: a change met another one, or lost its server

raftVars == <<log, term, leads, downServers, panicked>>
historyVars == <<answerLost, disturbed>>
vars == <<raftVars, replica, snapshot, handlers, jobs, member, historyVars>>

-----------------------------------------------------------------------------
(* The state machine.  A result has a pred and a succ; for a subscription, *)
(* pred is the node chosen.                                                *)

Command(op, ids) == [op |-> op, ids |-> ids]
Ops == {"register", "unregister", "update", "subscribe"}

Failed == [ok |-> FALSE, pred |-> Nil, succ |-> Nil]
Result(pred, succ) == [ok |-> TRUE, pred |-> pred, succ |-> succ]

TheId(c) == CHOOSE n \in c.ids : TRUE

getTail(r) == IF r.chain = <<>> THEN Nil ELSE Last(r.chain)

getHead(r) == IF r.chain = <<>> THEN Nil ELSE Head(r.chain)

appendNode(r, n) ==
  [r EXCEPT !.chain = Append(@, n), !.nodes = @ \cup {n}]

findNodeIndex(r, n) ==
  IF n \in ToSet(r.chain)
  THEN CHOOSE i \in DOMAIN r.chain :
         r.chain[i] = n /\ \A k \in 1..i - 1 : r.chain[k] # n
  ELSE 0

removeNode(r, i) ==
  [r EXCEPT !.chain = RemoveAt(@, i), !.nodes = @ \ {r.chain[i]}]

(* Mutant: the new node is entered before it is looked up. *)
registerNodeFirst(r, n) == [state |-> appendNode(r, n), result |-> Failed]

registerNode(r, n) ==
  IF n \in r.nodes
  THEN [state |-> r, result |-> Failed]
  ELSE [state |-> appendNode(r, n), result |-> Result(getTail(r), Nil)]

unregisterNode(r, n) ==
  LET i == findNodeIndex(r, n) IN
  IF i = 0
  THEN [state |-> r, result |-> Failed]
  ELSE [state |-> removeNode(r, i),
        result |-> Result(IF i = 1 THEN Nil ELSE r.chain[i - 1],
                          IF i = Len(r.chain) THEN Nil ELSE r.chain[i + 1])]

(* The chain without some nodes: what is kept, in the order it was in. *)
Without(chain, ids) ==
  LET kept == {i \in DOMAIN chain : chain[i] \notin ids}
      Rank(i) == Cardinality({j \in kept : j <= i})
  IN  [k \in 1..Cardinality(kept) |-> chain[CHOOSE i \in kept : Rank(i) = k]]

updateChain(r, ids) ==
  [state |-> [r EXCEPT !.chain = Without(r.chain, ids),
                       !.nodes = @ \ (ids \cap ToSet(r.chain))],
   result |-> Result(Nil, Nil)]

(* Mutant: modulo and increment the other way round. *)
NextIndexUnwrapped(r) == (r.lastControlIndex % Len(r.chain)) + 1

NextIndex(r) == (r.lastControlIndex + 1) % Len(r.chain)

(* Round robin over the chain; the index counts from 0. *)
getSubscriptionNode(r) ==
  IF r.nodes = {}
  THEN [state |-> r, result |-> Failed]
  ELSE [state |-> [r EXCEPT !.lastControlIndex = NextIndex(r)],
        result |-> Result(r.chain[NextIndex(r) + 1], Nil)]

Executed(r, c) ==
  CASE c.op = "register"   -> registerNode(r, TheId(c))
    [] c.op = "unregister" -> unregisterNode(r, TheId(c))
    [] c.op = "update"     -> updateChain(r, c.ids)
    [] c.op = "subscribe"  -> getSubscriptionNode(r)

(* What a replica whose chain and nodes do not match dereferences or       *)
(* divides by: the tail's NodeInfo, the removed node's, the chain's length.*)
Panics(r, c) ==
  \/ /\ c.op = "register" /\ TheId(c) \notin r.nodes
     /\ r.chain # <<>> /\ getTail(r) \notin r.nodes
  \/ /\ c.op = "unregister" /\ TheId(c) \in ToSet(r.chain)
     /\ TheId(c) \notin r.nodes
  \/ /\ c.op = "subscribe" /\ r.nodes # {}
     /\ ~(r.chain # <<>> /\ NextIndex(r) < Len(r.chain))

EmptyReplica ==
  [applied |-> 0, chain |-> <<>>, nodes |-> {}, lastControlIndex |-> 0]

NoSnapshot == [pc |-> "none", server |-> Nil, state |-> EmptyReplica,
               shared |-> FALSE, overwritten |-> FALSE]

-----------------------------------------------------------------------------
(* Types and the initial state. *)

Dead == {"stopped", "crashed", "refused"}

ControlPlaneTypeOK ==
  /\ \A i \in DOMAIN log : log[i].op \in Ops /\ log[i].ids \subseteq Nodes
  /\ term \in Nat \ {0}
  /\ leads \in [Servers -> 0..term]
  /\ panicked \subseteq downServers /\ downServers \subseteq Servers
  /\ \A s \in Servers :
       /\ replica[s].applied \in 0..Len(log)
       /\ replica[s].chain \in Seq(Nodes)
       /\ replica[s].nodes \subseteq Nodes
       /\ replica[s].lastControlIndex \in Nat
  /\ snapshot.pc \in {"none", "persisting", "stored"}
  /\ snapshot.server \in Servers \cup {Nil}
  /\ snapshot.state.chain \in Seq(Nodes)
  /\ \A h \in handlers :
       /\ h.op \in Ops /\ h.ids \subseteq Nodes /\ h.server \in Servers
       /\ h.index \in 0..Len(log)
       /\ h.pc = "raft" /\ h.index > 0 => replica[h.server].applied < h.index
       /\ h.pc \in {"raft", "applied", "call"}
       /\ {h.result.pred, h.result.succ} \subseteq Nodes \cup {Nil}
       /\ h.old \in Seq(Nodes)
  /\ \A j \in jobs :
       /\ j.server \in Servers /\ j.pc \in {"pred", "succ"}
       /\ {j.pred, j.succ} \subseteq Nodes \cup {Nil}
  /\ \A n \in Nodes :
       /\ member[n].pc \in Dead \cup {"new", "registering", "running",
                                      "leaving"}
       /\ member[n].waiting \in BOOLEAN
       /\ {member[n].predecessor, member[n].successor} \subseteq
            Nodes \cup {Nil}
  /\ answerLost \subseteq Nodes
  /\ disturbed \in BOOLEAN

(* The position of n in the initial chain. *)
Position(n) == CHOOSE i \in DOMAIN Initial : Initial[i] = n

Init ==
  /\ log = [i \in DOMAIN Initial |-> Command("register", {Initial[i]})]
  /\ term = 1
  /\ leads = [s \in Servers |-> IF s = Head(ServerList) THEN 1 ELSE 0]
  /\ downServers = {} /\ panicked = {}
  /\ replica = [s \in Servers |->
                  [applied |-> Len(Initial), chain |-> Initial,
                   nodes |-> ToSet(Initial), lastControlIndex |-> 0]]
  /\ snapshot = NoSnapshot
  /\ handlers = {} /\ jobs = {}
  /\ member = [n \in Nodes |->
       IF n \in ToSet(Initial)
       THEN [pc |-> "running", toTry |-> <<>>, waiting |-> FALSE,
             predecessor |-> IF Position(n) = 1 THEN Nil
                             ELSE Initial[Position(n) - 1],
             successor |-> IF Position(n) = Len(Initial) THEN Nil
                           ELSE Initial[Position(n) + 1]]
       ELSE [pc |-> "new", toTry |-> <<>>, waiting |-> FALSE,
             predecessor |-> Nil, successor |-> Nil]]
  /\ answerLost = {}
  /\ disturbed = FALSE

-----------------------------------------------------------------------------
(* Raft. *)

IsLeader(s) == s \notin downServers /\ leads[s] > 0

(* Mutant: the command's place in the log is one too far. *)
HandlerOffByOne(s, op, ids, old) ==
  [op |-> op, ids |-> ids, server |-> s, pc |-> "raft", result |-> Failed,
   index |-> IF leads[s] = term THEN Len(log) + 2 ELSE 0, old |-> old]

(* A handler that has put its command to Raft.  Only the newest leader's   *)
(* command gets a place in the log.                                        *)
Handler(s, op, ids, old) ==
  [op |-> op, ids |-> ids, server |-> s, pc |-> "raft", result |-> Failed,
   index |-> IF leads[s] = term THEN Len(log) + 1 ELSE 0, old |-> old]

(* A change of the chain is under way: a handler or a goroutine is about   *)
(* it, or a leader has not applied all of the log yet and would act on an  *)
(* old chain.                                                              *)
ChangeUnderWay ==
  \/ jobs # {}
  \/ \E h \in handlers : h.op # "subscribe"
  \/ \E s \in Servers : IsLeader(s) /\ replica[s].applied < Len(log)

Propose(s, op, ids, old) ==
  /\ handlers' = handlers \cup {Handler(s, op, ids, old)}
  /\ log' = IF leads[s] = term THEN Append(log, Command(op, ids)) ELSE log
  /\ disturbed' = (disturbed \/ (op # "subscribe" /\ ChangeUnderWay))
  /\ UNCHANGED <<term, leads, downServers, panicked>>

(* Handlers that hold cp.mu for reading while they call a node keep those  *)
(* out that want it for writing.                                           *)
Locked(s) == \E h \in handlers : h.server = s /\ h.pc = "call"

Leaderless == \A s \in Servers : leads[s] # term

(* Nodes started, shut down or crashed, leaders replaced, servers crashed,  *)
(* requests for a subscription node, a snapshot, running nodes removed.    *)
Events ==
  Cardinality({n \in Nodes \ ToSet(Initial) : member[n].pc # "new"})
  + Cardinality({n \in Nodes : member[n].pc \in {"leaving", "stopped", "crashed"}})
  + term - 1 + (IF Leaderless THEN 1 ELSE 0) + Cardinality(downServers)
  + Cardinality({i \in DOMAIN log : log[i].op = "subscribe"})
  + Cardinality({h \in handlers : h.op = "subscribe" /\ h.index = 0})
  + (IF snapshot = NoSnapshot THEN 0 ELSE 1)
  + Cardinality({n \in MaySuspect :
       \/ \E i \in DOMAIN log : log[i].op = "update" /\ n \in log[i].ids
       \/ \E h \in handlers : h.op = "update" /\ n \in h.ids})

MayHappen == Events < MaxEvents

Elect(s) ==
  /\ s \notin downServers
  /\ leads[s] = 0
  /\ Leaderless \/ MayHappen
  /\ term' = term + 1
  /\ leads' = [leads EXCEPT ![s] = term + 1]
  /\ UNCHANGED <<log, downServers, panicked, replica, snapshot, handlers,
                 jobs, member, historyVars>>

(* The nodes whose request was being handled by one of the handlers gone   *)
(* get an error that makes them go on to the next server.                  *)
Callers(gone) ==
  {n \in Nodes : member[n].waiting /\ \E h \in gone :
     h.ids = {n} /\ h.op \in {"register", "unregister"}}

Disconnect(gone, goroutines) ==
  /\ member' = [n \in Nodes |->
       [member[n] EXCEPT !.waiting = @ /\ n \notin Callers(gone)]]
  /\ answerLost' = answerLost \cup
       {n \in Callers(gone) : member[n].pc = "registering"}
  /\ disturbed' = (\/ disturbed
                   \/ goroutines # {}
                   \/ \E h \in gone : h.op # "subscribe")

(* A leader that learns of a newer one, or loses its followers: whoever    *)
(* waits for a command gets an error.  The heartbeat monitor only logs it  *)
(* and goes on.                                                            *)
StepDown(s) ==
  LET gone == {h \in handlers : h.server = s /\ h.pc = "raft"}
      monitors == {h \in gone : h.op = "update"}
  IN  /\ IsLeader(s)
      /\ leads[s] = term => MayHappen
      /\ leads' = [leads EXCEPT ![s] = 0]
      /\ handlers' = (handlers \ gone) \cup
                       {[h EXCEPT !.pc = "applied"] : h \in monitors}
      /\ Disconnect(gone, {})
      /\ UNCHANGED <<log, term, downServers, panicked, replica, snapshot, jobs>>

(* A server's process ends, with its handlers and goroutines. *)
EndServer(s) ==
  LET gone == {h \in handlers : h.server = s}
      mine == {j \in jobs : j.server = s}
  IN  /\ downServers' = downServers \cup {s}
      /\ leads' = [leads EXCEPT ![s] = 0]
      /\ handlers' = handlers \ gone
      /\ jobs' = jobs \ mine
      /\ Disconnect(gone, mine)
      /\ snapshot' = IF snapshot.server = s /\ snapshot.pc = "persisting"
                     THEN NoSnapshot ELSE snapshot
      /\ UNCHANGED <<log, term, replica>>

CrashServer(s) ==
  /\ s \notin downServers
  /\ MayHappen
  /\ EndServer(s)
  /\ UNCHANGED panicked

-----------------------------------------------------------------------------
(* Applying the log, and snapshots. *)

(* removeNode moves the tail of the chain down in the array that cp.chain  *)
(* is a slice of, and a snapshot being written may be one as well.         *)
Shifted(old, chain, i) ==
  [k \in DOMAIN old |-> IF i <= k /\ k < Len(chain) THEN chain[k + 1] ELSE old[k]]

SnapshotAfter(s, c) ==
  LET r == replica[s]
      i == findNodeIndex(r, TheId(c))
      old == snapshot.state.chain
  IN  IF snapshot.pc # "persisting" \/ snapshot.server # s \/ ~snapshot.shared
      THEN {snapshot}
      ELSE CASE c.op = "register" ->  \* append may move the array
                  {[snapshot EXCEPT !.shared = b] : b \in BOOLEAN}
             [] c.op = "unregister" /\ i > 0 ->
                  {[snapshot EXCEPT
                      !.state.chain = Shifted(old, r.chain, i),
                      !.overwritten = @ \/ Shifted(old, r.chain, i) # old]}
             [] c.op = "update" -> {[snapshot EXCEPT !.shared = FALSE]}
             [] OTHER -> {snapshot}

(* A server that still takes itself for the leader is not told of entries  *)
(* its successor commits.                                                  *)
HasNext(s) ==
  /\ s \notin downServers
  /\ leads[s] \in {0, term}
  /\ replica[s].applied < Len(log)
  /\ ~Locked(s)

Panic(s) == EndServer(s) /\ panicked' = panicked \cup {s}

ApplyNext(s) ==
  LET i == replica[s].applied + 1
      done == Executed(replica[s], log[i])
      waiting == {h \in handlers : h.server = s /\ h.index = i}
  IN  /\ replica' = [replica EXCEPT ![s] = [done.state EXCEPT !.applied = i]]
      /\ handlers' = (handlers \ waiting) \cup
           {[h EXCEPT !.pc = "applied", !.result = done.result] : h \in waiting}
      /\ snapshot' \in SnapshotAfter(s, log[i])
      /\ UNCHANGED <<raftVars, jobs, member, historyVars>>

Apply(s) ==
  /\ HasNext(s)
  /\ IF Panics(replica[s], log[replica[s].applied + 1])
     THEN Panic(s) ELSE ApplyNext(s)

(* Snapshot hands out cp.chain itself; the bytes are written later. *)
Snapshot(s) ==
  /\ s \notin downServers
  /\ MayHappen /\ snapshot = NoSnapshot
  /\ snapshot' = [pc |-> "persisting", server |-> s, state |-> replica[s],
                  shared |-> TRUE, overwritten |-> FALSE]
  /\ UNCHANGED <<raftVars, replica, handlers, jobs, member, historyVars>>

Persist ==
  /\ snapshot.pc = "persisting"
  /\ snapshot' = [snapshot EXCEPT !.pc = "stored", !.shared = FALSE]
  /\ UNCHANGED <<raftVars, replica, handlers, jobs, member, historyVars>>

(* Mutant: the index stays what it was. *)
RestoredWithoutIndex(r) ==
  [snapshot.state EXCEPT !.lastControlIndex = r.lastControlIndex]

Restored(r) == snapshot.state

(* A follower that has fallen behind is sent the leader's snapshot. *)
Restore(s) ==
  /\ s \notin downServers
  /\ leads[s] = 0
  /\ snapshot.pc = "stored" /\ leads[snapshot.server] = term
  /\ replica[s].applied < snapshot.state.applied
  /\ replica' = [replica EXCEPT ![s] = Restored(replica[s])]
  /\ UNCHANGED <<raftVars, snapshot, handlers, jobs, member, historyVars>>

-----------------------------------------------------------------------------
(* The nodes: tryControlPlaneRequest. *)

Begin(n, pc, toTry) ==
  /\ member' = [member EXCEPT ![n].pc = pc, ![n].toTry = toTry]
  /\ UNCHANGED <<raftVars, replica, snapshot, handlers, jobs, historyVars>>

(* NewServer registers first; it has no current server yet. *)
StartNode(n) ==
  /\ member[n].pc = "new" /\ MayHappen
  /\ Begin(n, "registering", ServerList)

(* Shutdown tries the current server, whichever it is, and then all. *)
Shutdown(n) ==
  /\ member[n].pc = "running" /\ n \in MayLeave
  /\ MayHappen
  /\ \E s \in Servers : Begin(n, "leaving", <<s>> \o ServerList)

CrashNode(n) ==
  /\ member[n].pc = "running" /\ n \in MayCrash
  /\ MayHappen
  /\ Begin(n, "crashed", <<>>)

Asking(n) == member[n].pc \in {"registering", "leaving"} /\ ~member[n].waiting

(* RegisterNode or UnregisterNode as far as Raft; a server that cannot be  *)
(* reached, or is not a leader, is passed over.                            *)
TryNextServer(n) ==
  /\ Asking(n) /\ member[n].toTry # <<>>
  /\ LET s == Head(member[n].toTry)
         op == IF member[n].pc = "registering" THEN "register" ELSE "unregister"
     IN  /\ member' = [member EXCEPT ![n].toTry = Tail(@),
                                     ![n].waiting = IsLeader(s)]
         /\ IF IsLeader(s) THEN Propose(s, op, {n}, <<>>)
            ELSE UNCHANGED <<raftVars, handlers, disturbed>>
  /\ UNCHANGED <<replica, snapshot, jobs, answerLost>>

(* No server is left to try, or the five seconds of a Shutdown are over:   *)
(* its handler goes on all the same.  A node that cannot register panics.  *)
GiveUp(n) ==
  /\ \/ Asking(n) /\ member[n].toTry = <<>>
     \/ member[n].pc = "leaving"
  /\ member' = [member EXCEPT
       ![n].pc = IF @ = "registering" THEN "refused" ELSE "stopped",
       ![n].toTry = <<>>, ![n].waiting = FALSE]
  /\ UNCHANGED <<raftVars, replica, snapshot, handlers, jobs, historyVars>>

-----------------------------------------------------------------------------
(* The handlers, once their command has been applied. *)

Known(s, n) == IF n \in replica[s].nodes THEN n ELSE Nil

(* RegisterNode looks its result's predecessor up under the lock. *)
LookUpPredecessor(h) ==
  /\ h.op = "register" /\ h.pc = "applied" /\ h.result.ok
  /\ handlers' = (handlers \ {h}) \cup
       {[h EXCEPT !.pc = "call", !.result.pred = Known(h.server, @)]}
  /\ UNCHANGED <<raftVars, replica, snapshot, jobs, member, historyVars>>

(* A call at a node that has not begun to serve waits until it does. *)
Returns(n) ==
  n \notin {m \in Nodes : member[m].pc \in {"new", "registering"}}

Wire(n, field, value) ==
  [member EXCEPT ![n] = [@ EXCEPT ![field] = value]]

Reaches(n) == n \in {m \in Nodes : member[m].pc \in {"running", "leaving"}}

(* ... calls SetSuccessor there and answers; the new node starts to serve. *)
AnswerRegistration(h) ==
  /\ h.op = "register" /\ h.pc = "call"
  /\ Returns(h.result.pred)
  /\ handlers' = handlers \ {h}
  /\ LET n == TheId(h)
         told == IF Reaches(h.result.pred)
                 THEN Wire(h.result.pred, "successor", n) ELSE member
     IN  member' = [told EXCEPT
           ![n].pc = "running", ![n].waiting = FALSE, ![n].toTry = <<>>,
           ![n].predecessor = IF h.result.pred = Nil THEN @ ELSE h.result.pred]
  /\ UNCHANGED <<raftVars, replica, snapshot, jobs, historyVars>>

(* AlreadyExists is not retried: the node panics. *)
RefuseRegistration(h) ==
  /\ h.op = "register" /\ h.pc = "applied" /\ ~h.result.ok
  /\ handlers' = handlers \ {h}
  /\ member' = [n \in Nodes |->
       IF n \in h.ids THEN [member[n] EXCEPT !.pc = "refused",
                                             !.waiting = FALSE, !.toTry = <<>>]
       ELSE member[n]]
  /\ UNCHANGED <<raftVars, replica, snapshot, jobs, historyVars>>

Job(s, pred, succ) ==
  [server |-> s, pred |-> pred, succ |-> succ,
   pc |-> IF succ = Nil THEN "succ" ELSE "pred"]

(* Mutant: nothing is done when the HEAD or the TAIL leaves. *)
AnswerInnerUnregistration(h) ==
  /\ h.op = "unregister" /\ h.pc = "applied"
  /\ handlers' = handlers \ {h}
  /\ jobs' = IF {h.result.pred, h.result.succ} \subseteq replica[h.server].nodes
             THEN jobs \cup {Job(h.server, h.result.pred, h.result.succ)}
             ELSE jobs
  /\ member' = [n \in Nodes |->
       IF n \in h.ids /\ member[n].waiting
       THEN [member[n] EXCEPT !.pc = "stopped", !.waiting = FALSE, !.toTry = <<>>]
       ELSE member[n]]
  /\ UNCHANGED <<raftVars, replica, snapshot, historyVars>>

(* UnregisterNode: the neighbours are made neighbours of each other unless *)
(* one of them is unknown by now.  The result's error is not looked at.    *)
AnswerUnregistration(h) ==
  /\ h.op = "unregister" /\ h.pc = "applied"
  /\ handlers' = handlers \ {h}
  /\ LET pred == h.result.pred
         succ == h.result.succ
         valid == {pred, succ} \subseteq replica[h.server].nodes \cup {Nil}
     IN  jobs' = IF valid /\ {pred, succ} # {Nil}
                 THEN jobs \cup {Job(h.server, pred, succ)} ELSE jobs
  /\ member' = [n \in Nodes |->
       IF n \in h.ids /\ member[n].waiting
       THEN [member[n] EXCEPT !.pc = "stopped", !.waiting = FALSE, !.toTry = <<>>]
       ELSE member[n]]
  /\ UNCHANGED <<raftVars, replica, snapshot, historyVars>>

(* GetSubscriptionNode. *)
GetSubscriptionNode(s) ==
  /\ IsLeader(s)
  /\ MayHappen
  /\ Propose(s, "subscribe", {}, <<>>)
  /\ UNCHANGED <<replica, snapshot, jobs, member, answerLost>>

(* The node chosen may be gone; else it is asked for a token. *)
LookUpSubscriptionNode(h) ==
  /\ h.op = "subscribe" /\ h.pc = "applied"
  /\ handlers' = (handlers \ {h}) \cup
       (IF h.result.ok /\ h.result.pred \in replica[h.server].nodes
        THEN {[h EXCEPT !.pc = "call"]} ELSE {})
  /\ UNCHANGED <<raftVars, replica, snapshot, jobs, member, historyVars>>

AnswerSubscription(h) ==
  /\ h.op = "subscribe" /\ h.pc = "call"
  /\ Returns(h.result.pred)
  /\ handlers' = handlers \ {h}
  /\ UNCHANGED <<raftVars, replica, snapshot, jobs, member, historyVars>>

-----------------------------------------------------------------------------
(* monitorHeartbeats, of which a server has one, and its goroutines. *)

Silent == {n \in Nodes : member[n].pc \in Dead} \cup MaySuspect

Monitoring(s) == /\ IsLeader(s)
                 /\ ~Locked(s)
                 /\ ~\E h \in handlers : h.server = s /\ h.op = "update"

(* Some nodes' heartbeats have stayed away. *)
RemoveNodesViaRaft(s) ==
  \E dead \in SUBSET (ToSet(replica[s].chain) \cap Silent) :
    /\ dead # {}
    /\ dead \cap MaySuspect # {} => MayHappen
    /\ Propose(s, "update", dead, replica[s].chain)
    /\ UNCHANGED <<replica, snapshot, jobs, member, answerLost>>

(* identifyDeadNodes dereferences every node of the chain. *)
IdentifyDeadNodes(s) ==
  /\ Monitoring(s)
  /\ IF ToSet(replica[s].chain) \subseteq replica[s].nodes
     THEN RemoveNodesViaRaft(s) ELSE Panic(s)

(* reconnectChain: a goroutine for every two live nodes of the old chain   *)
(* with a gap between them, one for the last if there is a gap behind it,  *)
(* one for the HEAD if the old one is dead.  A gap before the first live   *)
(* node still counts behind it.                                            *)
Reconnections(s, old, dead) ==
  LET r == replica[s]
      live == {i \in DOMAIN old : old[i] \notin dead /\ old[i] \in r.nodes}
      Gap(i, j) == \/ \E k \in i + 1..j - 1 : k \notin live
                   \/ i > 1 /\ \A k \in live : i <= k
      Adjacent(i, j) == i < j /\ \A k \in live : k <= i \/ j <= k
  IN  {Job(s, old[p[1]], old[p[2]]) : p \in
         {q \in live \X live : Adjacent(q[1], q[2]) /\ Gap(q[1], q[2])}}
      \cup {Job(s, old[i], Nil) : i \in
         {k \in live : (\A j \in live : j <= k) /\ Gap(k, Len(old) + 1)}}
      \cup {Job(s, Nil, n) : n \in
         {m \in {getHead(r)} : m # Nil /\ old[1] \in dead}}

(* reconnectChain works on the chain as the monitor found it, and on what  *)
(* is known now, whether or not the command has succeeded.                 *)
ReconnectChain(h) ==
  /\ h.op = "update" /\ h.pc = "applied"
  /\ ~Locked(h.server)
  /\ handlers' = handlers \ {h}
  /\ jobs' = jobs \cup Reconnections(h.server, h.old, h.ids)
  /\ UNCHANGED <<raftVars, replica, snapshot, member, historyVars>>

(* reconnectNeighbors: SetPredecessor at succ, then SetSuccessor at pred;  *)
(* an error of either is only logged.                                      *)
SetPredecessor(j) ==
  /\ j.pc = "pred"
  /\ Returns(j.succ)
  /\ member' = IF Reaches(j.succ) THEN Wire(j.succ, "predecessor", j.pred)
               ELSE member
  /\ jobs' = (jobs \ {j}) \cup
              (IF j.pred = Nil THEN {} ELSE {[j EXCEPT !.pc = "succ"]})
  /\ UNCHANGED <<raftVars, replica, snapshot, handlers, historyVars>>

SetSuccessor(j) ==
  /\ j.pc = "succ"
  /\ Returns(j.pred)
  /\ member' = IF Reaches(j.pred) THEN Wire(j.pred, "successor", j.succ)
               ELSE member
  /\ jobs' = jobs \ {j}
  /\ UNCHANGED <<raftVars, replica, snapshot, handlers, historyVars>>

Next ==
  \/ Persist
  \/ \E s \in Servers : Elect(s) \/ StepDown(s) \/ CrashServer(s)
  \/ \E s \in Servers : Apply(s)
  \/ \E s \in Servers : Snapshot(s) \/ Restore(s)
  \/ \E s \in Servers : GetSubscriptionNode(s)
  \/ \E s \in Servers : IdentifyDeadNodes(s)
  \/ \E n \in Nodes : StartNode(n) \/ Shutdown(n) \/ CrashNode(n)
  \/ \E n \in Nodes : TryNextServer(n) \/ GiveUp(n)
  \/ \E h \in handlers : \/ LookUpPredecessor(h) \/ AnswerRegistration(h)
                         \/ RefuseRegistration(h) \/ AnswerUnregistration(h)
                         \/ LookUpSubscriptionNode(h) \/ AnswerSubscription(h)
                         \/ ReconnectChain(h)
  \/ \E j \in jobs : SetPredecessor(j) \/ SetSuccessor(j)

Spec == Init /\ [][Next]_vars

-----------------------------------------------------------------------------
(* Properties. *)

(* Servers that have applied the same part of the log have the same chain, *)
(* the same nodes and the same place in the round robin, whether they came *)
(* there by the log or by a snapshot (Apply, Snapshot, Restore), unless    *)
(* the snapshot was changed while it was being written.                    *)
ReplicasAgree ==
  \/ snapshot.overwritten
  \/ \A s, t \in Servers :
       replica[s].applied = replica[t].applied => replica[s] = replica[t]

(* No server dereferences a node it does not have, divides by the length   *)
(* of an empty chain or indexes beyond its end, however the chain shrinks  *)
(* between two subscriptions, unless it got a snapshot that was changed    *)
(* while it was being written.                                             *)
NoServerPanics == panicked = {} \/ snapshot.overwritten

AtRest ==
  /\ jobs = {} /\ \A h \in handlers : h.op = "subscribe"
  /\ \A n \in Nodes : member[n].pc \notin {"registering", "leaving"}

WiredAs(chain) ==
  \A i \in DOMAIN chain :
    LET m == member[chain[i]] IN
    /\ m.predecessor = IF i = 1 THEN Nil ELSE chain[i - 1]
    /\ m.successor = IF i = Len(chain) THEN Nil ELSE chain[i + 1]

(* When registrations, removals and reconnections are over and every node  *)
(* of the chain runs, the nodes are wired as the chain (RegisterNode,      *)
(* UnregisterNode, reconnectChain, reconnectNeighbors), if the changes did *)
(* not overlap and no server ceased to be leader in the middle of one.     *)
WiredUnlessDisturbed ==
  AtRest /\ ~disturbed /\ ~snapshot.overwritten =>
    \A s \in Servers \ downServers :
      /\ replica[s].applied = Len(log)
      /\ \A n \in ToSet(replica[s].chain) : member[n].pc = "running"
      => WiredAs(replica[s].chain)

(* A new node panics although it is registered (tryControlPlaneRequest,    *)
(* connectToControlPlane) only after the answer to an earlier attempt was  *)
(* lost with a leader; the chain then has a node that never runs.          *)
RefusedAfterLostAnswer ==
  \A n \in Nodes \ answerLost :
    member[n].pc = "refused" =>
      \A i \in DOMAIN log : log[i] # Command("register", {n})

=============================================================================
