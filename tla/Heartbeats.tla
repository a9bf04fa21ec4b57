----------------------------- MODULE Heartbeats -----------------------------
(***************************************************************************)
(* How nodes show that they are alive, and what becomes of those that do   *)
(* not: every node sends a heartbeat per interval to the control plane's   *)
(* leader, which removes the nodes it has not heard of for a while.        *)
(*                                                                         *)
(* Time is discrete.  A ticker that is due fires before time passes.  The  *)
(* registration of nodes is replicated (ControlPlane); the times of their  *)
(* heartbeats are not, and a server keeps what it has when it ceases to be *)
(* the leader.                                                             *)
(***************************************************************************)
EXTENDS Integers, FiniteSets, SequencesExt

CONSTANTS
  Nodes,       \* the chain's nodes
  Servers,     \* the control plane's servers
  ServerList,  \* their addresses, in the order in which nodes try them
  None,        \* no leader, no time
  Interval,    \* heartbeatInterval, the same at nodes and servers
  Timeout,     \* heartbeatTimeout
  MaxTerms,    \* bound: leaders elected
  MaxFailures  \* bound: nodes and servers that crash, servers that hang

ASSUME HeartbeatsAssumption ==
  /\ ServerList \in Seq(Servers) \ {<<>>} /\ ToSet(ServerList) = Servers
  /\ Interval \in Nat \ {0} /\ Timeout \in Nat /\ Interval < Timeout
  /\ None \notin Servers \cup Nat
  /\ MaxTerms \in Nat \ {0} /\ MaxFailures \in Nat

VARIABLES
  registered,    \* the nodes in the replicated chain
  alive,         \* the nodes that run
  leader,        \* the leading server, or None
  term,          \* how many leaders there have been
  serverState,   \* "up", "dead" (refuses connections) or "hung" (says nothing)
  lastHeartbeat, \* per server and node, how long ago; None if never
  nextCheck,     \* time to the server's next monitor tick
  nextBeat,      \* time to the node's next heartbeat
  current,       \* the server the node is connected to
  beat,          \* the node's heartbeat under way: servers to try, time taken
  missed,        \* history: nodes whose last heartbeat failed or was late
  stale          \* history: times a server has from an earlier leadership

clusterVars == <<registered, alive, leader, term, serverState>>
timers == <<nextCheck, nextBeat>>
vars == <<clusterVars, lastHeartbeat, timers, current, beat, missed, stale>>

(* Mutant: a heartbeat may take as long as the next one is away. *)
DeadlineInterval == Interval

(* The deadline of a heartbeat, over all the servers it tries. *)
Deadline == Interval \div 2

(* The longest a heartbeat may take and still be in time, if the one       *)
(* before took no time.                                                    *)
Slack == Timeout - Interval

Ages == 0..Timeout + 1

NoBeat == [toTry |-> <<>>, elapsed |-> -1]

HeartbeatsTypeOK ==
  /\ registered \subseteq Nodes /\ alive \subseteq Nodes
  /\ leader \in Servers \cup {None}
  /\ leader # None => serverState[leader] # "dead"
  /\ term \in 1..MaxTerms
  /\ serverState \in [Servers -> {"up", "dead", "hung"}]
  /\ lastHeartbeat \in [Servers -> [Nodes -> Ages \cup {None}]]
  /\ nextCheck \in [Servers -> 0..Interval]
  /\ nextBeat \in [Nodes -> 0..Interval]
  /\ current \in [Nodes -> Servers]
  /\ \A n \in Nodes : /\ beat[n].elapsed \in -1..Deadline
                      /\ ToSet(beat[n].toTry) \subseteq Servers
                      /\ nextBeat[n] = 0 => beat[n] = NoBeat
  /\ missed \subseteq Nodes /\ stale \subseteq Servers \X Nodes

Init ==
  /\ registered = Nodes /\ alive = Nodes
  /\ leader = Head(ServerList) /\ term = 1
  /\ serverState = [s \in Servers |-> "up"]
  /\ lastHeartbeat = [s \in Servers |-> [n \in Nodes |-> None]]
  /\ nextCheck \in [Servers -> 1..Interval]
  /\ nextBeat \in [Nodes -> 1..Interval]
  /\ current = [n \in Nodes |-> leader]
  /\ beat = [n \in Nodes |-> NoBeat]
  /\ missed = {} /\ stale = {}

-----------------------------------------------------------------------------
(* The servers. *)

IsLeader(s) == leader = s /\ serverState[s] = "up"

(* Mutant: no heartbeat yet is as bad as an old one. *)
DeadOrNew(s) ==
  {n \in registered : lastHeartbeat[s][n] \in {Timeout + 1, None}}

(* identifyDeadNodes: the nodes not heard of for longer than the timeout. *)
DeadNodes(s) == {n \in registered : lastHeartbeat[s][n] = Timeout + 1}

(* Mutant: they do not. *)
UnheardLeftOut(s) == {}

(* Those not heard of at all count from now on. *)
Unheard(s) == {n \in registered : lastHeartbeat[s][n] = None}

(* monitorHeartbeats: every server's ticker ticks, only the leader looks. *)
Check(s) ==
  /\ nextCheck[s] = 0
  /\ serverState[s] # "hung"
  /\ nextCheck' = [nextCheck EXCEPT ![s] = Interval]
  /\ IF IsLeader(s)
     THEN /\ registered' = registered \ DeadNodes(s)
          /\ lastHeartbeat' = [lastHeartbeat EXCEPT ![s] =
               [n \in Nodes |-> IF n \in Unheard(s) THEN 0 ELSE @[n]]]
          /\ missed' = missed \ Unheard(s)
     ELSE UNCHANGED <<registered, lastHeartbeat, missed>>
  /\ UNCHANGED <<alive, leader, term, serverState, nextBeat, current, beat,
                 stale>>

Elect(s) ==
  /\ leader = None
  /\ serverState[s] = "up"
  /\ term < MaxTerms
  /\ leader' = s
  /\ term' = term + 1
  /\ stale' = stale \cup {<<s, n>> : n \in
                 {m \in Nodes : lastHeartbeat[s][m] # None}}
  /\ UNCHANGED <<registered, alive, serverState, lastHeartbeat, timers,
                 current, beat, missed>>

(* The leader loses its leadership, and another one will be elected. *)
StepDown ==
  /\ leader # None /\ term < MaxTerms
  /\ leader' = None
  /\ UNCHANGED <<registered, alive, term, serverState, lastHeartbeat, timers,
                 current, beat, missed, stale>>

Failures == Cardinality(Nodes \ alive)
            + Cardinality({s \in Servers : serverState[s] # "up"})

(* A server crashes, or stops answering: its machine, or cp.mu held by a   *)
(* RegisterNode that waits for a node.  Raft goes on without the former.   *)
FailServer(s) ==
  /\ serverState[s] = "up"
  /\ Failures < MaxFailures
  /\ \E state \in {"dead", "hung"} :
       /\ serverState' = [serverState EXCEPT ![s] = state]
       /\ leader = s => term < MaxTerms
       /\ leader' = IF leader = s /\ state = "dead" THEN None ELSE leader
  /\ UNCHANGED <<registered, alive, term, lastHeartbeat, timers, current,
                 beat, missed, stale>>

CrashNode(n) ==
  /\ n \in alive
  /\ Failures < MaxFailures
  /\ alive' = alive \ {n}
  /\ beat' = [beat EXCEPT ![n] = NoBeat]
  /\ nextBeat' = [nextBeat EXCEPT ![n] = Interval]
  /\ UNCHANGED <<registered, leader, term, serverState, lastHeartbeat,
                 nextCheck, current, missed, stale>>

-----------------------------------------------------------------------------
(* The nodes: startHeartbeat, sendHeartbeat and tryControlPlaneRequest. *)

StartBeat(n) ==
  /\ n \in alive /\ nextBeat[n] = 0
  /\ nextBeat' = [nextBeat EXCEPT ![n] = Interval]
  /\ beat' = [beat EXCEPT ![n] =
                [toTry |-> <<current[n]>> \o ServerList, elapsed |-> 0]]
  /\ UNCHANGED <<clusterVars, lastHeartbeat, nextCheck, current, missed, stale>>

Trying(n) == IF beat[n].toTry = <<>> THEN None ELSE Head(beat[n].toTry)

EndBeat(n) == beat' = [beat EXCEPT ![n] = NoBeat]

(* Heartbeat at the leader: a node that is not registered is told so, which*)
(* ends the attempt but nothing else.                                      *)
BeatAccepted(n) ==
  /\ Trying(n) # None /\ IsLeader(Trying(n))
  /\ LET s == Trying(n) IN
     IF n \in registered
     THEN /\ lastHeartbeat' = [lastHeartbeat EXCEPT ![s][n] = 0]
          /\ current' = [current EXCEPT ![n] = s]
          /\ missed' = IF beat[n].elapsed <= Slack THEN missed \ {n} ELSE missed
          /\ stale' = stale \ {<<s, n>>}
     ELSE UNCHANGED <<lastHeartbeat, current, missed, stale>>
  /\ EndBeat(n)
  /\ UNCHANGED <<clusterVars, timers>>

(* A server that is dead, or not the leader, is passed over. *)
NextServer(n) ==
  /\ Trying(n) # None
  /\ serverState[Trying(n)] # "hung" /\ ~IsLeader(Trying(n))
  /\ beat' = [beat EXCEPT ![n].toTry = Tail(@)]
  /\ UNCHANGED <<clusterVars, lastHeartbeat, timers, current, missed, stale>>

(* The deadline is over for all servers still to be tried, or there are    *)
(* none.  The node keeps the connection it had.                            *)
BeatFails(n) ==
  /\ n \in alive
  /\ beat[n].elapsed = Deadline \/ (Trying(n) = None /\ beat[n] # NoBeat)
  /\ EndBeat(n)
  /\ missed' = missed \cup {n}
  /\ UNCHANGED <<clusterVars, lastHeartbeat, timers, current, stale>>

-----------------------------------------------------------------------------

(* Nothing is due. *)
MayTick ==
  /\ \A s \in Servers : serverState[s] = "up" => nextCheck[s] > 0
  /\ \A n \in alive : /\ nextBeat[n] > 0
                      /\ beat[n].elapsed < Deadline
                      /\ beat[n].toTry = <<>> => beat[n] = NoBeat

Tick ==
  /\ MayTick
  /\ lastHeartbeat' = [s \in Servers |-> [n \in Nodes |->
       IF lastHeartbeat[s][n] \in 0..Timeout THEN lastHeartbeat[s][n] + 1
       ELSE lastHeartbeat[s][n]]]
  /\ nextCheck' = [s \in Servers |->
       IF serverState[s] = "up" THEN nextCheck[s] - 1 ELSE nextCheck[s]]
  /\ nextBeat' = [n \in Nodes |->
       IF n \in alive THEN nextBeat[n] - 1 ELSE nextBeat[n]]
  /\ beat' = [n \in Nodes |->
       IF beat[n] = NoBeat THEN NoBeat ELSE [beat[n] EXCEPT !.elapsed = @ + 1]]
  /\ missed' = missed \cup {n \in Nodes : beat'[n].elapsed > Slack}
  /\ UNCHANGED <<clusterVars, current, stale>>

Environment ==
  \/ StepDown
  \/ \E s \in Servers : FailServer(s)
  \/ \E n \in Nodes : CrashNode(n)

System ==
  \/ Tick
  \/ \E s \in Servers : Check(s)
  \/ \E n \in Nodes : \/ StartBeat(n) \/ BeatAccepted(n)
                      \/ NextServer(n) \/ BeatFails(n)

Next == Environment \/ System \/ \E s \in Servers : Elect(s)

(* Time goes on, what is due is done, and a leader is elected. *)
Fairness == WF_vars(System) /\ WF_vars(\E s \in Servers : Elect(s))

Spec == Init /\ [][Next]_vars

FairSpec == Spec /\ Fairness

-----------------------------------------------------------------------------
(* Properties. *)

(* A node that runs is removed only if its last heartbeat failed or took   *)
(* longer than the timeout leaves room for, or on a time its leader has    *)
(* from an earlier leadership (Heartbeat, identifyDeadNodes): a new leader *)
(* does not remove nodes because it has not heard of them yet.             *)
RemovedOnlyIfSilent ==
  [][\A n \in alive \cap registered :
       n \notin registered' => n \in missed \/ <<leader, n>> \in stale]_vars

(* No leader will look: there is none to be elected, or it is hung. *)
NobodyLooks ==
  \/ \A s \in Servers : serverState[s] # "up"
  \/ leader # None /\ ~IsLeader(leader)

(* A node that has crashed is removed in the end (monitorHeartbeats), also *)
(* by a leader that has never heard of it, unless the leader is hung.      *)
DeadAreRemoved ==
  \A n \in Nodes : n \notin alive ~> n \notin registered \/ NobodyLooks

=============================================================================
