-------------------------- MODULE HeartbeatsProofs --------------------------
(***************************************************************************)
(* Proofs about Heartbeats for every number of nodes and servers, every    *)
(* interval and every longer timeout.                                      *)
(*                                                                         *)
(* What keeps a node in the chain is an account of time: its heartbeat and *)
(* the next one are an interval apart, and the leader's time of the last   *)
(* one is as old as the interval and the one under way together at most.   *)
(***************************************************************************)
EXTENDS Heartbeats, TLAPS

ClusterInv ==
  /\ registered \subseteq Nodes /\ alive \subseteq Nodes
  /\ leader \in Servers \cup {None}
  /\ leader # None => serverState[leader] # "dead"
  /\ term \in 1..MaxTerms
  /\ serverState \in [Servers -> {"up", "dead", "hung"}]
  /\ missed \subseteq Nodes /\ stale \subseteq Servers \X Nodes

ClocksInv ==
  /\ lastHeartbeat \in [Servers -> [Nodes -> Ages \cup {None}]]
  /\ nextCheck \in [Servers -> 0..Interval]
  /\ nextBeat \in [Nodes -> 0..Interval]
  /\ current \in [Nodes -> Servers]

(* A heartbeat under way began when the present interval did. *)
BeatsInv ==
  /\ beat \in [Nodes -> [toTry : Seq(Servers), elapsed : -1..Deadline]]
  /\ \A n \in Nodes :
       beat[n] # NoBeat => /\ n \in alive
                           /\ beat[n].elapsed >= 0
                           /\ nextBeat[n] = Interval - beat[n].elapsed

(* The leader's time is a good one: of this leadership, of a node that     *)
(* runs and has not missed a heartbeat.                                    *)
Timely(n) ==
  /\ n \in alive \cap registered
  /\ leader # None
  /\ n \notin missed /\ <<leader, n>> \notin stale
  /\ lastHeartbeat[leader][n] # None

AgesInv ==
  \A n \in Nodes : Timely(n) =>
    /\ lastHeartbeat[leader][n] <= Timeout
    /\ lastHeartbeat[leader][n] <=
         IF beat[n] = NoBeat THEN Interval - nextBeat[n]
         ELSE Interval + beat[n].elapsed

IInv == ClusterInv /\ ClocksInv /\ BeatsInv /\ AgesInv

-----------------------------------------------------------------------------
(* The deadline of a heartbeat is shorter than the interval, and the       *)
(* constants are what arithmetic needs.                                    *)
LEMMA Constants ==
  /\ Deadline \in Nat /\ Deadline < Interval
  /\ Interval \in Nat /\ Timeout \in Nat /\ Slack \in Nat
  /\ Interval < Timeout /\ Timeout = Interval + Slack
  /\ Ages = 0..Timeout + 1 /\ None \notin Ages /\ None \notin Servers
  /\ ServerList \in Seq(Servers) /\ ServerList # <<>>
  /\ Head(ServerList) \in Servers
<1>1. /\ Interval \in Nat \ {0} /\ Timeout \in Nat /\ Interval < Timeout
      /\ None \notin Servers \cup Nat
  BY HeartbeatsAssumption DEF HeartbeatsAssumption
<1>2. Deadline \in Nat /\ Deadline < Interval
  BY <1>1, SMT DEF Deadline
<1>3. /\ ServerList \in Seq(Servers) /\ ServerList # <<>>
      /\ Head(ServerList) \in Servers
  BY HeartbeatsAssumption DEF HeartbeatsAssumption
<1>. QED BY <1>1, <1>2, <1>3 DEF Slack, Ages

LEMMA NoBeatFields == NoBeat.elapsed = -1 /\ NoBeat.toTry = <<>>
BY DEF NoBeat

-----------------------------------------------------------------------------
LEMMA InitIInv == Init => IInv
<1>. SUFFICES ASSUME Init PROVE IInv
  OBVIOUS
<1>. USE Constants
<1>1. ClusterInv
  BY HeartbeatsAssumption DEF HeartbeatsAssumption, Init, ClusterInv
<1>2. ClocksInv
  BY DEF Init, ClocksInv
<1>3. BeatsInv
  BY DEF Init, BeatsInv, NoBeat
<1>4. AgesInv
  BY <1>1 DEF Init, ClusterInv, AgesInv, Timely
<1>. QED BY <1>1, <1>2, <1>3, <1>4 DEF IInv

(* The servers' steps. *)
LEMMA CheckKeeps ==
  ASSUME IInv, NEW s \in Servers, Check(s) PROVE IInv'
<1>. USE Constants
<1>. USE DEF IInv
<1>1. ClusterInv'
  BY DEF ClusterInv, Check, DeadNodes
<1>2. ClocksInv'
  <2>. DEFINE Times == [n \in Nodes |-> IF n \in Unheard(s) THEN 0
                                         ELSE lastHeartbeat[s][n]]
  <2>1. Times \in [Nodes -> Ages \cup {None}]
    BY DEF ClocksInv
  <2>4. \/ lastHeartbeat' = lastHeartbeat
        \/ lastHeartbeat' = [lastHeartbeat EXCEPT ![s] = Times]
    BY DEF Check
  <2>. HIDE DEF Times
  <2>2. lastHeartbeat' \in [Servers -> [Nodes -> Ages \cup {None}]]
    BY <2>1, <2>4 DEF ClocksInv
  <2>3. nextCheck' \in [Servers -> 0..Interval]
    BY DEF ClocksInv, Check
  <2>. QED BY <2>2, <2>3 DEF ClocksInv, Check
<1>3. BeatsInv'
  BY DEF BeatsInv, Check
<1>4. AgesInv'
  <2>. SUFFICES ASSUME NEW n \in Nodes, Timely(n)'
       PROVE  (/\ lastHeartbeat[leader][n] <= Timeout
               /\ lastHeartbeat[leader][n] <=
                    IF beat[n] = NoBeat THEN Interval - nextBeat[n]
                    ELSE Interval + beat[n].elapsed)'
    BY DEF AgesInv
  <2>1. leader \in Servers /\ leader' = leader /\ beat' = beat
        /\ nextBeat' = nextBeat
    BY DEF Check, Timely, ClusterInv
  <2>2. CASE lastHeartbeat'[leader][n] = lastHeartbeat[leader][n]
             /\ n \notin missed
    BY <2>1, <2>2 DEF AgesInv, Timely, Check
  <2>3. CASE lastHeartbeat'[leader][n] = 0
    <3>1. /\ nextBeat[n] \in 0..Interval
          /\ beat[n] # NoBeat => beat[n].elapsed \in 0..Deadline
      BY DEF BeatsInv, ClocksInv
    <3>. QED BY <2>1, <2>3, <3>1
  <2>4. CASE ~IsLeader(s)
    BY <2>1, <2>2, <2>4 DEF Check, Timely
  <2>5. CASE IsLeader(s) /\ n \notin Unheard(s)
    BY <2>1, <2>2, <2>5 DEF Check, Timely, IsLeader, ClocksInv
  <2>6. CASE IsLeader(s) /\ n \in Unheard(s)
    BY <2>1, <2>3, <2>6 DEF Check, Timely, IsLeader, ClocksInv
  <2>. QED BY <2>4, <2>5, <2>6
<1>. QED BY <1>1, <1>2, <1>3, <1>4

LEMMA ElectKeeps ==
  ASSUME IInv, NEW s \in Servers, Elect(s) PROVE IInv'
<1>. USE Constants
<1>. USE DEF IInv
<1>1. ClusterInv'
  BY HeartbeatsAssumption DEF HeartbeatsAssumption, ClusterInv, Elect
<1>2. ClocksInv' /\ BeatsInv'
  BY DEF ClocksInv, BeatsInv, Elect, timers
<1>3. AgesInv'
  BY DEF Elect, AgesInv, Timely
<1>. QED BY <1>1, <1>2, <1>3

LEMMA StepDownKeeps == ASSUME IInv, StepDown PROVE IInv'
<1>. USE DEF IInv
<1>1. ClusterInv' /\ ClocksInv' /\ BeatsInv'
  BY DEF ClusterInv, ClocksInv, BeatsInv, StepDown, timers
<1>2. AgesInv'
  BY DEF StepDown, AgesInv, Timely
<1>. QED BY <1>1, <1>2

LEMMA FailServerKeeps ==
  ASSUME IInv, NEW s \in Servers, FailServer(s) PROVE IInv'
<1>. USE DEF IInv
<1>1. PICK state \in {"dead", "hung"} :
        /\ serverState' = [serverState EXCEPT ![s] = state]
        /\ leader' = IF leader = s /\ state = "dead" THEN None ELSE leader
  BY DEF FailServer
<1>2. ClusterInv'
  BY <1>1, Constants DEF ClusterInv, FailServer
<1>3. ClocksInv' /\ BeatsInv'
  BY DEF ClocksInv, BeatsInv, FailServer, timers
<1>4. AgesInv'
  BY <1>1 DEF FailServer, AgesInv, Timely, timers
<1>. QED BY <1>2, <1>3, <1>4

(* The nodes' steps. *)
LEMMA CrashNodeKeeps ==
  ASSUME IInv, NEW n \in Nodes, CrashNode(n) PROVE IInv'
<1>. USE Constants
<1>. USE DEF IInv
<1>1. ClusterInv'
  BY DEF ClusterInv, CrashNode
<1>2. ClocksInv'
  BY DEF ClocksInv, CrashNode
<1>3. BeatsInv'
  BY DEF BeatsInv, CrashNode, NoBeat
<1>4. AgesInv'
  BY DEF CrashNode, AgesInv, Timely, BeatsInv, ClocksInv
<1>. QED BY <1>1, <1>2, <1>3, <1>4

LEMMA StartBeatKeeps ==
  ASSUME IInv, NEW n \in Nodes, StartBeat(n) PROVE IInv'
<1>. USE Constants
<1>. USE DEF IInv
<1>1. ClusterInv'
  BY DEF ClusterInv, StartBeat, clusterVars
<1>2. ClocksInv'
  BY DEF ClocksInv, StartBeat
<1>3. <<current[n]>> \o ServerList \in Seq(Servers)
  BY DEF ClocksInv
<1>4. /\ [toTry |-> <<current[n]>> \o ServerList, elapsed |-> 0]
           \in [toTry : Seq(Servers), elapsed : -1..Deadline]
      /\ n \in alive /\ nextBeat[n] = 0
      /\ beat' = [beat EXCEPT ![n] =
                    [toTry |-> <<current[n]>> \o ServerList, elapsed |-> 0]]
      /\ nextBeat' = [nextBeat EXCEPT ![n] = Interval]
      /\ alive' = alive
  BY <1>3 DEF StartBeat, clusterVars
<1>5. beat[n] = NoBeat
  BY <1>4 DEF BeatsInv
<1>6. beat'[n] # NoBeat /\ beat'[n].elapsed = 0
  BY <1>4, NoBeatFields DEF BeatsInv
<1>8. BeatsInv'
  <2>1. beat' \in [Nodes -> [toTry : Seq(Servers), elapsed : -1..Deadline]]
    BY <1>4 DEF BeatsInv
  <2>2. ASSUME NEW m \in Nodes, beat'[m] # NoBeat
        PROVE  /\ m \in alive' /\ beat'[m].elapsed >= 0
               /\ nextBeat'[m] = Interval - beat'[m].elapsed
    <3>1. CASE m = n
      BY <1>4, <1>6, <3>1 DEF ClocksInv
    <3>2. CASE m # n
      BY <1>4, <2>2, <3>2 DEF BeatsInv, ClocksInv
    <3>. QED BY <3>1, <3>2
  <2>. QED BY <2>1, <2>2 DEF BeatsInv
<1>7. AgesInv'
  <2>. SUFFICES ASSUME NEW m \in Nodes, Timely(m)'
       PROVE  (/\ lastHeartbeat[leader][m] <= Timeout
               /\ lastHeartbeat[leader][m] <=
                    IF beat[m] = NoBeat THEN Interval - nextBeat[m]
                    ELSE Interval + beat[m].elapsed)'
    BY DEF AgesInv
  <2>1. /\ Timely(m)
        /\ lastHeartbeat'[leader'][m] = lastHeartbeat[leader][m]
        /\ lastHeartbeat[leader][m] \in Ages
    BY DEF Timely, StartBeat, clusterVars, ClusterInv, ClocksInv
  <2>2. CASE m = n
    BY <1>5, <1>6, <2>1, <2>2 DEF AgesInv, StartBeat, Ages
  <2>3. CASE m # n
    BY <2>1, <2>3 DEF AgesInv, StartBeat, BeatsInv, ClocksInv
  <2>. QED BY <2>2, <2>3
<1>. QED BY <1>1, <1>2, <1>8, <1>7

LEMMA BeatAcceptedKeeps ==
  ASSUME IInv, NEW n \in Nodes, BeatAccepted(n) PROVE IInv'
<1>. USE Constants
<1>. USE DEF IInv
<1>. DEFINE s == Trying(n)
<1>1. s = leader /\ s \in Servers /\ IsLeader(s)
  BY DEF BeatAccepted, IsLeader, ClusterInv
<1>2. ClusterInv'
  BY DEF ClusterInv, BeatAccepted, clusterVars
<1>3. ClocksInv'
  <2>. DEFINE Times == [lastHeartbeat[leader] EXCEPT ![n] = 0]
  <2>1. \/ lastHeartbeat' = [lastHeartbeat EXCEPT ![leader] = Times]
        \/ lastHeartbeat' = lastHeartbeat
    BY <1>1 DEF BeatAccepted
  <2>4. Times \in [Nodes -> Ages \cup {None}]
    BY <1>1 DEF ClocksInv
  <2>. HIDE DEF Times
  <2>2. lastHeartbeat' \in [Servers -> [Nodes -> Ages \cup {None}]]
    BY <1>1, <2>1, <2>4 DEF ClocksInv
  <2>3. current' \in [Nodes -> Servers]
    BY <1>1 DEF BeatAccepted, ClocksInv
  <2>. QED BY <2>2, <2>3 DEF ClocksInv, BeatAccepted, timers
<1>4. BeatsInv'
  BY DEF BeatsInv, BeatAccepted, EndBeat, NoBeat, clusterVars, timers
<1>5. AgesInv'
  <2>. SUFFICES ASSUME NEW m \in Nodes, Timely(m)'
       PROVE  (/\ lastHeartbeat[leader][m] <= Timeout
               /\ lastHeartbeat[leader][m] <=
                    IF beat[m] = NoBeat THEN Interval - nextBeat[m]
                    ELSE Interval + beat[m].elapsed)'
    BY DEF AgesInv
  <2>1. leader' = leader /\ nextBeat' = nextBeat
        /\ registered' = registered /\ alive' = alive
    BY DEF BeatAccepted, clusterVars, timers
  <2>2. CASE m = n
    <3>1. lastHeartbeat'[leader][m] = 0 /\ beat'[m] = NoBeat
      BY <1>1, <2>1, <2>2
         DEF BeatAccepted, EndBeat, Timely, ClocksInv, BeatsInv
    <3>. QED BY <2>1, <3>1 DEF ClocksInv
  <2>3. CASE m # n
    <3>1. beat'[m] = beat[m]
      BY <2>3 DEF BeatAccepted, EndBeat, BeatsInv
    <3>2. lastHeartbeat'[leader][m] = lastHeartbeat[leader][m]
      BY <1>1, <2>3 DEF BeatAccepted, ClocksInv
    <3>3. /\ m \notin missed' => m \notin missed
          /\ <<leader, m>> \notin stale' => <<leader, m>> \notin stale
      BY <2>3 DEF BeatAccepted
    <3>4. Timely(m)
      BY <2>1, <3>2, <3>3 DEF Timely
    <3>. QED BY <2>1, <3>1, <3>2, <3>4 DEF AgesInv
  <2>. QED BY <2>2, <2>3
<1>. QED BY <1>2, <1>3, <1>4, <1>5

LEMMA NextServerKeeps ==
  ASSUME IInv, NEW n \in Nodes, NextServer(n) PROVE IInv'
<1>. USE Constants
<1>. USE DEF IInv
<1>1. ClusterInv'
  BY DEF ClusterInv, NextServer, clusterVars
<1>2. ClocksInv'
  BY DEF ClocksInv, NextServer, timers
<1>3. beat[n].toTry # <<>> /\ beat[n] # NoBeat
  BY NoBeatFields DEF NextServer, Trying
<1>4. Tail(beat[n].toTry) \in Seq(Servers)
  BY <1>3 DEF BeatsInv
<1>5. /\ beat'[n] \in [toTry : Seq(Servers), elapsed : -1..Deadline]
      /\ beat'[n].elapsed = beat[n].elapsed
      /\ \A m \in Nodes \ {n} : beat'[m] = beat[m]
      /\ beat' \in [Nodes -> [toTry : Seq(Servers), elapsed : -1..Deadline]]
  BY <1>4 DEF NextServer, BeatsInv
<1>6. BeatsInv'
  BY <1>3, <1>5 DEF BeatsInv, NextServer, clusterVars, timers
<1>7. beat'[n] # NoBeat
  BY <1>3, <1>5, NoBeatFields DEF BeatsInv
<1>8. AgesInv'
  BY <1>3, <1>5, <1>7 DEF NextServer, AgesInv, Timely, clusterVars, timers
<1>. QED BY <1>1, <1>2, <1>6, <1>8

LEMMA BeatFailsKeeps ==
  ASSUME IInv, NEW n \in Nodes, BeatFails(n) PROVE IInv'
<1>. USE DEF IInv
<1>1. ClusterInv' /\ ClocksInv'
  BY DEF ClusterInv, ClocksInv, BeatFails, clusterVars, timers
<1>2. BeatsInv'
  <2>1. /\ beat' = [beat EXCEPT ![n] = NoBeat]
        /\ nextBeat' = nextBeat /\ alive' = alive
    BY DEF BeatFails, EndBeat, clusterVars, timers
  <2>2. NoBeat \in [toTry : Seq(Servers), elapsed : -1..Deadline]
    BY Constants DEF NoBeat
  <2>. QED BY <2>1, <2>2 DEF BeatsInv
<1>3. AgesInv'
  BY DEF BeatFails, EndBeat, AgesInv, Timely, BeatsInv, clusterVars, timers
<1>. QED BY <1>1, <1>2, <1>3

-----------------------------------------------------------------------------
(* The passing of time. *)
LEMMA TickKeeps == ASSUME IInv, Tick PROVE IInv'
<1>. USE Constants
<1>. USE DEF IInv
<1>1. \A n \in Nodes :
        \/ beat[n] = NoBeat /\ beat'[n] = NoBeat
        \/ /\ beat[n] # NoBeat /\ n \in alive
           /\ beat[n].elapsed \in 0..Deadline - 1
           /\ beat'[n] \in [toTry : Seq(Servers), elapsed : -1..Deadline]
           /\ beat'[n].elapsed = beat[n].elapsed + 1
           /\ beat'[n] # NoBeat
  <2>. SUFFICES ASSUME NEW n \in Nodes, beat[n] # NoBeat
       PROVE  /\ n \in alive
              /\ beat[n].elapsed \in 0..Deadline - 1
              /\ beat'[n] \in [toTry : Seq(Servers), elapsed : -1..Deadline]
              /\ beat'[n].elapsed = beat[n].elapsed + 1
              /\ beat'[n] # NoBeat
    BY DEF Tick
  <2>1. /\ n \in alive /\ beat[n].elapsed \in 0..Deadline
        /\ beat[n] \in [toTry : Seq(Servers), elapsed : -1..Deadline]
    BY DEF BeatsInv
  <2>2. beat[n].elapsed < Deadline
    BY <2>1 DEF Tick, MayTick
  <2>3. beat'[n] = [beat[n] EXCEPT !.elapsed = beat[n].elapsed + 1]
    BY DEF Tick
  <2>4. beat'[n] = [toTry |-> beat[n].toTry, elapsed |-> beat[n].elapsed + 1]
    BY <2>1, <2>3
  <2>. QED BY <2>1, <2>2, <2>4, NoBeatFields
<1>2. ClusterInv'
  <2>1. missed' \subseteq Nodes
    BY DEF ClusterInv, Tick
  <2>. QED BY <2>1 DEF ClusterInv, Tick, clusterVars
<1>3. ClocksInv'
  <2>1. lastHeartbeat' \in [Servers -> [Nodes -> Ages \cup {None}]]
    <3>1. ASSUME NEW s \in Servers, NEW n \in Nodes
          PROVE  lastHeartbeat'[s][n] \in Ages \cup {None}
      <4>1. lastHeartbeat[s][n] \in Ages \cup {None}
        BY DEF ClocksInv
      <4>2. lastHeartbeat'[s][n] =
              IF lastHeartbeat[s][n] \in 0..Timeout
              THEN lastHeartbeat[s][n] + 1 ELSE lastHeartbeat[s][n]
        BY DEF Tick
      <4>. HIDE DEF IInv
      <4>. QED BY <4>1, <4>2 DEF Ages
    <3>2. lastHeartbeat' = [s \in Servers |-> [n \in Nodes |->
                              lastHeartbeat'[s][n]]]
      BY DEF Tick
    <3>. HIDE DEF IInv
    <3>. QED BY <3>1, <3>2
  <2>2. nextCheck' \in [Servers -> 0..Interval]
    BY DEF ClocksInv, Tick, MayTick
  <2>3. nextBeat' \in [Nodes -> 0..Interval]
    <3>1. \A n \in Nodes : /\ nextBeat[n] \in 0..Interval
                           /\ n \in alive => nextBeat[n] > 0
      BY DEF ClocksInv, Tick, MayTick
    <3>2. nextBeat' = [n \in Nodes |->
            IF n \in alive THEN nextBeat[n] - 1 ELSE nextBeat[n]]
      BY DEF Tick
    <3>. HIDE DEF IInv
    <3>. QED BY <3>1, <3>2
  <2>. QED BY <2>1, <2>2, <2>3 DEF ClocksInv, Tick
<1>4. \A n \in alive : nextBeat'[n] = nextBeat[n] - 1 /\ nextBeat[n] \in 1..Interval
  BY DEF Tick, MayTick, ClocksInv, ClusterInv
<1>5. BeatsInv'
  <2>1. beat' \in [Nodes -> [toTry : Seq(Servers), elapsed : -1..Deadline]]
    <3>1. NoBeat \in [toTry : Seq(Servers), elapsed : -1..Deadline]
      BY DEF NoBeat
    <3>2. beat' = [n \in Nodes |-> beat'[n]]
      BY DEF Tick
    <3>. QED BY <1>1, <3>1, <3>2
  <2>2. ASSUME NEW n \in Nodes, beat'[n] # NoBeat
        PROVE  /\ n \in alive' /\ beat'[n].elapsed >= 0
               /\ nextBeat'[n] = Interval - beat'[n].elapsed
    <3>1. alive' = alive /\ beat[n] # NoBeat
      BY <1>1, <2>2 DEF Tick, clusterVars
    <3>2. beat[n].elapsed >= 0 /\ nextBeat[n] = Interval - beat[n].elapsed
      BY <3>1 DEF BeatsInv
    <3>3. n \in alive /\ beat'[n].elapsed = beat[n].elapsed + 1
          /\ beat[n].elapsed \in 0..Deadline - 1
      BY <1>1, <3>1
    <3>4. nextBeat'[n] = nextBeat[n] - 1
      BY <1>4, <3>3
    <3>5. Interval - beat[n].elapsed - 1 = Interval - (beat[n].elapsed + 1)
          /\ beat[n].elapsed + 1 >= 0
      BY <3>3
    <3>. HIDE DEF IInv
    <3>. QED BY <3>1, <3>2, <3>3, <3>4, <3>5
  <2>. QED BY <2>1, <2>2 DEF BeatsInv
<1>6. AgesInv'
  <2>. SUFFICES ASSUME NEW n \in Nodes, Timely(n)'
       PROVE  (/\ lastHeartbeat[leader][n] <= Timeout
               /\ lastHeartbeat[leader][n] <=
                    IF beat[n] = NoBeat THEN Interval - nextBeat[n]
                    ELSE Interval + beat[n].elapsed)'
    BY DEF AgesInv
  <2>1. leader' = leader /\ leader \in Servers /\ n \in alive /\ Timely(n)
        /\ ~(beat'[n].elapsed > Slack)
    <3>1. /\ leader' = leader /\ alive' = alive /\ registered' = registered
          /\ stale' = stale
          /\ missed' = missed \cup {k \in Nodes : beat'[k].elapsed > Slack}
      BY DEF Tick, clusterVars
    <3>2. /\ n \in alive \cap registered /\ leader # None
          /\ n \notin missed /\ <<leader, n>> \notin stale
          /\ lastHeartbeat'[leader][n] # None
          /\ ~(beat'[n].elapsed > Slack)
      BY <3>1 DEF Timely
    <3>3. leader \in Servers
      BY <3>2 DEF ClusterInv
    <3>4. lastHeartbeat[leader][n] # None
      BY <3>2, <3>3 DEF Tick
    <3>. QED BY <3>1, <3>2, <3>3, <3>4 DEF Timely
  <2>2. /\ lastHeartbeat[leader][n] \in 0..Timeout
        /\ lastHeartbeat'[leader][n] = lastHeartbeat[leader][n] + 1
    BY <2>1 DEF AgesInv, Timely, ClocksInv, Tick, Ages
  <2>3. CASE beat[n] = NoBeat
    <3>1. lastHeartbeat[leader][n] <= Interval - nextBeat[n]
      BY <2>1, <2>3 DEF AgesInv
    <3>2. beat'[n] = NoBeat
      BY <2>3 DEF Tick
    <3>3. nextBeat'[n] = nextBeat[n] - 1 /\ nextBeat[n] \in 1..Interval
      BY <1>4, <2>1
    <3>. QED BY <2>1, <2>2, <3>1, <3>2, <3>3
  <2>4. CASE beat[n] # NoBeat
    <3>1. lastHeartbeat[leader][n] <= Interval + beat[n].elapsed
      BY <2>1, <2>4 DEF AgesInv
    <3>2. /\ beat[n].elapsed \in 0..Deadline - 1
          /\ beat'[n].elapsed = beat[n].elapsed + 1
          /\ beat'[n] # NoBeat
      BY <1>1, <2>4
    <3>3. lastHeartbeat'[leader][n] <= Interval + beat'[n].elapsed
      <4>. DEFINE a == lastHeartbeat[leader][n]
                  e == beat[n].elapsed
      <4>1. a \in Int /\ e \in Int /\ a <= Interval + e
        BY <2>2, <3>1, <3>2
      <4>. HIDE DEF a, e
      <4>2. a + 1 <= Interval + (e + 1)
        BY <4>1
      <4>. QED BY <2>2, <3>2, <4>2 DEF a, e
    <3>4. Interval + beat'[n].elapsed <= Timeout
      BY <2>1, <3>2
    <3>5. lastHeartbeat'[leader][n] <= Timeout
      <4>1. lastHeartbeat'[leader][n] \in Int
        BY <2>2
      <4>. QED BY <3>2, <3>3, <3>4, <4>1
    <3>. QED BY <2>1, <3>2, <3>3, <3>5
  <2>. QED BY <2>3, <2>4
<1>. QED BY <1>2, <1>3, <1>5, <1>6

-----------------------------------------------------------------------------
LEMMA NextIInv == IInv /\ [Next]_vars => IInv'
<1>. SUFFICES ASSUME IInv, [Next]_vars PROVE IInv'
  OBVIOUS
<1>1. ASSUME NEW s \in Servers, Check(s) PROVE IInv'
  BY <1>1, CheckKeeps
<1>2. ASSUME NEW s \in Servers, Elect(s) PROVE IInv'
  BY <1>2, ElectKeeps
<1>3. ASSUME NEW s \in Servers, FailServer(s) PROVE IInv'
  BY <1>3, FailServerKeeps
<1>4. CASE StepDown
  BY <1>4, StepDownKeeps
<1>5. ASSUME NEW n \in Nodes, CrashNode(n) PROVE IInv'
  BY <1>5, CrashNodeKeeps
<1>6. ASSUME NEW n \in Nodes,
             StartBeat(n) \/ BeatAccepted(n) \/ NextServer(n) \/ BeatFails(n)
      PROVE  IInv'
  BY <1>6, StartBeatKeeps, BeatAcceptedKeeps, NextServerKeeps, BeatFailsKeeps
<1>7. CASE Tick
  BY <1>7, TickKeeps
<1>8. CASE UNCHANGED vars
  BY <1>8 DEF vars, clusterVars, timers, IInv, ClusterInv, ClocksInv,
              BeatsInv, AgesInv, Timely
<1>. QED BY <1>1, <1>2, <1>3, <1>4, <1>5, <1>6, <1>7, <1>8
         DEF Next, Environment, System

LEMMA InductiveInvariant == Spec => []IInv
BY InitIInv, NextIInv, PTL DEF Spec

(* Every variable keeps to its type: in particular no clock runs past what *)
(* the code lets it, and a node's deadline is over before its next         *)
(* heartbeat is due.                                                       *)
THEOREM HeartbeatsTypeCorrect == Spec => []HeartbeatsTypeOK
<1>1. IInv => HeartbeatsTypeOK
  <2>. SUFFICES ASSUME IInv PROVE HeartbeatsTypeOK
    OBVIOUS
  <2>. USE DEF IInv
  <2>1. ASSUME NEW n \in Nodes
        PROVE  /\ beat[n].elapsed \in -1..Deadline
               /\ ToSet(beat[n].toTry) \subseteq Servers
               /\ nextBeat[n] = 0 => beat[n] = NoBeat
    BY Constants DEF BeatsInv, ToSet
  <2>. QED BY <2>1 DEF ClusterInv, ClocksInv, HeartbeatsTypeOK
<1>. QED BY <1>1, InductiveInvariant, PTL

(* A node that runs is removed only by a leader that has missed a          *)
(* heartbeat of it, or that judges by a time of an earlier leadership      *)
(* (identifyDeadNodes), whatever servers crash, hang or cease to lead.     *)
THEOREM LiveNodesStay == Spec => RemovedOnlyIfSilent
<1>1. ASSUME IInv, [Next]_vars, NEW n \in alive \cap registered,
             n \notin registered'
      PROVE  n \in missed \/ <<leader, n>> \in stale
  <2>1. PICK s \in Servers : Check(s)
    BY <1>1 DEF Next, Environment, System, Elect, StepDown, FailServer,
                CrashNode, StartBeat, BeatAccepted, NextServer, BeatFails,
                Tick, clusterVars, vars
  <2>2. s = leader /\ n \in DeadNodes(s) /\ n \in Nodes
    BY <1>1, <2>1 DEF Check, IsLeader, IInv, ClusterInv
  <2>3. lastHeartbeat[leader][n] = Timeout + 1 /\ leader # None
    BY <2>2, Constants DEF DeadNodes
  <2>. QED BY <1>1, <2>2, <2>3, Constants DEF IInv, AgesInv, Timely, Ages
<1>2. IInv /\ [Next]_vars =>
        [\A n \in alive \cap registered :
           n \notin registered' => n \in missed \/ <<leader, n>> \in stale]_vars
  BY <1>1
<1>. QED BY <1>2, InductiveInvariant, PTL DEF Spec, RemovedOnlyIfSilent
=============================================================================
