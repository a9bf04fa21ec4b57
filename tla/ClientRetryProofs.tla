------------------------- MODULE ClientRetryProofs -------------------------
(***************************************************************************)
(* Proofs about ClientRetry for any number of goroutines, servers and      *)
(* nodes, every chain and every number of failures and changes.            *)
(***************************************************************************)
EXTENDS ClientRetry, TLAPS

Kinds == {"none", "start", "write", "read", "discover"}
Places == {"idle", "asking", "resetting", "fetching", "sent", "done"}

Connections ==
  [by : Goroutines \cup {None}, for : Kinds, server : ControlServers \cup {None}]

Requests ==
  [pc : Places, kind : Kinds, attempt : 0..2, node : Nodes \cup {None},
   served : BOOLEAN, snapshot : Connections, via : Connections,
   toTry : Seq(ControlServers), found : States \cup {NoNodes},
   executed : Nat, lost : BOOLEAN]

ClientTypes ==
  /\ phase \in {"starting", "running", "ended", "panicked"}
  /\ ends \in States \cup {NoNodes}
  /\ controlConn \in Connections
  /\ request \in [Goroutines -> Requests]

ClusterTypes ==
  /\ cluster \in Seq(States \cup {NoNodes})
  /\ known \in 1..Len(cluster)

(* The chain has had these ends. *)
HasBeen(nodes) == \E i \in 1..Len(cluster) : cluster[i] = nodes

(* What a search has found, and what is installed of it, is of one state;  *)
(* until the client set is there, nobody but newClientSet searches.        *)
BeforeStart(r) ==
  r.pc = "idle" \/ (r.kind = "start" /\ r.pc \in {"asking", "resetting"})

AnswersInv ==
  /\ \A g \in Goroutines :
       request[g].pc = "resetting" => HasBeen(request[g].found)
  /\ phase = "starting" =>
       /\ ends = NoNodes
       /\ \A g \in Goroutines : BeforeStart(request[g])
  /\ phase = "running" => HasBeen(ends)

SwitchInv == phase \in {"starting", "running"} => controlConn \notin closed

(* How often a write has been carried out, by how far its request is: once *)
(* per attempt at most, and the second attempt is made for a request that  *)
(* was refused or whose answer was lost.                                   *)
FirstOnlyIfLost(r) == r.executed = 0 \/ (r.executed = 1 /\ r.lost)

AttemptInv(r) ==
  /\ r.pc \in {"idle", "done"} => r.executed = 0
  /\ r.pc \in {"asking", "resetting"} => FirstOnlyIfLost(r)
  /\ r.pc \in {"fetching", "sent"} =>
       IF r.attempt = 1
       THEN \/ r.executed = 0
            \/ r.executed = 1 /\ r.pc = "sent" /\ r.served
       ELSE \/ FirstOnlyIfLost(r)
            \/ r.executed = 1 /\ r.pc = "sent" /\ r.served
            \/ r.executed = 2 /\ r.pc = "sent" /\ r.served /\ r.lost

AttemptsInv == \A g \in Goroutines : AttemptInv(request[g])

IInv == ClientTypes /\ ClusterTypes /\ AnswersInv /\ SwitchInv /\ AttemptsInv

-----------------------------------------------------------------------------
LEMMA NoRequestType == NoRequest \in Requests /\ AttemptInv(NoRequest)
BY DEF NoRequest, Requests, NoConn, Connections, NoNodes, Kinds, Places,
       AttemptInv, FirstOnlyIfLost

LEMMA ReturnedType == Returned \in Requests /\ AttemptInv(Returned)
BY NoRequestType DEF Returned, Requests, Places, AttemptInv, NoRequest

(* One goroutine's step. *)
LEMMA RequestChanges ==
  ASSUME IInv, NEW g \in Goroutines, NEW r \in Requests,
         request' = [request EXCEPT ![g] = r],
         AttemptInv(r),
         r.pc = "resetting" => HasBeen(r.found),
         phase = "starting" => BeforeStart(r),
         UNCHANGED <<phase, ends, cluster>>
  PROVE  request' \in [Goroutines -> Requests] /\ AttemptsInv' /\ AnswersInv'
<1>1. /\ request' \in [Goroutines -> Requests]
      /\ \A h \in Goroutines : request'[h] = IF h = g THEN r ELSE request[h]
  BY DEF IInv, ClientTypes
<1>2. AttemptsInv'
  BY <1>1 DEF IInv, AttemptsInv
<1>3. AnswersInv'
  BY <1>1 DEF IInv, AnswersInv, HasBeen
<1>. QED BY <1>1, <1>2, <1>3

(* A goroutine's step that leaves the connections alone. *)
LEMMA RequestOnly ==
  ASSUME IInv, NEW g \in Goroutines, NEW r \in Requests,
         request' = [request EXCEPT ![g] = r],
         AttemptInv(r),
         r.pc = "resetting" => HasBeen(r.found),
         phase = "starting" => BeforeStart(r),
         UNCHANGED <<phase, ends, controlConn, closed, cluster, known>>
  PROVE  IInv'
BY RequestChanges DEF IInv, ClientTypes, ClusterTypes, SwitchInv

(* The process ends. *)
LEMMA EndKeeps ==
  ASSUME IInv, NEW how \in {"ended", "panicked"}, End(how),
         UNCHANGED <<ends, controlConn, cluster, known>>
  PROVE  IInv'
<1>1. /\ phase' = how
      /\ \A g \in Goroutines : request'[g] = NoRequest
      /\ request' \in [Goroutines -> Requests]
  BY NoRequestType DEF End
<1>2. ClientTypes' /\ ClusterTypes'
  BY <1>1 DEF IInv, ClientTypes, ClusterTypes
<1>3. AnswersInv' /\ SwitchInv'
  BY <1>1 DEF AnswersInv, SwitchInv, NoRequest
<1>4. AttemptsInv'
  BY <1>1, NoRequestType DEF AttemptsInv
<1>. QED BY <1>2, <1>3, <1>4 DEF IInv

-----------------------------------------------------------------------------
LEMMA InitIInv == Init => IInv
<1>. SUFFICES ASSUME Init PROVE IInv
  OBVIOUS
<1>1. PICK s \in States : cluster = <<s>>
  BY ClientRetryAssumption DEF Init
<1>2. request \in [Goroutines -> Requests] /\ AttemptsInv
  BY NoRequestType DEF Init, AttemptsInv
<1>3. ClientTypes /\ ClusterTypes
  BY <1>1, <1>2 DEF Init, ClientTypes, ClusterTypes, NoConn, Connections, Kinds
<1>4. AnswersInv /\ SwitchInv
  BY DEF Init, AnswersInv, SwitchInv, NoRequest, BeforeStart
<1>. QED BY <1>2, <1>3, <1>4 DEF IInv

(* A search begins for a goroutine that was idle, or whose first attempt   *)
(* was refused or lost its answer.                                         *)
LEMMA SearchStarts ==
  ASSUME IInv, NEW g \in Goroutines, NEW kind \in Kinds,
         NEW lost \in BOOLEAN, TryControlPlaneRequest(g, kind, lost),
         \/ request[g].executed = 0
         \/ request[g].executed = 1 /\ lost,
         phase = "starting" => kind = "start",
         UNCHANGED <<phase, ends, controlConn, closed, cluster, known>>
  PROVE  IInv'
<1>. DEFINE r == [request[g] EXCEPT
                    !.pc = "asking", !.kind = kind,
                    !.node = None, !.served = FALSE,
                    !.snapshot = controlConn, !.via = controlConn,
                    !.toTry = ControlPlaneAddrs,
                    !.lost = request[g].executed > 0 /\ lost]
<1>1. request[g] \in Requests /\ controlConn \in Connections
  BY DEF IInv, ClientTypes
<1>2. r \in Requests
  BY <1>1, ClientRetryAssumption DEF Requests, Places
<1>3. request' = [request EXCEPT ![g] = r]
  BY DEF TryControlPlaneRequest
<1>4. /\ r.pc = "asking" /\ r.kind = kind /\ r.executed = request[g].executed
      /\ r.lost <=> request[g].executed > 0 /\ lost
  BY <1>1 DEF Requests
<1>. HIDE DEF r
<1>5. AttemptInv(r)
  BY <1>4 DEF AttemptInv, FirstOnlyIfLost
<1>6. phase = "starting" => BeforeStart(r)
  BY <1>4 DEF BeforeStart
<1>. QED BY <1>2, <1>3, <1>4, <1>5, <1>6, RequestOnly

LEMMA SearchStep ==
  ASSUME IInv, NEW g \in Goroutines, Search(g)
  PROVE  IInv'
<1>1. request[g].executed = 0
  BY DEF Search, At, IInv, AttemptsInv, AttemptInv
<1>2. UNCHANGED <<phase, ends, controlConn, closed, cluster, known>>
  BY DEF Search, clusterVars
<1>3. CASE phase = "starting"
  BY <1>1, <1>2, <1>3, SearchStarts DEF Search, Kinds
<1>4. CASE phase # "starting"
  BY <1>1, <1>2, <1>4, SearchStarts DEF Search, Kinds
<1>. QED BY <1>3, <1>4

LEMMA TryNextKeeps ==
  ASSUME IInv, NEW g \in Goroutines, At(g, "asking"), NEW trouble,
         TryNext(g, trouble), UNCHANGED clusterVars
  PROVE  IInv'
<1>. DEFINE old == request[g]
            r == [old EXCEPT !.via = Conn(g, old.kind, Head(old.toTry)),
                             !.toTry = Tail(old.toTry)]
<1>1. /\ UNCHANGED <<ends, controlConn, closed, cluster, known>>
      /\ old \in Requests /\ old.pc = "asking" /\ AttemptInv(old)
      /\ phase = "starting" => old.kind = "start"
  BY DEF TryNext, clusterVars, At, IInv, ClientTypes, AttemptsInv, AnswersInv,
         BeforeStart
<1>2. CASE old.toTry = <<>>
  BY <1>1, <1>2, EndKeeps DEF TryNext
<1>3. CASE old.toTry # <<>>
  <2>1. request' = [request EXCEPT ![g] = r] /\ UNCHANGED phase
    BY <1>3 DEF TryNext
  <2>2. /\ Head(old.toTry) \in ControlServers
        /\ Tail(old.toTry) \in Seq(ControlServers)
        /\ old.kind \in Kinds
    BY <1>1, <1>3 DEF Requests
  <2>3. r \in Requests
    BY <1>1, <2>2 DEF Requests, Conn, Connections
  <2>4. /\ r.pc = "asking" /\ r.kind = old.kind
        /\ r.executed = old.executed /\ r.lost = old.lost
    BY <1>1 DEF Requests
  <2>. HIDE DEF r
  <2>5. AttemptInv(r)
    BY <1>1, <2>4 DEF AttemptInv, FirstOnlyIfLost
  <2>6. phase = "starting" => BeforeStart(r)
    BY <1>1, <2>4 DEF BeforeStart
  <2>. QED BY <2>6, <1>1, <2>1, <2>3, <2>4, <2>5, RequestOnly
<1>. QED BY <1>2, <1>3

(* A search that succeeds takes an open connection into use. *)
LEMMA SucceedKeeps ==
  ASSUME IInv, NEW g \in Goroutines, Asking(g), request[g].via \notin closed,
         cluster[known] # NoNodes, Succeed(g, cluster[known]),
         UNCHANGED clusterVars
  PROVE  IInv'
<1>. DEFINE old == request[g]
            r == Found(g, cluster[known])
<1>1. /\ old \in Requests /\ old.pc = "asking" /\ AttemptInv(old)
      /\ phase = "starting" => old.kind = "start"
      /\ UNCHANGED <<phase, ends, cluster, known>>
  BY DEF Succeed, clusterVars, Asking, At, IInv, ClientTypes, AttemptsInv,
         AnswersInv, BeforeStart
<1>2. HasBeen(cluster[known]) /\ cluster[known] \in States \cup {NoNodes}
  BY DEF HasBeen, IInv, ClusterTypes
<1>3. r \in Requests /\ AttemptInv(r)
  <2>1. CASE old.kind = "discover"
    BY <2>1, ReturnedType DEF Found
  <2>2. CASE old.kind # "discover"
    <3>1. r = [old EXCEPT !.pc = "resetting", !.found = cluster[known],
                          !.snapshot = NoConn, !.via = NoConn, !.toTry = <<>>]
      BY <2>2 DEF Found
    <3>2. r \in Requests
      <4>1. /\ NoConn \in Connections /\ "resetting" \in Places
            /\ <<>> \in Seq(ControlServers)
        BY DEF NoConn, Connections, Kinds, Places
      <4>. HIDE DEF old
      <4>. QED BY <1>1, <1>2, <3>1, <4>1 DEF Requests
    <3>3. r.pc = "resetting" /\ r.executed = old.executed /\ r.lost = old.lost
      BY <1>1, <3>1 DEF Requests
    <3>. HIDE DEF r
    <3>4. AttemptInv(r)
      BY <1>1, <3>3 DEF AttemptInv, FirstOnlyIfLost
    <3>. QED BY <3>2, <3>4
  <2>. QED BY <2>1, <2>2
<1>4. /\ r.pc = "resetting" => HasBeen(r.found)
      /\ phase = "starting" => BeforeStart(r)
  <2>1. CASE old.kind = "discover"
    BY <1>1, <2>1 DEF Found, Returned, NoRequest, BeforeStart
  <2>2. CASE old.kind # "discover"
    BY <1>1, <1>2, <2>2 DEF Found, Requests, BeforeStart
  <2>. QED BY <2>1, <2>2
<1>5. request' = [request EXCEPT ![g] = r]
  BY DEF Succeed
<1>. HIDE DEF r
<1>6. request' \in [Goroutines -> Requests] /\ AttemptsInv' /\ AnswersInv'
  BY <1>1, <1>3, <1>4, <1>5, RequestChanges
<1>7. ClientTypes' /\ ClusterTypes'
  BY <1>1, <1>6 DEF IInv, ClientTypes, ClusterTypes, Succeed, Requests
<1>8. SwitchInv'
  BY <1>1 DEF Succeed, IInv, SwitchInv, Asking, At, Running
<1>. QED BY <1>6, <1>7, <1>8 DEF IInv

LEMMA SearchFailsKeeps ==
  ASSUME IInv, NEW g \in Goroutines, Asking(g), SearchFails(g),
         UNCHANGED clusterVars
  PROVE  IInv'
<1>1. UNCHANGED <<ends, controlConn, closed, cluster, known>>
  BY DEF SearchFails, clusterVars
<1>2. CASE request[g].kind = "start"
  BY <1>1, <1>2, EndKeeps DEF SearchFails
<1>3. CASE request[g].kind # "start"
  <2>1. phase # "starting"
    BY <1>3 DEF Asking, At, IInv, AnswersInv, BeforeStart
  <2>2. UNCHANGED phase /\ request' = [request EXCEPT ![g] = Returned]
    BY <1>3 DEF SearchFails, Return
  <2>3. Returned.pc = "done"
    BY DEF Returned, NoRequest
  <2>. QED BY <1>1, <2>1, <2>2, <2>3, ReturnedType, RequestOnly
<1>. QED BY <1>2, <1>3

LEMMA AskingStep ==
  ASSUME IInv, NEW g \in Goroutines,
         NoCurrent(g) \/ Asked(g) \/ AskedTimesOut(g)
  PROVE  IInv'
<1>1. CASE NoCurrent(g) \/ AskedTimesOut(g)
  BY <1>1, TryNextKeeps DEF NoCurrent, AskedTimesOut, Asking
<1>2. CASE Asked(g)
  BY <1>2, TryNextKeeps, SearchFailsKeeps, SucceedKeeps DEF Asked, Asking
<1>. QED BY <1>1, <1>2

-----------------------------------------------------------------------------
LEMMA CallStep ==
  ASSUME IInv, NEW g \in Goroutines, NEW kind \in {"write", "read"},
         Call(g, kind)
  PROVE  IInv'
<1>. DEFINE old == request[g]
            r == [old EXCEPT !.pc = "fetching", !.kind = kind, !.attempt = 1]
<1>1. /\ old \in Requests /\ old.executed = 0 /\ phase = "running"
      /\ UNCHANGED <<phase, ends, controlConn, closed, cluster, known>>
  BY DEF Call, clusterVars, At, IInv, ClientTypes, AttemptsInv, AttemptInv
<1>2. request' = [request EXCEPT ![g] = r]
  BY DEF Call, IInv, ClientTypes, Requests
<1>3. /\ r \in Requests
      /\ r.pc = "fetching" /\ r.attempt = 1 /\ r.executed = 0
  <2>1. kind \in Kinds /\ "fetching" \in Places /\ 1 \in 0..2
    BY DEF Kinds, Places
  <2>. QED BY <1>1, <2>1 DEF Requests
<1>. HIDE DEF r
<1>4. AttemptInv(r)
  BY <1>3 DEF AttemptInv
<1>. QED BY <1>1, <1>2, <1>3, <1>4, RequestOnly

LEMMA FetchStep ==
  ASSUME IInv, NEW g \in Goroutines, Fetch(g)
  PROVE  IInv'
<1>. DEFINE old == request[g]
            node == IF old.kind = "write" THEN ends.head ELSE ends.tail
            r == [old EXCEPT !.pc = "sent", !.served = FALSE, !.node = node]
<1>1. /\ old \in Requests /\ old.pc = "fetching" /\ AttemptInv(old)
      /\ phase # "starting"
      /\ UNCHANGED <<phase, ends, controlConn, closed, cluster, known>>
  BY DEF Fetch, clusterVars, At, IInv, ClientTypes, AttemptsInv, AnswersInv,
         BeforeStart
<1>2. node \in Nodes \cup {None}
  BY ClientRetryAssumption DEF IInv, ClientTypes, NoNodes
<1>3. request' = [request EXCEPT ![g] = r]
  BY DEF Fetch
<1>. HIDE DEF node
<1>4. /\ r \in Requests
      /\ r.pc = "sent" /\ r.kind = old.kind /\ r.attempt = old.attempt
      /\ r.executed = old.executed /\ r.lost = old.lost
  BY <1>1, <1>2 DEF Requests, Places
<1>. HIDE DEF r
<1>5. AttemptInv(r)
  BY <1>1, <1>4 DEF AttemptInv, FirstOnlyIfLost
<1>. QED BY <1>1, <1>3, <1>4, <1>5, RequestOnly

(* The write is carried out once more: the first time in this attempt.     *)
LEMMA ServeStep ==
  ASSUME IInv, NEW g \in Goroutines, Serve(g)
  PROVE  IInv'
<1>. DEFINE old == request[g]
            times == IF old.kind = "write" THEN old.executed + 1
                     ELSE old.executed
            r == [old EXCEPT !.served = TRUE, !.executed = times]
<1>1. /\ old \in Requests /\ old.pc = "sent" /\ ~old.served /\ AttemptInv(old)
      /\ phase # "starting"
      /\ UNCHANGED <<phase, ends, controlConn, closed, cluster, known>>
  BY DEF Serve, clusterVars, At, IInv, ClientTypes, AttemptsInv, AnswersInv,
         BeforeStart
<1>2. request' = [request EXCEPT ![g] = r]
  BY DEF Serve
<1>3. times \in Nat /\ times \in {old.executed, old.executed + 1}
  BY <1>1 DEF Requests
<1>. HIDE DEF times
<1>4. /\ r \in Requests
      /\ r.pc = "sent" /\ r.kind = old.kind /\ r.attempt = old.attempt
      /\ r.served /\ r.executed = times /\ r.lost = old.lost
  BY <1>1, <1>3 DEF Requests, Places
<1>. HIDE DEF r
<1>5. AttemptInv(r)
  BY <1>1, <1>3, <1>4 DEF AttemptInv, FirstOnlyIfLost, Requests
<1>. QED BY <1>1, <1>2, <1>4, <1>5, RequestOnly

LEMMA ReturnKeeps ==
  ASSUME IInv, NEW g \in Goroutines, At(g, "sent"), Return(g),
         UNCHANGED <<phase, ends, controlConn, closed, cluster, known>>
  PROVE  IInv'
<1>1. request' = [request EXCEPT ![g] = Returned] /\ Returned.pc = "done"
  BY DEF Return, Returned, NoRequest
<1>2. phase # "starting"
  BY DEF At, IInv, AnswersInv, BeforeStart
<1>. QED BY <1>1, <1>2, ReturnedType, RequestOnly

(* A request that fails returns, or, after its first attempt, looks for    *)
(* the chain again; then it was refused or its answer was lost.            *)
LEMMA FetchFailsKeeps ==
  ASSUME IInv, NEW g \in Goroutines, At(g, "sent"),
         NEW error, NEW lost \in BOOLEAN, FetchFails(g, error, lost),
         Retried(g, error) => ~request[g].served \/ lost,
         UNCHANGED <<phase, ends, controlConn, closed, cluster, known>>
  PROVE  IInv'
<1>1. CASE ~Retried(g, error)
  BY <1>1, ReturnKeeps DEF FetchFails
<1>2. CASE Retried(g, error)
  <2>1. TryControlPlaneRequest(g, request[g].kind, lost)
    BY <1>2 DEF FetchFails
  <2>2. /\ request[g].pc = "sent" /\ request[g].attempt = 1
        /\ AttemptInv(request[g]) /\ request[g].kind \in Kinds
        /\ phase # "starting"
    BY <1>2 DEF At, Retried, IInv, AttemptsInv, AnswersInv, BeforeStart,
                ClientTypes, Requests
  <2>3. request[g].executed = 0 \/ (request[g].executed = 1 /\ lost)
    BY <1>2, <2>2 DEF AttemptInv
  <2>. QED BY <2>1, <2>2, <2>3, SearchStarts
<1>. QED BY <1>1, <1>2

LEMMA SentStep ==
  ASSUME IInv, NEW g \in Goroutines,
         \/ FetchSucceeds(g)
         \/ Refused(g)
         \/ NodeUnavailable(g)
         \/ NodeErrs(g)
         \/ FetchTimesOut(g)
  PROVE  IInv'
<1>1. /\ At(g, "sent")
      /\ UNCHANGED <<phase, ends, controlConn, closed, cluster, known>>
  BY DEF FetchSucceeds, Refused, NodeUnavailable, NodeErrs, FetchTimesOut,
         Unchanged, clusterVars
<1>2. CASE FetchSucceeds(g)
  BY <1>1, <1>2, ReturnKeeps DEF FetchSucceeds
<1>3. CASE Refused(g)
  <2>1. PICK error \in {"FailedPrecondition", "final"} :
          FetchFails(g, error, FALSE)
    BY <1>3 DEF Refused
  <2>. QED BY <1>1, <1>3, <2>1, FetchFailsKeeps DEF Refused
<1>4. CASE NodeUnavailable(g) \/ NodeErrs(g)
  BY <1>1, <1>4, FetchFailsKeeps DEF NodeUnavailable, NodeErrs
<1>5. CASE FetchTimesOut(g)
  <2>1. ~Retried(g, "DeadlineExceeded")
    BY DEF Retried
  <2>. QED BY <1>1, <1>5, <2>1, FetchFailsKeeps DEF FetchTimesOut
<1>. QED BY <1>2, <1>3, <1>4, <1>5

(* The ends that are installed are those of one answer. *)
LEMMA ResetClientsStep ==
  ASSUME IInv, NEW g \in Goroutines, ResetClients(g)
  PROVE  IInv'
<1>. DEFINE old == request[g]
            r == [old EXCEPT !.pc = "fetching", !.attempt = 2,
                             !.found = NoNodes]
<1>1. /\ old \in Requests /\ old.pc = "resetting" /\ AttemptInv(old)
      /\ HasBeen(old.found) /\ phase # "starting"
      /\ ends' = old.found /\ request' = [request EXCEPT ![g] = r]
      /\ UNCHANGED <<phase, controlConn, closed, cluster, known>>
  BY DEF ResetClients, Install, clusterVars, At, IInv, ClientTypes,
         AttemptsInv, AnswersInv, BeforeStart
<1>2. /\ r \in Requests
      /\ r.pc = "fetching" /\ r.attempt = 2
      /\ r.executed = old.executed /\ r.lost = old.lost
  <2>1. "fetching" \in Places /\ 2 \in 0..2
    BY DEF Places
  <2>. QED BY <1>1, <2>1 DEF Requests
<1>. HIDE DEF r
<1>3. AttemptInv(r)
  BY <1>1, <1>2 DEF AttemptInv, FirstOnlyIfLost
<1>4. /\ request' \in [Goroutines -> Requests]
      /\ \A h \in Goroutines : request'[h] = IF h = g THEN r ELSE request[h]
  BY <1>1, <1>2 DEF IInv, ClientTypes
<1>5. ClientTypes' /\ ClusterTypes' /\ SwitchInv'
  BY <1>1, <1>4 DEF IInv, ClientTypes, ClusterTypes, SwitchInv, Requests
<1>6. AnswersInv'
  BY <1>1, <1>2, <1>4 DEF IInv, AnswersInv, HasBeen
<1>7. AttemptsInv'
  BY <1>3, <1>4 DEF IInv, AttemptsInv
<1>. QED BY <1>5, <1>6, <1>7 DEF IInv

LEMMA NewClientSetStep ==
  ASSUME IInv, NewClientSet
  PROVE  IInv'
<1>1. /\ request[Main] \in Requests /\ request[Main].pc = "resetting"
      /\ HasBeen(request[Main].found) /\ phase = "starting"
      /\ ends' = request[Main].found /\ phase' = "running"
      /\ request' = [request EXCEPT ![Main] = NoRequest]
      /\ UNCHANGED <<controlConn, closed, cluster, known>>
  BY ClientRetryAssumption
     DEF NewClientSet, clusterVars, At, IInv, ClientTypes, AnswersInv
<1>2. /\ request' \in [Goroutines -> Requests]
      /\ \A h \in Goroutines :
           request'[h] = IF h = Main THEN NoRequest ELSE request[h]
  BY <1>1, NoRequestType DEF IInv, ClientTypes
<1>3. ClientTypes' /\ ClusterTypes' /\ SwitchInv'
  BY <1>1, <1>2 DEF IInv, ClientTypes, ClusterTypes, SwitchInv, Requests
<1>4. AnswersInv'
  BY <1>1, <1>2 DEF IInv, AnswersInv, HasBeen, NoRequest
<1>5. AttemptsInv'
  BY <1>2, NoRequestType DEF IInv, AttemptsInv
<1>. QED BY <1>3, <1>4, <1>5 DEF IInv

LEMMA CloseStep ==
  ASSUME IInv, Close
  PROVE  IInv'
BY EndKeeps DEF Close, clusterVars

(* The chain's history only grows, and a leader has seen some of it. *)
LEMMA EnvironmentStep ==
  ASSUME IInv, Environment
  PROVE  IInv'
<1>1. UNCHANGED <<phase, ends, controlConn, closed, readers, request>>
  BY DEF Environment, clientVars, ClusterChanges, StepDown, CatchUp, Elect,
         ServerFails, NodeFails
<1>2. CASE ClusterChanges
  <2>1. PICK s \in States \cup {NoNodes} : cluster' = Append(cluster, s)
    BY <1>2 DEF ClusterChanges
  <2>2. /\ known' = Len(cluster') /\ cluster' \in Seq(States \cup {NoNodes})
        /\ Len(cluster) \in Nat /\ Len(cluster') = Len(cluster) + 1
        /\ \A i \in 1..Len(cluster) : cluster'[i] = cluster[i]
    BY <1>2, <2>1 DEF ClusterChanges, IInv, ClusterTypes
  <2>3. ClusterTypes'
    BY <2>2 DEF ClusterTypes
  <2>4. ASSUME NEW nodes, HasBeen(nodes) PROVE HasBeen(nodes)'
    BY <2>2, <2>4 DEF HasBeen
  <2>. QED BY <1>1, <2>3, <2>4
           DEF IInv, ClientTypes, AnswersInv, SwitchInv, AttemptsInv
<1>3. CASE ~ClusterChanges
  <2>1. UNCHANGED cluster /\ known' \in 1..Len(cluster)
    BY <1>3 DEF Environment, StepDown, CatchUp, Elect, ServerFails, NodeFails,
                IInv, ClusterTypes
  <2>. QED BY <1>1, <2>1
           DEF IInv, ClientTypes, ClusterTypes, AnswersInv, HasBeen, SwitchInv,
               AttemptsInv
<1>. QED BY <1>2, <1>3

-----------------------------------------------------------------------------
LEMMA NextIInv == IInv /\ [Next]_vars => IInv'
<1>. SUFFICES ASSUME IInv, [Next]_vars PROVE IInv'
  OBVIOUS
<1>1. ASSUME NEW g \in Goroutines, Step(g) PROVE IInv'
  BY <1>1, AskingStep, FetchStep, SentStep, ResetClientsStep, NewClientSetStep
     DEF Step
<1>2. ASSUME NEW g \in Goroutines, Search(g) \/ Serve(g) PROVE IInv'
  BY <1>2, SearchStep, ServeStep
<1>3. ASSUME NEW g \in Goroutines, NEW kind \in {"write", "read"},
             Call(g, kind)
      PROVE  IInv'
  BY <1>3, CallStep
<1>4. CASE Close
  BY <1>4, CloseStep
<1>5. CASE Environment
  BY <1>5, EnvironmentStep
<1>6. CASE UNCHANGED vars
  BY <1>6 DEF vars, clientVars, clusterVars, IInv, ClientTypes, ClusterTypes,
              AnswersInv, HasBeen, SwitchInv, AttemptsInv
<1>. QED BY <1>1, <1>2, <1>3, <1>4, <1>5, <1>6 DEF Next

(* The inductive invariant holds throughout. *)
THEOREM InductiveInvariant == Spec => []IInv
BY InitIInv, NextIInv, PTL DEF Spec

(* HEAD and TAIL connections are never those of two different states of    *)
(* the chain, and a search never begins with a connection that another     *)
(* goroutine has closed (resetClients, TryControlPlaneRequest).            *)
THEOREM ConnectionsStayConsistent == Spec => []ConnectionsConsistent
<1>1. ASSUME IInv PROVE ConnectionsConsistent
  <2>1. ASSUME HasBeen(ends) PROVE ends \in ToSet(cluster)
    BY <1>1, <2>1 DEF HasBeen, ToSet, IInv, ClusterTypes
  <2>. QED BY <1>1, <2>1 DEF IInv, AnswersInv, SwitchInv, ConnectionsConsistent
<1>. QED BY <1>1, InductiveInvariant, PTL

(* RetryFetch repeats a write that was carried out only if its answer was  *)
(* lost: to a crash of the node, to its connection or to an Internal       *)
(* error.  It never repeats it a second time.                              *)
THEOREM RepeatsOnlyAfterLoss == Spec => []RepeatedOnlyAfterLoss
<1>1. ASSUME IInv PROVE RepeatedOnlyAfterLoss
  <2>. SUFFICES ASSUME NEW g \in Goroutines, request[g].executed > 1
                PROVE  request[g].executed = 2 /\ request[g].lost
    BY DEF RepeatedOnlyAfterLoss
  <2>1. AttemptInv(request[g]) /\ request[g].pc \in Places
    BY <1>1 DEF IInv, AttemptsInv, ClientTypes, Requests
  <2>. QED BY <2>1 DEF AttemptInv, FirstOnlyIfLost, Places
<1>. QED BY <1>1, InductiveInvariant, PTL
=============================================================================
