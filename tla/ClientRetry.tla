---------------------------- MODULE ClientRetry ----------------------------
(***************************************************************************)
(* The client library: how a client finds the HEAD and the TAIL, and what  *)
(* it does when a request fails.  Every request of the CLI and of the GUI  *)
(* is a RetryFetch, or a search for a subscription's node, in a goroutine; *)
(* they share the connections of one ClientSet.                            *)
(*                                                                         *)
(* Nodes and control plane are external: a node that is up may refuse any  *)
(* request, as it refuses those its place in the chain does not allow; and *)
(* any request may lose its connection or end in an error of the node's or *)
(* of gRPC's, whether or not the node carries it out.  What a node does    *)
(* after the client has given up counts as done before it.                 *)
(* A connection is named by the goroutine that made it, the search it was  *)
(* made for and its server; grpc.NewClient only parses the address and     *)
(* does not fail.                                                          *)
(***************************************************************************)
EXTENDS Integers, FiniteSets, SequencesExt

CONSTANTS
  Goroutines,         \* they make one request each
  Main,               \* the one that runs newClientSet first
  ControlServers,     \* the control plane's servers
  ControlPlaneAddrs,  \* their addresses, as given on the command line
  Nodes,              \* the chain's nodes
  States,             \* what the chain's ends may be, besides NoNodes
  InitialEnds,        \* what they are at the beginning
  None,               \* no connection, no leader
  MaxChanges,         \* bound: changes of the chain's ends
  MayFail,            \* bound: nodes and servers that may fail
  MaxFailures         \* bound: how many of them do

ASSUME ClientRetryAssumption ==
  /\ Main \in Goroutines
  /\ ControlPlaneAddrs \in Seq(ControlServers)
  /\ States \subseteq [head : Nodes, tail : Nodes]
  /\ InitialEnds \in States
  /\ None \notin ControlServers \cup Nodes
  /\ MayFail \subseteq Nodes \cup ControlServers
  /\ MaxChanges \in Nat /\ MaxFailures \in Nat

VARIABLES
  phase,        \* "starting", "running", "ended" or "panicked"
  ends,         \* HeadConn and TailConn, by their nodes
  controlConn,  \* ControlConn
  closed,       \* connections to the control plane that have been closed
  readers,      \* goroutines that hold mu for reading
  request,      \* the goroutines' requests, with the history executed and
                \* lost: how often the write has been carried out, and
                \* whether the answer of the first time was lost, to
                \* a crash, a broken connection or an Internal error
  cluster,      \* the states of the chain so far
  leader,       \* the control plane's leader
  known,        \* how many of the states its replica has seen
  up,           \* the nodes and servers that run
  troubled      \* history: goroutines for whose search, so far, the leader
                \* was missing or silent or changed; the one that panicked

clientVars == <<phase, ends, controlConn, closed, readers, request>>
clusterVars == <<cluster, leader, known, up>>
vars == <<clientVars, clusterVars, troubled>>

NoNodes == [head |-> None, tail |-> None]
NoConn == [by |-> None, for |-> "none", server |-> None]

Conn(g, kind, s) == [by |-> g, for |-> kind, server |-> s]

(* A goroutine's place; kind is "start", "write", "read" or "discover".    *)
NoRequest == [pc |-> "idle", kind |-> "none", attempt |-> 0, node |-> None,
              served |-> FALSE,
              snapshot |-> NoConn, via |-> NoConn, toTry |-> <<>>,
              found |-> NoNodes, executed |-> 0, lost |-> FALSE]

Init ==
  /\ phase = "starting"
  /\ ends = NoNodes
  /\ controlConn = NoConn /\ closed = {}
  /\ readers = {}
  /\ request = [g \in Goroutines |-> NoRequest]
  /\ cluster = <<InitialEnds>>
  /\ leader \in ControlServers /\ known = 1
  /\ up = Nodes \cup ControlServers
  /\ troubled = {}

Running == phase \in {"starting", "running"}

At(g, pc) == Running /\ request[g].pc = pc

Returned == [NoRequest EXCEPT !.pc = "done"]

Return(g) == request' = [request EXCEPT ![g] = Returned]

(* The process ends, and its goroutines with it. *)
End(how) ==
  /\ phase' = how
  /\ request' = [g \in Goroutines |-> NoRequest]
  /\ readers' = {}

-----------------------------------------------------------------------------
(* TryControlPlaneRequest: the connection there is, then all servers.      *)

Searching(g) == request[g].pc = "asking"

(* A search begins with the connection there is; without one, NoCurrent.   *)
TryControlPlaneRequest(g, kind, lost) ==
  request' = [request EXCEPT
    ![g] = [@ EXCEPT !.pc = "asking", !.kind = kind,
                     !.node = None, !.served = FALSE,
                     !.snapshot = controlConn, !.via = controlConn,
                     !.toTry = ControlPlaneAddrs,
                     !.lost = request[g].executed > 0 /\ lost]]

(* The search of g has an answer, or is given up. *)
SearchEnds(g) == troubled' = troubled \ {g}

SearchBegins(g) ==
  troubled' = IF leader = None THEN troubled \cup {g} ELSE troubled

(* newClientSet, or the request for a subscription's node. *)
Search(g) ==
  /\ At(g, "idle")
  /\ \/ /\ phase = "starting" /\ g = Main
        /\ TryControlPlaneRequest(g, "start", FALSE)
     \/ /\ phase = "running"
        /\ TryControlPlaneRequest(g, "discover", FALSE)
  /\ SearchBegins(g)
  /\ UNCHANGED <<phase, ends, controlConn, closed, readers, clusterVars>>

(* The next server of the list, over a connection of its own, or panic.    *)
(* Such a connection is closed, if it does not help, before anyone else    *)
(* sees it: closed has only those that have been shared.                   *)
TryNext(g, inTrouble) ==
  LET r == request[g] IN
  /\ troubled' = IF r.toTry = <<>> THEN inTrouble \cap {g} ELSE inTrouble
  /\ IF r.toTry = <<>>
     THEN End("panicked")
     ELSE /\ request' = [request EXCEPT
               ![g] = [@ EXCEPT !.via = Conn(g, r.kind, Head(r.toTry)),
                                !.toTry = Tail(r.toTry)]]
          /\ UNCHANGED <<phase, readers>>
  /\ UNCHANGED <<ends, controlConn, closed>>

(* What a search that has its answer does next. *)
Found(g, answer) ==
  IF request[g].kind = "discover"
  THEN Returned
  ELSE [request[g] EXCEPT !.pc = "resetting", !.found = answer,
                          !.snapshot = NoConn, !.via = NoConn, !.toTry = <<>>]

(* Mutant: the old connection is closed, but goes on being used. *)
SucceedWithoutSwitching(g, answer) ==
  LET r == request[g] IN
  /\ closed' = IF r.via = r.snapshot THEN closed ELSE closed \cup {r.snapshot}
  /\ controlConn' = IF r.snapshot = NoConn THEN r.via ELSE controlConn
  /\ request' = [request EXCEPT ![g] = Found(g, answer)]
  /\ SearchEnds(g)
  /\ UNCHANGED <<phase, ends, readers>>

(* The connection that worked takes the place of the one there was when    *)
(* the search began, which is closed.                                      *)
Succeed(g, answer) ==
  LET r == request[g] IN
  /\ closed' = IF r.via = r.snapshot THEN closed ELSE closed \cup {r.snapshot}
  /\ controlConn' = IF r.via = r.snapshot THEN controlConn ELSE r.via
  /\ request' = [request EXCEPT ![g] = Found(g, answer)]
  /\ SearchEnds(g)
  /\ UNCHANGED <<phase, ends, readers>>

(* An error that another server would not mend: an empty chain, or a       *)
(* connection that another goroutine has closed meanwhile.                 *)
SearchFails(g) ==
  /\ IF request[g].kind = "start" THEN End("ended")
     ELSE Return(g) /\ UNCHANGED <<phase, readers>>
  /\ SearchEnds(g)
  /\ UNCHANGED <<ends, controlConn, closed>>

Asking(g) == At(g, "asking") /\ request[g].via.server # None

(* Without a connection yet, the list comes first. *)
NoCurrent(g) ==
  /\ At(g, "asking") /\ request[g].via = NoConn
  /\ TryNext(g, troubled)
  /\ UNCHANGED clusterVars

Asked(g) ==
  LET s == request[g].via.server IN
  /\ Asking(g)
  /\ IF request[g].via \in closed THEN SearchFails(g)
     ELSE IF s \notin up \/ s # leader THEN TryNext(g, troubled)
     ELSE IF cluster[known] = NoNodes THEN SearchFails(g)
     ELSE Succeed(g, cluster[known])
  /\ UNCHANGED clusterVars

(* It takes a server too long, the leader perhaps. *)
AskedTimesOut(g) ==
  /\ Asking(g) /\ request[g].via \notin closed
  /\ request[g].via.server \in up
  /\ TryNext(g, IF request[g].via.server = leader THEN troubled \cup {g}
                ELSE troubled)
  /\ UNCHANGED clusterVars

-----------------------------------------------------------------------------
(* RetryFetch. *)

(* A handler of the CLI or of the GUI begins. *)
Call(g, kind) ==
  /\ phase = "running"
  /\ At(g, "idle")
  /\ request' = [request EXCEPT ![g].pc = "fetching", ![g].kind = kind,
                                ![g].attempt = 1]
  /\ UNCHANGED <<phase, ends, controlConn, closed, readers, clusterVars,
                 troubled>>

(* A writer that waits for mu comes before new readers. *)
WriterWaits == \E g \in Goroutines : At(g, "resetting")

Fetch(g) ==
  /\ At(g, "fetching")
  /\ ~WriterWaits
  /\ readers' = readers \cup {g}
  /\ request' = [request EXCEPT
       ![g].pc = "sent", ![g].served = FALSE,
       ![g].node = IF request[g].kind = "write" THEN ends.head ELSE ends.tail]
  /\ UNCHANGED <<phase, ends, controlConn, closed, clusterVars, troubled>>

(* The node carries the request out. *)
Serve(g) ==
  /\ At(g, "sent") /\ ~request[g].served
  /\ request[g].node \in up
  /\ request' = [request EXCEPT
       ![g].served = TRUE,
       ![g].executed = IF request[g].kind = "write" THEN @ + 1 ELSE @]
  /\ UNCHANGED <<phase, ends, controlConn, closed, readers, clusterVars,
                 troubled>>

(* Mutant: a request that takes too long is tried again as well. *)
RetriedIfSlow(g, error) == request[g].attempt = 1 /\ error # "final"

(* isServerUnavailableError: after the first attempt, such errors lead to  *)
(* new connections.                                                        *)
Retried(g, error) ==
  /\ request[g].attempt = 1
  /\ error \in {"Unavailable", "FailedPrecondition", "Internal"}

(* Mutant: mu is released only on the way to the second attempt. *)
FetchFailsLocked(g, error, lost) ==
  IF Retried(g, error)
  THEN /\ TryControlPlaneRequest(g, request[g].kind, lost)
       /\ readers' = readers \ {g}
       /\ SearchBegins(g)
  ELSE Return(g) /\ UNCHANGED <<readers, troubled>>

(* The request ends with an error, its answer lost or not.                 *)
FetchFails(g, error, lost) ==
  /\ readers' = readers \ {g}
  /\ IF Retried(g, error)
     THEN /\ TryControlPlaneRequest(g, request[g].kind, lost)
          /\ SearchBegins(g)
     ELSE Return(g) /\ UNCHANGED troubled

Unchanged == UNCHANGED <<phase, ends, controlConn, closed, clusterVars>>

FetchSucceeds(g) ==
  /\ At(g, "sent") /\ request[g].served /\ request[g].node \in up
  /\ readers' = readers \ {g}
  /\ Return(g)
  /\ Unchanged /\ UNCHANGED troubled

(* requireHead and requireTail, or a check of the arguments. *)
Refused(g) ==
  /\ At(g, "sent") /\ ~request[g].served /\ request[g].node \in up
  /\ \E error \in {"FailedPrecondition", "final"} : FetchFails(g, error, FALSE)
  /\ Unchanged

(* The node is down, or the connection to it breaks: the node may have     *)
(* carried the write out.                                                  *)
NodeUnavailable(g) ==
  /\ At(g, "sent")
  /\ FetchFails(g, "Unavailable", TRUE)
  /\ Unchanged

(* An error handleStorageError does not know, or one of gRPC's own: the    *)
(* write may have been carried out here too.                               *)
NodeErrs(g) ==
  /\ At(g, "sent") /\ request[g].node \in up
  /\ FetchFails(g, "Internal", TRUE)
  /\ Unchanged

(* The 5 s are over, for both attempts together. *)
FetchTimesOut(g) ==
  /\ At(g, "sent")
  /\ FetchFails(g, "DeadlineExceeded", FALSE)
  /\ Unchanged

(* resetClients, with mu held for writing. *)
Install(g) ==
  /\ readers = {}
  /\ ends' = request[g].found

ResetClients(g) ==
  /\ At(g, "resetting") /\ request[g].kind # "start"
  /\ Install(g)
  /\ request' = [request EXCEPT
       ![g] = [@ EXCEPT !.pc = "fetching", !.attempt = 2, !.found = NoNodes]]
  /\ UNCHANGED <<phase, controlConn, closed, readers, clusterVars, troubled>>

(* The end of newClientSet: requests may begin. *)
NewClientSet ==
  /\ At(Main, "resetting") /\ phase = "starting"
  /\ ends' = request[Main].found
  /\ request' = [request EXCEPT ![Main] = NoRequest]
  /\ phase' = "running"
  /\ UNCHANGED <<controlConn, closed, readers, clusterVars, troubled>>

(* The user leaves: RunClient closes the connections, the process ends. *)
Close ==
  /\ phase = "running"
  /\ End("ended")
  /\ closed' = closed \cup {controlConn}
  /\ UNCHANGED <<ends, controlConn, clusterVars, troubled>>

-----------------------------------------------------------------------------
(* The cluster. *)

Failures == Cardinality((Nodes \cup ControlServers) \ up)

Trouble ==
  troubled' = troubled \cup {g \in Goroutines : Searching(g)}

(* The chain gets other ends, by a command of the leader. *)
ClusterChanges ==
  /\ Len(cluster) <= MaxChanges /\ leader # None
  /\ \E s \in (States \cup {NoNodes}) \ {Last(cluster)} :
       cluster' = Append(cluster, s)
  /\ known' = Len(cluster')
  /\ UNCHANGED <<clientVars, leader, up, troubled>>

NodeFails(n) ==
  /\ Failures < MaxFailures /\ n \in up \cap MayFail
  /\ up' = up \ {n}
  /\ UNCHANGED <<clientVars, cluster, leader, known, troubled>>

ServerFails(s) ==
  /\ Failures < MaxFailures /\ s \in up \cap MayFail
  /\ up' = up \ {s}
  /\ IF s = leader THEN leader' = None /\ known' = 1 /\ Trouble
     ELSE UNCHANGED <<leader, known, troubled>>
  /\ UNCHANGED <<clientVars, cluster>>

(* The leader loses its majority. *)
StepDown ==
  /\ leader # None
  /\ leader' = None /\ known' = 1
  /\ Trouble
  /\ UNCHANGED <<clientVars, cluster, up>>

(* A server is elected, whose replica may be behind. *)
Elect(s) ==
  /\ leader = None /\ s \in up
  /\ leader' = s
  /\ known' \in DOMAIN cluster
  /\ UNCHANGED <<clientVars, cluster, up, troubled>>

CatchUp ==
  /\ leader # None /\ known < Len(cluster)
  /\ known' = Len(cluster)
  /\ UNCHANGED <<clientVars, cluster, leader, up, troubled>>

Environment ==
  /\ Running
  /\ \/ ClusterChanges \/ StepDown \/ CatchUp
     \/ \E s \in ControlServers : Elect(s) \/ ServerFails(s)
     \/ \E n \in Nodes : NodeFails(n)

Step(g) ==
  \/ NoCurrent(g) \/ Asked(g) \/ AskedTimesOut(g)
  \/ Fetch(g) \/ FetchSucceeds(g) \/ Refused(g) \/ NodeUnavailable(g)
  \/ NodeErrs(g) \/ FetchTimesOut(g) \/ ResetClients(g)
  \/ g = Main /\ NewClientSet

Next ==
  \/ \E g \in Goroutines :
       \/ Step(g) \/ Search(g) \/ Serve(g)
       \/ \E kind \in {"write", "read"} : Call(g, kind)
  \/ Close
  \/ Environment

(* Goroutines go on, and every RPC ends, by its deadline at the latest. *)
Fairness == \A g \in Goroutines : WF_vars(Step(g))

Spec == Init /\ [][Next]_vars /\ Fairness

-----------------------------------------------------------------------------
(* Properties. *)

(* The HEAD that is written to and the TAIL that is read from have been    *)
(* the ends of one chain, and the connection requests begin their searches *)
(* with is open: goroutines that reset the connections at the same time    *)
(* do not mix their answers or leave a closed connection behind            *)
(* (resetClients, TryControlPlaneRequest).                                 *)
ConnectionsConsistent ==
  /\ phase = "running" => /\ ends \in ToSet(cluster)
                          /\ controlConn \notin closed
  /\ phase = "starting" => ends = NoNodes

(* A write is carried out twice only if the first time's answer was lost:  *)
(* its node went down, its connection broke, or an Internal error came     *)
(* instead.  A write that is only slow is not repeated, one that is        *)
(* repeated after a refusal has not been carried out, and whatever the     *)
(* second attempt meets there is no third (RetryFetch,                     *)
(* isServerUnavailableError).                                              *)
RepeatedOnlyAfterLoss ==
  \A g \in Goroutines :
    request[g].executed > 1 => request[g].executed = 2 /\ request[g].lost

(* Every request returns, with all the waiting for servers and for each    *)
(* other, unless the user leaves or the client panics; and it panics only  *)
(* after a search during which the leader was missing, changed or silent   *)
(* (RetryFetch, TryControlPlaneRequest).                                   *)
RequestsReturn ==
  \A g \in Goroutines :
    request[g].pc \notin {"idle", "done"} ~>
      \/ request[g].pc \in {"idle", "done"}
      \/ phase = "ended"
      \/ phase = "panicked" /\ troubled # {}

=============================================================================
