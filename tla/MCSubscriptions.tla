-------------------------- MODULE MCSubscriptions --------------------------
EXTENDS Subscriptions, TLC

CONSTANTS t1, t2, unknown, s1, s2

MCTopics == {t1, t2}
MCStreams == {s1, s2}

(* Two topics, the same one twice (cli.go takes any list of topics), one   *)
(* that does not exist, and one topic from its second message on.          *)
MCRequests ==
  {[topics |-> topics, from |-> 1] :
     topics \in {<<t1, t2>>, <<t1, t1>>, <<unknown>>}}
  \cup {[topics |-> <<t1>>, from |-> 2]}

StreamSymmetry == Permutations(MCStreams)
=============================================================================
