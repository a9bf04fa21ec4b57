---------------------------- MODULE MCClientRetry ----------------------------
EXTENDS ClientRetry

CONSTANTS g1, g2, c1, c2, n1, n2

TwoServers == <<c1, c2>>
TwoNodes == [head |-> n1, tail |-> n2]
ChainEnds == {TwoNodes, [head |-> n2, tail |-> n2]}
=============================================================================
