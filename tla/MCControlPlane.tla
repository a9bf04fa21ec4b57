--------------------------- MODULE MCControlPlane ---------------------------
EXTENDS ControlPlane

CONSTANTS s1, s2, n1, n2, n3

TwoServers == <<s1, s2>>
TwoNodes == <<n1, n2>>
=============================================================================
