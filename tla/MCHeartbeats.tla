---------------------------- MODULE MCHeartbeats ----------------------------
EXTENDS Heartbeats

CONSTANTS s1, s2

TwoServers == <<s1, s2>>
=============================================================================
