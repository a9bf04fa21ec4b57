---------------------------- MODULE MCGuiClient ----------------------------
EXTENDS GuiClient, TLC

CONSTANTS t1, t2

OneTopic == <<t1>>
Symmetry == Permutations(Threads)
=============================================================================
