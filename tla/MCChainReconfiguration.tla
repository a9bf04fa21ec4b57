----------------------- MODULE MCChainReconfiguration -----------------------
EXTENDS ChainReconfiguration, TLC

WriteSymmetry == Permutations(Writes)
=============================================================================
