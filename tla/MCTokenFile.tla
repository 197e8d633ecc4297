---------------------------- MODULE MCTokenFile ----------------------------
EXTENDS TokenFile, TLC

CONSTANTS t1, t2, old, new

TokenSymmetry == Permutations(Threads) \cup Permutations(Tokens)
=============================================================================
