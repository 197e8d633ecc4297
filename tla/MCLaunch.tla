------------------------------ MODULE MCLaunch ------------------------------
EXTENDS Launch, TLC

CONSTANTS w1, w2, i1, i2, i3, own, second, ops

\* A login folder of its own, and a setup-token that is also the delegate's.
LaunchSymmetry == Permutations(Writers) \cup Permutations(Inodes)
=============================================================================
