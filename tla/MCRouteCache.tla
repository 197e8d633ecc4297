---------------------------- MODULE MCRouteCache ----------------------------
EXTENDS RouteCache, TLC

CONSTANTS p1, p2, a1, k1, k2, i1, i2, i3

CacheSymmetry == Permutations(Procs) \cup Permutations(Keys) \cup Permutations(Inodes)
=============================================================================
