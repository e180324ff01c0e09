--------------------------- MODULE MCRandpThreads ---------------------------
(* Small instances of RandpThreads.                                        *)
EXTENDS RandpThreads, TLC

CONSTANTS p1, p2, t1, t2, t3, a1, a2

\* Addresses are alike, and so are the threads that do not live from the start.
Symmetry == Permutations(Addr) \cup Permutations({t2, t3})
=============================================================================
