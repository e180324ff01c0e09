---------------------------- MODULE MCRandpPool -----------------------------
(* Small instances of RandpPool: a pool of two blocks, reseeded after two  *)
(* refills, so that requests cross blocks, refills and reseeds.            *)
EXTENDS RandpPool, FiniteSets

CONSTANTS p1, p2, p3
=============================================================================
