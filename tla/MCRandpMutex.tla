---------------------------- MODULE MCRandpMutex ----------------------------
(* Two threads that share a pool, and a third in a forked process.         *)
EXTENDS RandpMutex

CONSTANTS p1, p2, t1, t2, t3, noone, lost
=============================================================================
