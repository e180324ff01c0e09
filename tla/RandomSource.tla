---------------------------- MODULE RandomSource ----------------------------
(***************************************************************************)
(* What randp promises its callers, with no pool, no PRNG and no page in   *)
(* sight.  A process asks for k bytes with randp_bytes (or one of the      *)
(* integer functions built on it) and is handed exactly k bytes, in one or *)
(* more pieces.  Every byte handed out is fresh: it has never been handed  *)
(* out before, to this process or to any other of the fork tree, and it is *)
(* never one of the zero bytes that fill unseeded memory.                  *)
(*                                                                         *)
(* A byte is named by where it comes from, not by its eight bits: two      *)
(* fresh bytes may well have the same value.                               *)
(***************************************************************************)
EXTENDS Naturals, Sequences

CONSTANTS
    Proc,           \* the processes of the fork tree
    RequestSize,    \* the numbers of bytes a caller asks for
    NoByte          \* the content of memory nothing random was written to

VARIABLES
    log,        \* log[p] : every byte handed to p so far, oldest first
    owed        \* owed[p] : bytes of the current request not handed out yet

vars == <<log, owed>>

\* Every byte that any process has been handed.
Delivered == UNION {{log[p][i] : i \in DOMAIN log[p]} : p \in Proc}

\* A sequence of fresh bytes: new to everyone, and all different.
Fresh(bytes) ==
    \A i \in DOMAIN bytes :
        /\ bytes[i] # NoByte
        /\ bytes[i] \notin Delivered
        /\ \A j \in DOMAIN bytes : bytes[i] = bytes[j] => i = j

\* The bytes this step hands to p.
NewBytes(p) == SubSeq(log'[p], Len(log[p]) + 1, Len(log'[p]))

Init ==
    /\ log = [p \in Proc |-> <<>>]
    /\ owed = [p \in Proc |-> 0]

\* The previous request has been met in full: one request cannot leave bytes
\* owing when the next begins.
Request(p) ==
    /\ owed[p] = 0
    /\ \E k \in RequestSize : owed' = [owed EXCEPT ![p] = k]
    /\ UNCHANGED log

Deliver(p) ==
    /\ Len(log[p]) < Len(log'[p])
    /\ log' = [log EXCEPT ![p] = log[p] \o NewBytes(p)]
    /\ Fresh(NewBytes(p))
    /\ Len(NewBytes(p)) <= owed[p]
    /\ owed' = [owed EXCEPT ![p] = owed[p] - Len(NewBytes(p))]

Next == \E p \in Proc : Request(p) \/ Deliver(p)

Spec == Init /\ [][Next]_vars
=============================================================================
