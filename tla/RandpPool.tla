----------------------------- MODULE RandpPool ------------------------------
(***************************************************************************)
(* The randp structure of one thread, and its copies in the processes that *)
(* thread forks: src/src/randp.c (randp_regen and the loop of              *)
(* randp_bytes) on top of the AES-CTR PRNG (reseed and fill) and of the    *)
(* WIPEONFORK page that allocate.h obtains.                                *)
(*                                                                         *)
(* Each process has one thread here, the one that called fork: it is the   *)
(* only thread fork duplicates, and no other thread of a process ever      *)
(* touches its structure.  RandpThreads models the threads, the allocation *)
(* of the page and its release.                                            *)
(***************************************************************************)
EXTENDS RandpStruct

CONSTANTS
    Proc,           \* processes of the fork tree, with those not forked yet
    Root,           \* the process that was not forked from another
    RequestSize,    \* the sizes callers ask for: the n of randp_bytes
    MaxSeeds        \* bound: getentropy succeeds at most this many times

ASSUME CallersAssumption ==
    /\ Root \in Proc
    /\ RequestSize \subseteq Nat
    /\ MaxSeeds \in Nat

VARIABLES
    st,     \* st[p] : the randp structure in p's memory
    pc,     \* pc[p] : where p is in randp_bytes
    n,      \* n[p] : bytes of the current call still to be written
    m,      \* m[p] : the local m of the loop body, bytes of this round
    log,    \* log[p] : what p's callers received, in the order of dst
    seeds   \* how many times getentropy has succeeded, in all processes

vars == <<st, pc, n, m, log, seeds>>

-----------------------------------------------------------------------------
(* Steps.  (Slip... are mistakes for the properties to find: RandpStruct.) *)

Goto(p, label) == pc' = [pc EXCEPT ![p] = label]

Init ==
    /\ st = [p \in Proc |-> ZeroPage]
    /\ pc = [p \in Proc |-> IF p = Root THEN "idle" ELSE "unborn"]
    /\ n = [p \in Proc |-> 0]
    /\ m = [p \in Proc |-> 0]
    /\ log = [p \in Proc |-> <<>>]
    /\ seeds = 0

\* A caller enters randp_bytes(buf, k).
Call(p, k) ==
    /\ pc[p] = "idle"
    /\ n' = [n EXCEPT ![p] = k]
    /\ Goto(p, "loop")
    /\ UNCHANGED <<st, m, log, seeds>>

\* while (n > 0) ends.
Return(p) ==
    /\ pc[p] = "loop"
    /\ n[p] = 0
    /\ Goto(p, "idle")
    /\ UNCHANGED <<st, n, m, log, seeds>>

\* What is left of the pool is thrown away when it cannot serve the request.
SlipTestDiscards(p) ==
    /\ pc[p] = "loop"
    /\ n[p] > 0
    /\ Goto(p, IF st[p].rand_bytes_remaining < n[p] THEN "regen" ELSE "copy")
    /\ UNCHANGED <<st, n, m, log, seeds>>

\* while (n > 0) goes on, and finds the pool empty or not.
Test(p) ==
    /\ pc[p] = "loop"
    /\ n[p] > 0
    /\ Goto(p, IF st[p].rand_bytes_remaining = 0 THEN "regen" ELSE "copy")
    /\ UNCHANGED <<st, n, m, log, seeds>>

\* randp_regen with the countdown at zero: getentropy fills keys and counter.
Reseed(p) ==
    /\ pc[p] = "regen"
    /\ st[p].reseed_countdown = 0
    /\ seeds < MaxSeeds
    /\ seeds' = seeds + 1
    /\ st' = [st EXCEPT ![p] = Reseeded(st[p], seeds + 1)]
    /\ Goto(p, "fill")
    /\ UNCHANGED <<n, m, log>>

\* The same, but getentropy fails: err ends the process.
ReseedFails(p) ==
    /\ pc[p] = "regen"
    /\ st[p].reseed_countdown = 0
    /\ Goto(p, "exited")
    /\ UNCHANGED <<st, n, m, log, seeds>>

\* RANDP_FILL and the two assignments after it.
Fill(p) ==
    /\ \/ pc[p] = "fill"
       \/ pc[p] = "regen" /\ st[p].reseed_countdown # 0
    /\ st' = [st EXCEPT ![p] = Filled(st[p])]
    /\ Goto(p, "copy")
    /\ UNCHANGED <<n, m, log, seeds>>

\* m = MIN(n, rand_bytes_remaining); memcpy(dst, src, m).
Copy(p) ==
    /\ pc[p] = "copy"
    /\ m' = [m EXCEPT ![p] = Chunk(st[p], n[p])]
    /\ log' = [log EXCEPT ![p] = log[p] \o Copied(st[p], Chunk(st[p], n[p]))]
    /\ Goto(p, "wipe")
    /\ UNCHANGED <<st, n, seeds>>

\* explicit_bzero(src, m).
Wipe(p) ==
    /\ pc[p] = "wipe"
    /\ st' = [st EXCEPT ![p] = Wiped(st[p], m[p])]
    /\ Goto(p, "advance")
    /\ UNCHANGED <<n, m, log, seeds>>

\* One round is taken for the whole request.
SlipAdvanceEnds(p) ==
    /\ pc[p] = "advance"
    /\ st' = [st EXCEPT ![p] = Advanced(st[p], m[p])]
    /\ n' = [n EXCEPT ![p] = 0]
    /\ Goto(p, "loop")
    /\ UNCHANGED <<m, log, seeds>>

\* dst += m; rand_bytes_remaining -= m; n -= m.
Advance(p) ==
    /\ pc[p] = "advance"
    /\ st' = [st EXCEPT ![p] = Advanced(st[p], m[p])]
    /\ n' = [n EXCEPT ![p] = n[p] - m[p]]
    /\ Goto(p, "loop")
    /\ UNCHANGED <<m, log, seeds>>

\* p forks q between two calls.  The thread-local pointer survives, so q goes
\* on with the structure its wiped page holds.
Fork(p, q) ==
    /\ pc[p] = "idle"
    /\ pc[q] = "unborn"
    /\ st' = [st EXCEPT ![q] = ForkImage(st[p])]
    /\ Goto(q, "idle")
    /\ UNCHANGED <<n, m, log, seeds>>

\* One step of randp_bytes.
Step(p) ==
    \/ Return(p) \/ Test(p) \/ Reseed(p) \/ ReseedFails(p)
    \/ Fill(p) \/ Copy(p) \/ Wipe(p) \/ Advance(p)

Next ==
    \E p \in Proc :
        \/ Step(p)
        \/ \E k \in RequestSize : Call(p, k)
        \/ \E q \in Proc : Fork(p, q)

Spec == Init /\ [][Next]_vars

\* A thread inside randp_bytes is eventually scheduled; callers need not call.
FairSpec == Spec /\ \A p \in Proc : WF_vars(Step(p))

-----------------------------------------------------------------------------
(* Types.                                                                  *)

Labels == {"unborn", "idle", "loop", "regen", "fill", "copy", "wipe",
           "advance", "exited"}

\* Type invariant: every variable keeps its C type's range, in particular
\* reseed_countdown and rand_bytes_remaining never leave 0..their maximum
\* (both are ints that are only tested for being 0).
TypeOK ==
    /\ st \in [Proc -> Struct]
    /\ pc \in [Proc -> Labels]
    /\ n \in [Proc -> Nat]
    /\ m \in [Proc -> 0 .. PoolSize]
    /\ log \in [Proc -> Seq(Byte)]
    /\ seeds \in 0 .. MaxSeeds

-----------------------------------------------------------------------------
(* Safety.                                                                 *)

\* No byte of any keystream is handed out twice, neither to one process nor to
\* two processes of the fork tree: "fork-safe" in tests/README.md:3 and
\* tests/test-fork.c:7-9, and what src, m and the zeroizing of the pool are for.
NoRepeat ==
    \A p, q \in Proc :
        \A i \in DOMAIN log[p], j \in DOMAIN log[q] :
            log[p][i] = log[q][j] => p = q /\ i = j

Delivered(q) == {log[q][j] : j \in DOMAIN log[q]}

\* "As bytes are retrieved from the pool, they are zeroized": a byte some
\* caller has received is in no pool of any process, but for the m bytes
\* between the memcpy and the explicit_bzero of the round that delivers them.
Zeroized ==
    \A p, q \in Proc : \A i \in Index :
        st[p].pool[i] \in Delivered(q) =>
            pc[p] = "wipe" /\ Src(st[p]) <= i /\ i < Src(st[p]) + m[p]

\* What one process will deliver is in no other's memory: no two processes
\* hold the same keys, or the same byte of keystream in their pools.
Unshared ==
    \A p, q \in Proc : p # q =>
        /\ st[p].keys # 0 => st[p].keys # st[q].keys
        /\ \A i, j \in Index :
               st[p].pool[i] = st[q].pool[j] => st[p].pool[i] = Zero

Position(b) == b.ctr * BlockSize + b.off
BytesPerSeed == ReseedInterval * PoolSize

Follows(b, c) ==
    \/ c.seed = b.seed /\ Position(c) = Position(b) + 1 /\ Position(c) < BytesPerSeed
    \/ c.seed > b.seed /\ Position(b) = BytesPerSeed - 1 /\ Position(c) = 0

\* "After a set number of such refills, the PRNG itself is reseeded": what a
\* process delivers is the keystream of one seed after another, none of it
\* skipped or out of order, exactly ReseedInterval pools of each seed but the
\* last, and never more of any: not one byte without the reseed it calls for.
KeystreamOrder ==
    \A p \in Proc :
        /\ log[p] # <<>> => Position(log[p][1]) = 0
        /\ \A i \in 1 .. Len(log[p]) - 1 : Follows(log[p][i], log[p][i + 1])

-----------------------------------------------------------------------------
(* The inductive invariant behind the safety properties.                   *)

\* The part of the pool before CleanTo(p) is zero; the part from ReadTo(p) on
\* has not been delivered.  They differ between memcpy and explicit_bzero.
CleanTo(p) == Src(st[p]) + (IF pc[p] = "advance" THEN m[p] ELSE 0)
ReadTo(p) == Src(st[p]) + (IF pc[p] \in {"wipe", "advance"} THEN m[p] ELSE 0)

\* What is known at each label of randp_bytes.
ControlInv ==
    \A p \in Proc :
        /\ pc[p] \in {"regen", "fill"} => st[p].rand_bytes_remaining = 0
        /\ pc[p] \in {"regen", "fill", "copy", "wipe", "advance"} => n[p] > 0
        /\ pc[p] \in {"copy", "wipe", "advance"} => st[p].rand_bytes_remaining > 0
        /\ pc[p] \in {"wipe", "advance"} => m[p] = Chunk(st[p], n[p])
        /\ pc[p] = "fill" => st[p].reseed_countdown > 0
        /\ pc[p] \in {"idle", "unborn"} => n[p] = 0

\* Keys are drawn once, and a structure without keys is an empty one.
KeysInv ==
    \A p \in Proc :
        /\ st[p].keys <= seeds
        /\ \A q \in Proc : p # q /\ st[p].keys # 0 => st[p].keys # st[q].keys
        /\ st[p].keys = 0 => /\ st[p].reseed_countdown = 0
                             /\ st[p].rand_bytes_remaining = 0

\* What was delivered under the keys of p came from p, and from blocks its
\* counter has passed.
LogInv ==
    \A q \in Proc : \A j \in DOMAIN log[q] :
        /\ log[q][j].seed \in 1 .. seeds
        /\ \A p \in Proc : log[q][j].seed = st[p].keys =>
                            p = q /\ log[q][j].ctr < st[p].ctr

\* The pool is a zeroed prefix, then the rest of the last NumBlocks blocks, of
\* which the part from ReadTo on is still to be delivered.
PoolInv ==
    \A p \in Proc :
        /\ st[p].rand_bytes_remaining > 0 => NumBlocks <= st[p].ctr
        /\ \A i \in Index :
            /\ i < CleanTo(p) => st[p].pool[i] = Zero
            /\ i >= CleanTo(p) => st[p].pool[i] = KeyByte(st[p], i)
            /\ i >= ReadTo(p) => st[p].pool[i] \notin Delivered(p)

\* The position, in the keystream of its seed, of the next byte p delivers, and
\* what the last byte that p delivered can be.
NextPosition(p) == st[p].ctr * BlockSize + ReadTo(p) - PoolSize
Precedes(b, p) ==
    \/ b.seed = st[p].keys /\ Position(b) + 1 = NextPosition(p)
    \/ b.seed < st[p].keys /\ Position(b) = BytesPerSeed - 1 /\ NextPosition(p) = 0

\* The counter says how many refills there were since the reseed, and p goes on
\* where it stopped.
InOrder(p) ==
    /\ pc[p] = "unborn" => st[p].keys = 0
    /\ st[p].keys = 0 => st[p].ctr = 0
    /\ st[p].keys # 0 =>
           st[p].ctr = NumBlocks * (ReseedInterval - st[p].reseed_countdown)
    /\ log[p] = <<>> => NextPosition(p) = 0
    /\ log[p] # <<>> => Precedes(log[p][Len(log[p])], p)

OrderInv == \A p \in Proc : InOrder(p)

\* The inductive invariant: TLC checks it here, RandpPoolProofs proves it.
IInv ==
    /\ TypeOK /\ ControlInv /\ KeysInv /\ LogInv /\ PoolInv
    /\ NoRepeat /\ OrderInv /\ KeystreamOrder

-----------------------------------------------------------------------------
(* The abstract specification, and liveness.                               *)

\* Bytes of the current call that are not in the caller's buffer yet.
Owed(p) == IF pc[p] \in {"wipe", "advance"} THEN n[p] - m[p] ELSE n[p]

Source == INSTANCE RandomSource WITH
              NoByte <- Zero, owed <- [p \in Proc |-> Owed(p)]

\* randp_bytes is a source of fresh bytes: a call for k bytes delivers k bytes
\* that no caller in any process ever saw, whatever the pool boundaries.
SourceSpec == Source!Spec

\* A call returns, or the process has exited because getentropy failed: the
\* loop of randp_bytes always makes progress.
CallReturns ==
    \A p \in Proc :
        pc[p] \notin {"idle", "unborn", "exited"} ~> pc[p] \in {"idle", "exited"}
=============================================================================
