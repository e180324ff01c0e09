----------------------------- MODULE RandpMutex -----------------------------
(***************************************************************************)
(* randp_bytes_MUTEX of src/benchmarks/randp.hpp: one structure for all    *)
(* threads of a process, and a mutex around the whole call.  Any thread of *)
(* a process may fork while another is inside: the child then has the      *)
(* mutex as it was, and nobody to unlock it.                               *)
(***************************************************************************)
EXTENDS RandpStruct

CONSTANTS
    Proc, Thread,       \* processes and threads
    Init_p, Init_t,     \* the first process and its main thread
    NoOne, Lost,        \* a free mutex; one held by a thread that is not there
    RequestSize,        \* the sizes callers ask for
    MaxSeeds            \* bound: getentropy succeeds at most this many times

ASSUME CallersAssumption ==
    /\ Init_p \in Proc /\ Init_t \in Thread
    /\ NoOne \notin Thread /\ Lost \notin Thread /\ NoOne # Lost
    /\ RequestSize \subseteq Nat
    /\ MaxSeeds \in Nat

VARIABLES
    born,       \* the processes that exist or have existed
    proc,       \* proc[t] : the process of thread t
    pc, n, m,   \* of thread t: where it is in the call, and its locals
    log,        \* log[t] : what t's callers received
    mutex,      \* mutex[p] : who holds randp_mtx of p
    this_,      \* this_[p] : has the structure been allocated?
    st,         \* st[p] : the structure, of zeros before it is allocated
    seeds       \* how many times getentropy has succeeded

vars == <<born, proc, pc, n, m, log, mutex, this_, st, seeds>>

-----------------------------------------------------------------------------
At(t, label) == pc[t] = label
Goto(t, label) == pc' = [pc EXCEPT ![t] = label]

Struct_of(t) == st[proc[t]]
SetStruct(t, s) == st' = [st EXCEPT ![proc[t]] = s]

Init ==
    /\ born = {Init_p}
    /\ proc = [t \in Thread |-> Init_p]
    /\ pc = [t \in Thread |-> IF t = Init_t THEN "idle" ELSE "unborn"]
    /\ n = [t \in Thread |-> 0]
    /\ m = [t \in Thread |-> 0]
    /\ log = [t \in Thread |-> <<>>]
    /\ mutex = [p \in Proc |-> NoOne]
    /\ this_ = [p \in Proc |-> FALSE]
    /\ st = [p \in Proc |-> ZeroPage]
    /\ seeds = 0

Call(t, k) ==
    /\ At(t, "idle")
    /\ n' = [n EXCEPT ![t] = k]
    /\ Goto(t, "lock")
    /\ UNCHANGED <<born, proc, m, log, mutex, this_, st, seeds>>

\* pthread_mutex_trylock, the result of which is ignored as well.
SlipTryLock(t) ==
    /\ At(t, "lock")
    /\ mutex' = IF mutex[proc[t]] = NoOne THEN [mutex EXCEPT ![proc[t]] = t] ELSE mutex
    /\ Goto(t, IF this_[proc[t]] THEN "loop" ELSE "allocate")
    /\ UNCHANGED <<born, proc, n, m, log, this_, st, seeds>>

\* pthread_mutex_lock; then this_ == nullptr is tested.
Lock(t) ==
    /\ At(t, "lock")
    /\ mutex[proc[t]] = NoOne
    /\ mutex' = [mutex EXCEPT ![proc[t]] = t]
    /\ Goto(t, IF this_[proc[t]] THEN "loop" ELSE "allocate")
    /\ UNCHANGED <<born, proc, n, m, log, this_, st, seeds>>

Allocate(t) ==
    /\ At(t, "allocate")
    /\ this_' = [this_ EXCEPT ![proc[t]] = TRUE]
    /\ SetStruct(t, ZeroPage)
    /\ Goto(t, "loop")
    /\ UNCHANGED <<born, proc, n, m, log, mutex, seeds>>

\* err in allocate or in the reseed ends the process.
Fails(t) ==
    /\ \/ At(t, "allocate")
       \/ At(t, "regen") /\ Struct_of(t).reseed_countdown = 0
    /\ pc' = [u \in Thread |-> IF proc[u] = proc[t] /\ pc[u] # "unborn"
                               THEN "exited" ELSE pc[u]]
    /\ UNCHANGED <<born, proc, n, m, log, mutex, this_, st, seeds>>

Test(t) ==
    /\ At(t, "loop")
    /\ n[t] > 0
    /\ Goto(t, IF Struct_of(t).rand_bytes_remaining = 0 THEN "regen" ELSE "copy")
    /\ UNCHANGED <<born, proc, n, m, log, mutex, this_, st, seeds>>

\* randp::regen, whole, as nothing that its thread does not wait for sees it.
Regen(t) ==
    /\ At(t, "regen")
    /\ IF Struct_of(t).reseed_countdown = 0
       THEN /\ seeds < MaxSeeds
            /\ seeds' = seeds + 1
            /\ SetStruct(t, Filled(Reseeded(Struct_of(t), seeds + 1)))
       ELSE /\ SetStruct(t, Filled(Struct_of(t)))
            /\ UNCHANGED seeds
    /\ Goto(t, "copy")
    /\ UNCHANGED <<born, proc, n, m, log, mutex, this_>>

\* The lock protects the pool only until the bytes are copied.
SlipCopyUnlocks(t) ==
    /\ At(t, "copy")
    /\ m' = [m EXCEPT ![t] = Chunk(Struct_of(t), n[t])]
    /\ log' = [log EXCEPT ![t] = log[t] \o Copied(Struct_of(t), Chunk(Struct_of(t), n[t]))]
    /\ mutex' = [mutex EXCEPT ![proc[t]] = NoOne]
    /\ Goto(t, "advance")
    /\ UNCHANGED <<born, proc, n, this_, st, seeds>>

\* src, m and memcpy.
Copy(t) ==
    /\ At(t, "copy")
    /\ m' = [m EXCEPT ![t] = Chunk(Struct_of(t), n[t])]
    /\ log' = [log EXCEPT ![t] = log[t] \o Copied(Struct_of(t), Chunk(Struct_of(t), n[t]))]
    /\ Goto(t, "advance")
    /\ UNCHANGED <<born, proc, n, mutex, this_, st, seeds>>

\* explicit_bzero and the updates of dst, rand_bytes_remaining and n.
Advance(t) ==
    /\ At(t, "advance")
    /\ SetStruct(t, Advanced(Wiped(Struct_of(t), m[t]), m[t]))
    /\ n' = [n EXCEPT ![t] = n[t] - m[t]]
    /\ Goto(t, "loop")
    /\ UNCHANGED <<born, proc, m, log, mutex, this_, seeds>>

\* A return that does not unlock.
SlipReturnLocked(t) ==
    /\ At(t, "loop")
    /\ n[t] = 0
    /\ Goto(t, "idle")
    /\ UNCHANGED <<born, proc, n, m, log, mutex, this_, st, seeds>>

\* The loop ends and the mutex is unlocked.
Unlock(t) ==
    /\ At(t, "loop")
    /\ n[t] = 0
    /\ mutex' = [mutex EXCEPT ![proc[t]] = NoOne]
    /\ Goto(t, "idle")
    /\ UNCHANGED <<born, proc, n, m, log, this_, st, seeds>>

Spawn(t, u) ==
    /\ At(t, "idle")
    /\ pc[u] = "unborn"
    /\ proc' = [proc EXCEPT ![u] = proc[t]]
    /\ Goto(u, "idle")
    /\ UNCHANGED <<born, n, m, log, mutex, this_, st, seeds>>

\* t forks process q, in which it is thread u, alone.  (The page is made and
\* marked WIPEONFORK in the one step Allocate: before that this_ is null.)
Fork(t, u, q) ==
    /\ At(t, "idle")
    /\ pc[u] = "unborn"
    /\ q \notin born
    /\ born' = born \cup {q}
    /\ proc' = [proc EXCEPT ![u] = q]
    /\ mutex' = [mutex EXCEPT ![q] = IF mutex[proc[t]] = NoOne THEN NoOne ELSE Lost]
    /\ this_' = [this_ EXCEPT ![q] = this_[proc[t]]]
    /\ st' = [st EXCEPT ![q] = ForkImage(st[proc[t]])]
    /\ Goto(u, "idle")
    /\ UNCHANGED <<n, m, log, seeds>>

Step(t) ==
    \/ Lock(t) \/ Allocate(t) \/ Fails(t) \/ Test(t) \/ Regen(t)
    \/ Copy(t) \/ Advance(t) \/ Unlock(t)

Next ==
    \E t \in Thread :
        \/ Step(t)
        \/ \E k \in RequestSize : Call(t, k)
        \/ \E u \in Thread : Spawn(t, u) \/ \E q \in Proc : Fork(t, u, q)

Spec == Init /\ [][Next]_vars

\* A thread that can go on is scheduled.  No more is assumed of the mutex: the
\* code does not ask for one that is given to those who wait in turn.
FairSpec == Spec /\ \A t \in Thread : WF_vars(Step(t))

-----------------------------------------------------------------------------
Inside == {t \in Thread : pc[t] \in {"allocate", "loop", "regen", "copy", "advance"}}

\* Type invariant; rand_bytes_remaining never goes below zero, which it would
\* if two threads took the same bytes.
TypeOK ==
    /\ born \subseteq Proc
    /\ proc \in [Thread -> Proc]
    /\ pc \in [Thread -> {"unborn", "idle", "lock", "allocate", "loop", "regen",
                          "copy", "advance", "exited"}]
    /\ n \in [Thread -> Nat]
    /\ m \in [Thread -> 0 .. PoolSize]
    /\ log \in [Thread -> Seq(Byte)]
    /\ mutex \in [Proc -> Thread \cup {NoOne, Lost}]
    /\ this_ \in [Proc -> BOOLEAN]
    /\ st \in [Proc -> Struct]
    /\ seeds \in 0 .. MaxSeeds

\* "a pool shared across all threads, protected by a mutex" (randp.hpp:226): the
\* thread inside is the one that holds the mutex of its process, and with it the
\* structure; a mutex whose holder was not forked is never taken.
Exclusive == \A t \in Inside : mutex[proc[t]] = t

-----------------------------------------------------------------------------
(* The inductive invariant: why the thread inside may trust what it read.  *)

\* A thread belongs to a process that there is.
BornInv == \A t \in Thread : proc[t] \in born

\* What the labels say of the locals and of the structure, which nobody but the
\* thread inside changes.
LoopInv ==
    \A t \in Thread :
        /\ pc[t] \in {"unborn", "idle"} => n[t] = 0
        /\ pc[t] \in {"regen", "copy", "advance"} => n[t] > 0
        /\ pc[t] = "regen" => Struct_of(t).rand_bytes_remaining = 0
        /\ pc[t] \in {"copy", "advance"} => Struct_of(t).rand_bytes_remaining > 0
        /\ pc[t] = "advance" => m[t] = Chunk(Struct_of(t), n[t])

\* A structure is of zeros or has the keys of a seed of its own.
ContentInv ==
    \A p \in Proc :
        /\ st[p].keys <= seeds
        /\ st[p].keys = 0 => st[p] = ZeroPage
        /\ Shaped(st[p])
        /\ \A q \in Proc : st[p].keys = st[q].keys /\ st[p].keys # 0 => p = q

\* A byte was delivered under a seed that was drawn, and from a block that the
\* counter of the seed has passed.
DeliveredInv ==
    \A t \in Thread : \A j \in DOMAIN log[t] :
        /\ log[t][j].seed \in 1 .. seeds
        /\ \A p \in Proc : log[t][j].seed = st[p].keys => log[t][j].ctr < st[p].ctr

\* Byte i of the pool of p is neither zeroed nor about to be.
Left(p, i) ==
    /\ i >= Src(st[p])
    /\ \A u \in Thread : pc[u] = "advance" /\ proc[u] = p => i >= Src(st[p]) + m[u]

Received(t) == {log[t][j] : j \in DOMAIN log[t]}

\* What is left in a pool was delivered to nobody.
UndeliveredInv ==
    \A p \in Proc, i \in Index, t \in Thread :
        Left(p, i) => st[p].pool[i] \notin Received(t)

NoRepeat ==
    \A t \in Thread, u \in Thread : \A j \in DOMAIN log[t], h \in DOMAIN log[u] :
        log[t][j] = log[u][h] => t = u /\ j = h

\* The mutex and what it is for, as one inductive invariant: only the thread
\* inside disturbs the structure of its process, and no byte of a shared pool
\* is delivered twice, to one thread or to two (randp.hpp:226).
MutexInv ==
    /\ TypeOK /\ BornInv /\ Exclusive /\ LoopInv
    /\ ContentInv /\ DeliveredInv /\ UndeliveredInv /\ NoRepeat

-----------------------------------------------------------------------------
Owed(t) == IF pc[t] = "advance" THEN n[t] - m[t] ELSE n[t]

Source == INSTANCE RandomSource WITH
              Proc <- Thread, NoByte <- Zero, owed <- [t \in Thread |-> Owed(t)]

\* To its callers in any thread of any process it is a source of fresh bytes,
\* as the pool of a thread of its own is.
SourceSpec == Source!Spec

\* The mutex is not kept: a thread that takes it gives it back, whatever the
\* call meets on its way, or its process exits; only in a process that was
\* forked while it was held is it held for ever, and there from the start.
Released ==
    \A t \in Thread :
        mutex[proc[t]] = t ~> mutex[proc[t]] # t \/ At(t, "exited")
=============================================================================
