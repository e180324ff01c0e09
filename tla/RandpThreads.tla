---------------------------- MODULE RandpThreads ----------------------------
(***************************************************************************)
(* The life of the per-thread structures: the first half of randp_bytes in *)
(* src/src/randp.c (the thread_local pointer, call_once, tss_set), the     *)
(* page it gets from allocate and loses through the TSS destructor         *)
(* randp_destroy, in processes that start threads, fork while other        *)
(* threads are anywhere in that code, and lose threads and processes.      *)
(*                                                                         *)
(* What RandpPool describes in detail, drawing bytes, is here one step on  *)
(* the page: it seeds a page that still reads as zeros.                    *)
(*                                                                         *)
(* The kernel (mmap, mlock, madvise, munmap, fork) and the C library       *)
(* (call_once, TSS, its destructors) appear as the code relies on them.    *)
(***************************************************************************)
EXTENDS Naturals, FiniteSets

CONSTANTS
    Proc, Thread, Addr,     \* processes, threads, page addresses
    Init_p, Init_t,         \* the first process and its main thread
    Null,                   \* nullptr
    MlockResults,           \* may mlock succeed (TRUE), may it fail (FALSE)?
    LateCalls,              \* may another TSS destructor call randp_bytes
                            \* after randp_destroy has run?
    DtorRounds,             \* TSS_DTOR_ITERATIONS
    MaxSeeds                \* bound: getentropy seeds at most this many pages

ASSUME InitAssumption ==
    /\ Init_p \in Proc /\ Init_t \in Thread
    /\ Null \notin Addr
    /\ MlockResults \subseteq BOOLEAN /\ MlockResults # {}
    /\ LateCalls \in BOOLEAN
    /\ DtorRounds \in Nat \ {0}
    /\ MaxSeeds \in Nat

VARIABLES
    born,       \* the processes that exist or have existed
    proc,       \* proc[t] : the process of thread t, Null before t starts
    pc,         \* pc[t] : where t is in randp_bytes or in its exit
    leaving,    \* the threads that are running their TSS destructors
    passes,     \* passes[t] : in how many of the rounds of destructors t's exit
                \* is past randp_tss_key
    this_,      \* this_[t] : the thread_local pointer of randp_bytes
    addr,       \* addr[t] : the local addr of allocate
    tss,        \* tss[t] : t's value of randp_tss_key
    once,       \* once[p] : randp_tss_once
    key,        \* key[p] : how many TSS keys p has created
    page,       \* page[p][a] : the page at address a of p
    seeds       \* how many seeds getentropy has given, to anyone

vars == <<born, proc, pc, leaving, passes, this_, addr, tss, once, key, page, seeds>>

-----------------------------------------------------------------------------
(* Pages.                                                                  *)

\* seed 0: the page reads as zeros.  refused remembers that mlock failed.
Page == [mapped : BOOLEAN, locked : BOOLEAN, refused : BOOLEAN,
         dontdump : BOOLEAN, wipeonfork : BOOLEAN, seed : Nat]

Unmapped == [mapped |-> FALSE, locked |-> FALSE, refused |-> FALSE,
             dontdump |-> FALSE, wipeonfork |-> FALSE, seed |-> 0]

\* mmap(MAP_PRIVATE | MAP_ANONYMOUS)
Fresh == [Unmapped EXCEPT !.mapped = TRUE]

\* What the child of a fork finds: locks are not inherited, the madvise flags
\* are, and so is the content, unless MADV_WIPEONFORK was applied.
Inherited(pg) ==
    [pg EXCEPT !.locked = FALSE, !.seed = IF pg.wipeonfork THEN 0 ELSE pg.seed]

\* Definitions named Slip... are plausible mistakes in the definition that
\* follows them; no specification uses them.

\* The child waits for a thread it does not have.
SlipOnceInherited(state) == state

\* A child's once_flag: an initialisation that some other thread of the parent
\* was running is not inherited, as that thread is not in the child.
InheritedOnce(state) == IF state = "done" THEN "done" ELSE "init"

SetPage(p, a, pg) == page' = [page EXCEPT ![p][a] = pg]
-----------------------------------------------------------------------------
(* Steps of a thread.                                                      *)

At(t, label) == pc[t] = label
Goto(t, label) == pc' = [pc EXCEPT ![t] = label]
Moves(t, from, to) == At(t, from) /\ Goto(t, to)

threadVars == <<proc, leaving, passes, this_, tss>>
processVars == <<born, once, key>>

Init ==
    /\ born = {Init_p}
    /\ proc = [t \in Thread |-> IF t = Init_t THEN Init_p ELSE Null]
    /\ pc = [t \in Thread |-> IF t = Init_t THEN "idle" ELSE "unborn"]
    /\ leaving = {}
    /\ passes = [t \in Thread |-> 0]
    /\ this_ = [t \in Thread |-> Null]
    /\ addr = [t \in Thread |-> Null]
    /\ tss = [t \in Thread |-> Null]
    /\ once = [p \in Proc |-> "init"]
    /\ key = [p \in Proc |-> 0]
    /\ page = [p \in Proc |-> [a \in Addr |-> Unmapped]]
    /\ seeds = 0

\* What becomes of a variable with a value per thread, when the threads in set
\* cease to exist.
Ended(f, set, value) == [t \in Thread |-> IF t \in set THEN value ELSE f[t]]

\* err and errx end the process of t: its threads, without any destructor, and
\* its memory.
Exit(t) ==
    LET all == {u \in Thread : proc[u] = proc[t]}
    IN  /\ pc' = Ended(pc, all, "dead")
        /\ leaving' = leaving \ all
        /\ passes' = Ended(passes, all, 0)
        /\ this_' = Ended(this_, all, Null)
        /\ addr' = Ended(addr, all, Null)
        /\ tss' = Ended(tss, all, Null)
        /\ page' = [page EXCEPT ![proc[t]] = [a \in Addr |-> Unmapped]]
        /\ UNCHANGED <<born, proc, once, key, seeds>>

\* The system calls and library calls of randp_bytes whose failure is fatal; at
\* "draw" that is the getentropy of any reseed, the first or a later one.
Fatal == {"mmap", "dontdump", "wipeonfork", "tss_create", "tss_set", "draw", "munmap"}
Fails(t) == pc[t] \in Fatal /\ Exit(t)

\* randp_bytes is entered; this_ == nullptr decides whether to allocate.
Enter(t) ==
    /\ Goto(t, IF this_[t] = Null THEN "mmap" ELSE "draw")
    /\ UNCHANGED <<proc, leaving, this_, tss, processVars, addr, page, seeds>>

Call(t) == At(t, "idle") /\ Enter(t) /\ UNCHANGED passes

\* MAP_FAILED is taken for an address.
SlipMmapUnchecked(t) ==
    /\ Moves(t, "mmap", "mlock")
    /\ addr' = [addr EXCEPT ![t] = "MAP_FAILED"]
    /\ UNCHANGED <<threadVars, processVars, page, seeds>>

\* allocate: mmap, mlock, madvise twice, each a step another thread can fall
\* between.  The kernel chooses any free address, also one used before.
Mmap(t) ==
    /\ Moves(t, "mmap", "mlock")
    /\ \E a \in Addr :
        /\ ~page[proc[t]][a].mapped
        /\ SetPage(proc[t], a, Fresh)
        /\ addr' = [addr EXCEPT ![t] = a]
    /\ UNCHANGED <<threadVars, processVars, seeds>>

\* A system call on the new page, which becomes one of pages.
Prepare(t, from, to, pages) ==
    /\ Moves(t, from, to)
    /\ \E pg \in pages : SetPage(proc[t], addr[t], pg)
    /\ UNCHANGED <<proc, leaving, passes, tss, processVars, seeds>>

NewPage(t) == page[proc[t]][addr[t]]

\* (void)mlock: the limit may be reached, and the page is used all the same.
Mlock(t) ==
    /\ Prepare(t, "mlock", "dontdump",
               {[NewPage(t) EXCEPT !.locked = ok, !.refused = ~ok] : ok \in MlockResults})
    /\ UNCHANGED <<this_, addr>>

\* The result of the first madvise is ignored, as mlock's is.
SlipDontDumpIgnored(t) ==
    /\ Prepare(t, "dontdump", "wipeonfork",
               {[NewPage(t) EXCEPT !.dontdump = ok] : ok \in BOOLEAN})
    /\ UNCHANGED <<this_, addr>>

\* MADV_DONTDUMP.
DontDump(t) ==
    /\ Prepare(t, "dontdump", "wipeonfork", {[NewPage(t) EXCEPT !.dontdump = TRUE]})
    /\ UNCHANGED <<this_, addr>>

\* The result of the second madvise is ignored, as mlock's is.
SlipWipeOnForkIgnored(t) ==
    /\ Prepare(t, "wipeonfork", "call_once",
               {[NewPage(t) EXCEPT !.wipeonfork = ok] : ok \in BOOLEAN})
    /\ this_' = [this_ EXCEPT ![t] = addr[t]]
    /\ addr' = [addr EXCEPT ![t] = Null]

\* The pointer is static but not thread_local.
SlipSharedPointer(t) ==
    /\ Prepare(t, "wipeonfork", "call_once", {[NewPage(t) EXCEPT !.wipeonfork = TRUE]})
    /\ this_' = [u \in Thread |-> IF proc[u] = proc[t] THEN addr[t] ELSE this_[u]]
    /\ addr' = [addr EXCEPT ![t] = Null]

\* The last madvise; allocate returns and the pointer is assigned.
WipeOnFork(t) ==
    /\ Prepare(t, "wipeonfork", "call_once", {[NewPage(t) EXCEPT !.wipeonfork = TRUE]})
    /\ this_' = [this_ EXCEPT ![t] = addr[t]]
    /\ addr' = [addr EXCEPT ![t] = Null]

\* Nothing but the once flag and the key changes.
OnceStep(t, from, to) ==
    Moves(t, from, to) /\ UNCHANGED <<threadVars, born, addr, page, seeds>>

\* A flag that is tested and set in two steps instead of call_once.
SlipOnceRace(t) ==
    /\ OnceStep(t, "call_once", "tss_create")
    /\ once[proc[t]] # "done"
    /\ once' = [once EXCEPT ![proc[t]] = "busy"]
    /\ UNCHANGED key

\* call_once: the first thread runs the initialiser, the others wait for it.
OnceBegin(t) ==
    /\ OnceStep(t, "call_once", "tss_create")
    /\ once[proc[t]] = "init"
    /\ once' = [once EXCEPT ![proc[t]] = "busy"]
    /\ UNCHANGED key

OncePass(t) ==
    /\ OnceStep(t, "call_once", "tss_set")
    /\ once[proc[t]] = "done"
    /\ UNCHANGED <<once, key>>

\* randp_tss_key_init
TssCreate(t) ==
    /\ OnceStep(t, "tss_create", "once_done")
    /\ key' = [key EXCEPT ![proc[t]] = key[proc[t]] + 1]
    /\ UNCHANGED once

OnceEnd(t) ==
    /\ OnceStep(t, "once_done", "tss_set")
    /\ once' = [once EXCEPT ![proc[t]] = "done"]
    /\ UNCHANGED key

\* The result of tss_set is ignored.
SlipTssSetIgnored(t) ==
    /\ Moves(t, "tss_set", "draw")
    /\ \E value \in {this_[t], tss[t]} : tss' = [tss EXCEPT ![t] = value]
    /\ UNCHANGED <<proc, leaving, passes, this_, processVars, addr, page, seeds>>

\* tss_set(randp_tss_key, this_)
TssSet(t) ==
    /\ Moves(t, "tss_set", "draw")
    /\ tss' = [tss EXCEPT ![t] = this_[t]]
    /\ UNCHANGED <<proc, leaving, passes, this_, processVars, addr, page, seeds>>

\* The loop of randp_bytes on the page this_ points to: a page of zeros has
\* reseed_countdown = rand_bytes_remaining = 0 and gets a seed first.  (A later
\* reseed replaces a seed by another new one: the number stands for the line.)
Seed(t) ==
    LET pg == page[proc[t]][this_[t]]
    IN  /\ pg.mapped /\ pg.seed = 0
        /\ seeds < MaxSeeds
        /\ seeds' = seeds + 1
        /\ SetPage(proc[t], this_[t], [pg EXCEPT !.seed = seeds + 1])

\* A request for no bytes does not touch the page, one that the pool can meet
\* leaves its seed as it is.
Draw(t) ==
    /\ Moves(t, "draw", IF t \in leaving THEN "exiting" ELSE "idle")
    /\ Seed(t) \/ UNCHANGED <<page, seeds>>
    /\ UNCHANGED <<threadVars, processVars, addr>>

\* A thread leaves its start function, between two calls.
Leave(t) ==
    /\ Moves(t, "idle", "exiting")
    /\ leaving' = leaving \cup {t}
    /\ UNCHANGED <<proc, passes, this_, tss, processVars, addr, page, seeds>>

\* In the next round the C library finds a value for the key, clears it and
\* calls randp_destroy.
BeginDestroy(t) ==
    /\ tss[t] # Null
    /\ passes[t] < DtorRounds
    /\ Moves(t, "exiting", "munmap")
    /\ passes' = [passes EXCEPT ![t] = passes[t] + 1]
    /\ tss' = [tss EXCEPT ![t] = Null]
    /\ addr' = [addr EXCEPT ![t] = tss[t]]
    /\ UNCHANGED <<proc, leaving, this_, processVars, page, seeds>>

\* The result of munmap is ignored.
SlipMunmapIgnored(t) ==
    /\ Prepare(t, "munmap", "exiting", {Unmapped, NewPage(t)})
    /\ addr' = [addr EXCEPT ![t] = Null]
    /\ UNCHANGED this_

\* randp_destroy: deallocate unmaps the page; this_ is out of its reach.
Destroy(t) ==
    /\ Prepare(t, "munmap", "exiting", {Unmapped})
    /\ addr' = [addr EXCEPT ![t] = Null]
    /\ UNCHANGED this_

\* Another library's TSS destructor calls randp_bytes when there is no value for
\* the key any more, or none yet: in this round or, if that library has set its
\* own value again, in a later one.
LateCall(t) ==
    /\ LateCalls
    /\ At(t, "exiting")
    /\ tss[t] = Null
    /\ \E r \in passes[t] .. DtorRounds : passes' = [passes EXCEPT ![t] = r]
    /\ Enter(t)

\* No value is left for any key, or the C library gives up on those that are:
\* the thread and its thread_locals are gone.
Gone(t) ==
    /\ tss[t] = Null \/ passes[t] = DtorRounds
    /\ Moves(t, "exiting", "dead")
    /\ leaving' = leaving \ {t}
    /\ passes' = [passes EXCEPT ![t] = 0]
    /\ tss' = [tss EXCEPT ![t] = Null]
    /\ this_' = [this_ EXCEPT ![t] = Null]
    /\ UNCHANGED <<proc, processVars, addr, page, seeds>>

\* A thread starts another one, between two calls of randp_bytes.
Spawn(t, u) ==
    /\ At(t, "idle")
    /\ Moves(u, "unborn", "idle")
    /\ proc' = [proc EXCEPT ![u] = proc[t]]
    /\ UNCHANGED <<leaving, passes, this_, tss, processVars, addr, page, seeds>>

\* t forks process q, between two calls.  Thread u is what t is in q; the other
\* threads of t's process, wherever they are, do not exist there, but the
\* memory they had mapped does.
Fork(t, u, q) ==
    /\ At(t, "idle")
    /\ Moves(u, "unborn", "idle")
    /\ q \notin born
    /\ born' = born \cup {q}
    /\ proc' = [proc EXCEPT ![u] = q]
    /\ this_' = [this_ EXCEPT ![u] = this_[t]]
    /\ tss' = [tss EXCEPT ![u] = tss[t]]
    /\ once' = [once EXCEPT ![q] = InheritedOnce(once[proc[t]])]
    /\ key' = [key EXCEPT ![q] = key[proc[t]]]
    /\ page' = [page EXCEPT ![q] = [a \in Addr |-> Inherited(page[proc[t]][a])]]
    /\ UNCHANGED <<leaving, passes, addr, seeds>>

\* A step of a call in progress, and of an exit in progress.
CallStep(t) ==
    \/ Mmap(t) \/ Mlock(t) \/ DontDump(t) \/ WipeOnFork(t)
    \/ OnceBegin(t) \/ OncePass(t) \/ TssCreate(t) \/ OnceEnd(t) \/ TssSet(t)
    \/ Draw(t)
ExitStep(t) == BeginDestroy(t) \/ Destroy(t) \/ Gone(t)

Next ==
    \E t \in Thread :
        \/ Call(t) \/ Leave(t) \/ LateCall(t)
        \/ CallStep(t) \/ ExitStep(t) \/ Fails(t)
        \/ \E u \in Thread : Spawn(t, u) \/ \E q \in Proc : Fork(t, u, q)

Spec == Init /\ [][Next]_vars

\* Every thread that can go on is eventually scheduled, and every library or
\* system call it makes returns or fails.
FairSpec ==
    Spec /\ \A t \in Thread : WF_vars(CallStep(t) \/ ExitStep(t) \/ Fails(t))

-----------------------------------------------------------------------------
(* Safety.                                                                 *)

Labels == {"unborn", "idle", "mmap", "mlock", "dontdump", "wipeonfork", "call_once",
           "tss_create", "once_done", "tss_set", "draw", "exiting", "munmap", "dead"}

\* Type invariant.
TypeOK ==
    /\ born \subseteq Proc
    /\ proc \in [Thread -> Proc \cup {Null}]
    /\ pc \in [Thread -> Labels]
    /\ leaving \subseteq Thread
    /\ passes \in [Thread -> 0 .. DtorRounds]
    /\ this_ \in [Thread -> Addr \cup {Null}]
    /\ addr \in [Thread -> Addr \cup {Null}]
    /\ tss \in [Thread -> Addr \cup {Null}]
    /\ once \in [Proc -> {"init", "busy", "done"}]
    /\ key \in [Proc -> Nat]
    /\ page \in [Proc -> [Addr -> Page]]
    /\ seeds \in Nat

\* The threads that exist.
Live == {t \in Thread : pc[t] \notin {"unborn", "dead"}}

\* "Each thread has its own randp structure, so the functions need no locking"
\* (README.md:19): a thread that draws has a mapped page under this_, which no
\* other thread of its process draws from, will draw from, or is about to unmap.
OwnStructure ==
    \A t \in Live : pc[t] = "draw" =>
        /\ page[proc[t]][this_[t]].mapped
        /\ \A u \in Live \ {t} : proc[u] = proc[t] =>
              /\ this_[u] = this_[t] => u \in leaving /\ pc[u] # "draw"
              /\ pc[u] = "munmap" => addr[u] # this_[t]

\* A seed is never written to a page that core dumps or fork would copy: both
\* madvise calls come before the first draw, and survive fork.
SecretsProtected ==
    \A p \in Proc, a \in Addr : page[p][a].seed # 0 =>
        page[p][a].mapped /\ page[p][a].dontdump /\ page[p][a].wipeonfork

\* No seed is in two pages, of one process or two, whichever thread forks and
\* whatever the other threads were doing then.
SeedUnshared ==
    \A p, q \in Proc : \A a, b \in Addr :
        page[p][a].seed # 0 /\ page[p][a].seed = page[q][b].seed => p = q /\ a = b

\* The destructor of t will get page a of p, or it has got it.
Owns(t, p, a) ==
    /\ t \in Live /\ proc[t] = p
    /\ tss[t] = a \/ (pc[t] = "munmap" /\ addr[t] = a)

\* "When a thread exits, a C11 thread-specific storage destructor munmaps its
\* structure" (README.md:19): a seed never outlives its thread, as each seeded
\* page belongs to a live thread whose destructor has it.
\* (Fork leaves pages without a thread in the child, but they read as zeros.)
SecretsOwned ==
    \A p \in Proc, a \in Addr : page[p][a].seed # 0 => \E t \in Thread : Owns(t, p, a)

\* Once a thread has a value under the TSS key of its process, the key is never
\* replaced: its destructor would not find the value.
KeyKept ==
    [][\A t \in Live : tss[t] # Null => key'[proc[t]] = key[proc[t]]]_vars

\* README.md:79-84: the structure is mlocked, and used unlocked in the case that
\* mlock fails.
LockedUnlessRefused ==
    \A p \in Proc, a \in Addr :
        page[p][a].seed # 0 => page[p][a].locked \/ page[p][a].refused

-----------------------------------------------------------------------------
(* The inductive invariant behind the safety properties.                   *)

\* The pages t is responsible for: the one it prepares or unmaps, the one its
\* destructor will get, and the one it is about to register for that.
Registering == {"call_once", "tss_create", "once_done", "tss_set"}
Has(t, a) ==
    \/ addr[t] = a
    \/ tss[t] = a
    \/ pc[t] \in Registering /\ this_[t] = a

\* What is known at each label.  The last lines are where LateCalls matters.
LabelInv ==
    \A t \in Thread :
        /\ addr[t] # Null <=> pc[t] \in {"mlock", "dontdump", "wipeonfork", "munmap"}
        /\ pc[t] \in {"unborn", "mmap", "mlock", "dontdump", "wipeonfork"} => this_[t] = Null
        /\ pc[t] \in Registering => this_[t] # Null
        /\ pc[t] = "draw" => this_[t] # Null
        /\ tss[t] # Null => pc[t] \in {"idle", "draw", "exiting"} /\ tss[t] = this_[t]
        /\ pc[t] \in {"idle", "draw"} => tss[t] = this_[t]
        /\ t \in leaving <=> pc[t] \in {"exiting", "munmap"}
        /\ passes[t] # 0 => t \in leaving /\ tss[t] = Null

\* A process in which a thread lives has been started, and a thread that has
\* not started has no value under the key.
BornInv ==
    /\ \A t \in Live : proc[t] \in born
    /\ \A t \in Thread : pc[t] = "unborn" => tss[t] = Null

\* The first thread to call randp_bytes in a process is alone in the
\* initialiser, and no thread is past call_once before it is done.
Initialising == {"tss_create", "once_done"}
OnceInv ==
    \A t \in Live :
        /\ pc[t] \in Initialising =>
              /\ once[proc[t]] = "busy"
              /\ \A u \in Live \ {t} : proc[u] = proc[t] => pc[u] \notin Initialising
        /\ pc[t] = "tss_set" \/ tss[t] # Null => once[proc[t]] = "done"

\* A page that a thread has is mapped, by this thread alone, and protected by
\* the calls the thread has made.
PageInv ==
    \A t \in Live, a \in Addr : Has(t, a) =>
        /\ page[proc[t]][a].mapped
        /\ page[proc[t]][a].dontdump \/ pc[t] \in {"mlock", "dontdump"}
        /\ page[proc[t]][a].wipeonfork \/ pc[t] \in {"mlock", "dontdump", "wipeonfork"}
        /\ \A u \in Live \ {t} : proc[u] = proc[t] => ~Has(u, a)

\* No seed is still to come.
SeedInv == \A p \in Proc, a \in Addr : page[p][a].seed <= seeds

\* The inductive invariant: TLC checks it here, RandpLibraryProofs proves it.
IInv ==
    /\ TypeOK /\ LabelInv /\ BornInv /\ OnceInv /\ PageInv
    /\ SecretsOwned /\ SeedInv /\ SeedUnshared

-----------------------------------------------------------------------------
(* Liveness.                                                               *)

InCall(t) == pc[t] \in {"mmap", "mlock", "dontdump", "wipeonfork", "call_once",
                        "tss_create", "once_done", "tss_set", "draw"}

\* A call returns unless the process exits: no thread waits for ever in
\* call_once, not even in the child of a fork made while it was running.
CallReturns == \A t \in Thread : InCall(t) ~> ~InCall(t)

\* "When a thread exits, a C11 thread-specific storage destructor munmaps its
\* structure" (README.md:19): from its mmap on, in calls and in exits, a page is
\* on its way to being unmapped or to a thread that stays and draws from it
\* again.  That holds of a page mapped in a late call too, but for the last round
\* of destructors, after which C promises no other.
PageReturned ==
    \A t \in Thread, a \in Addr :
        Has(t, a) /\ pc[t] # "idle" /\ passes[t] < DtorRounds ~>
            \/ pc[t] # "unborn" /\ ~page[proc[t]][a].mapped
            \/ pc[t] = "idle" /\ tss[t] = a
=============================================================================
