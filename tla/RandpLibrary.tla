---------------------------- MODULE RandpLibrary ----------------------------
(***************************************************************************)
(* randp as one: the threads, pages and forks of RandpThreads, and inside  *)
(* each page the structure of RandpStruct, on which the loop of            *)
(* randp_bytes (src/src/randp.c) works.  What RandpPool takes for granted, *)
(* that a structure belongs to one thread and reads as zeros after a fork, *)
(* is here what the steps of allocate make of it, with other threads       *)
(* anywhere in their own calls, also in the middle of a refill or a copy.  *)
(***************************************************************************)
EXTENDS RandpThreads, RandpStruct

CONSTANT RequestSize    \* the sizes callers ask for

ASSUME RequestAssumption == RequestSize \subseteq Nat /\ ~LateCalls

VARIABLES
    mem,    \* mem[p][a] : the structure in the page at address a of p
    at,     \* at[t] : where t, whose pc is "draw", is in the loop:
            \* before memcpy or after it
    n, m,   \* n[t], m[t] : the locals of randp_bytes
    log     \* log[t] : what t's callers received

loopVars == <<mem, at, n, m, log>>
libraryVars == <<vars, loopVars>>

-----------------------------------------------------------------------------
LibraryInit ==
    /\ Init
    /\ mem = [p \in Proc |-> [a \in Addr |-> ZeroPage]]
    /\ at = [t \in Thread |-> "loop"]
    /\ n = [t \in Thread |-> 0]
    /\ m = [t \in Thread |-> 0]
    /\ log = [t \in Thread |-> <<>>]

\* The content of memory after a step that maps or unmaps pages: new pages read
\* as zeros, and nothing is left of a page that is unmapped.
Remapped ==
    [p \in Proc |-> [a \in Addr |->
        IF page[p][a].mapped /\ page'[p][a].mapped THEN mem[p][a] ELSE ZeroPage]]

\* The structure that t works on.
Content(t) == mem[proc[t]][this_[t]]
SetContent(t, s) == mem' = [mem EXCEPT ![proc[t]][this_[t]] = s]

Loops(t, from, to) ==
    /\ At(t, "draw") /\ at[t] = from
    /\ at' = [at EXCEPT ![t] = to]

\* while (n > 0), if (rand_bytes_remaining == 0)
Empty(t) == at[t] = "loop" /\ n[t] > 0 /\ Content(t).rand_bytes_remaining = 0

\* A caller of t asks for k bytes.
Request(t, k) ==
    /\ Call(t)
    /\ n' = [n EXCEPT ![t] = k]
    /\ UNCHANGED <<mem, at, m, log>>

\* The steps of RandpThreads that do not draw bytes.
Manage(t) ==
    /\ \/ Mmap(t) \/ Mlock(t) \/ DontDump(t) \/ WipeOnFork(t)
       \/ OnceBegin(t) \/ OncePass(t) \/ TssCreate(t) \/ OnceEnd(t) \/ TssSet(t)
       \/ Leave(t) \/ ExitStep(t) \/ \E u \in Thread : Spawn(t, u)
    /\ mem' = Remapped
    /\ UNCHANGED <<at, n, m, log>>

\* A call fails; at "draw" the one that can is the getentropy of a reseed.
Abort(t) ==
    /\ At(t, "draw") => Empty(t) /\ Content(t).reseed_countdown = 0
    /\ Fails(t)
    /\ mem' = Remapped
    /\ UNCHANGED <<at, n, m, log>>

\* fork copies the pages of all threads, but for those with MADV_WIPEONFORK.
ForkMemory(t, u, q) ==
    /\ Fork(t, u, q)
    /\ mem' = [mem EXCEPT ![q] = [a \in Addr |->
                  IF page[proc[t]][a].wipeonfork THEN ForkImage(mem[proc[t]][a])
                  ELSE mem[proc[t]][a]]]
    /\ UNCHANGED <<at, n, m, log>>

-----------------------------------------------------------------------------
(* The loop of randp_bytes.                                                *)

\* randp_regen; other threads run during it, but none reads what it writes.
Regen(t) ==
    /\ At(t, "draw") /\ Empty(t)
    /\ IF Content(t).reseed_countdown = 0
       THEN /\ seeds < MaxSeeds
            /\ seeds' = seeds + 1
            /\ SetPage(proc[t], this_[t],
                       [page[proc[t]][this_[t]] EXCEPT !.seed = seeds + 1])
            /\ SetContent(t, Filled(Reseeded(Content(t), seeds + 1)))
       ELSE SetContent(t, Filled(Content(t))) /\ UNCHANGED <<seeds, page>>
    /\ UNCHANGED <<pc, threadVars, processVars, addr, at, n, m, log>>

\* src, m, memcpy.
Copy(t) ==
    /\ Loops(t, "loop", "advance")
    /\ n[t] > 0 /\ Content(t).rand_bytes_remaining > 0
    /\ m' = [m EXCEPT ![t] = Chunk(Content(t), n[t])]
    /\ log' = [log EXCEPT ![t] = log[t] \o Copied(Content(t), Chunk(Content(t), n[t]))]
    /\ UNCHANGED <<vars, mem, n>>

\* The counters move on, but the bytes stay.
SlipAdvanceKeeps(t) ==
    /\ Loops(t, "advance", "loop")
    /\ SetContent(t, Advanced(Content(t), m[t]))
    /\ n' = [n EXCEPT ![t] = n[t] - m[t]]
    /\ UNCHANGED <<vars, m, log>>

\* explicit_bzero and the three updates.
Advance(t) ==
    /\ Loops(t, "advance", "loop")
    /\ SetContent(t, Advanced(Wiped(Content(t), m[t]), m[t]))
    /\ n' = [n EXCEPT ![t] = n[t] - m[t]]
    /\ UNCHANGED <<vars, m, log>>

\* The loop ends and randp_bytes returns.
Return(t) ==
    /\ n[t] = 0
    /\ at[t] = "loop"
    /\ Moves(t, "draw", "idle")
    /\ UNCHANGED <<threadVars, processVars, addr, page, seeds, loopVars>>

LibraryNext ==
    \E t \in Thread :
        \/ \E k \in RequestSize : Request(t, k)
        \/ Manage(t) \/ Abort(t)
        \/ \E u \in Thread, q \in Proc : ForkMemory(t, u, q)
        \/ Regen(t) \/ Copy(t) \/ Advance(t) \/ Return(t)

LibrarySpec == LibraryInit /\ [][LibraryNext]_libraryVars

-----------------------------------------------------------------------------
(* Properties.                                                             *)

Owed(t) == IF at[t] = "advance" THEN n[t] - m[t] ELSE n[t]

Source == INSTANCE RandomSource WITH
              Proc <- Thread, NoByte <- Zero, owed <- [t \in Thread |-> Owed(t)]

\* The library as a whole is a source of fresh bytes to all threads of all
\* processes: "fork-safe" (tests/README.md:3) and without locks (README.md:19),
\* whatever the other threads were doing when one of them forked or ended.
SourceSpec == Source!Spec

Bytes(s) == {s.pool[i] : i \in Index} \ {Zero}
Received(t) == {log[t][j] : j \in DOMAIN log[t]}

\* No secret is in memory twice, nor in memory and in a caller's buffer: not in
\* a page another thread or process has, had or will be given.  (Between memcpy
\* and explicit_bzero the page of the thread that copies has what it delivers.)
MemoryApart ==
    \A p \in Proc, a \in Addr :
        /\ \A q \in Proc, b \in Addr : <<p, a>> # <<q, b>> =>
              /\ mem[p][a].keys # 0 => mem[p][a].keys # mem[q][b].keys
              /\ Bytes(mem[p][a]) \cap Bytes(mem[q][b]) = {}
        /\ \A t \in Thread :
              ~(at[t] = "advance" /\ proc[t] = p /\ this_[t] = a) =>
                  Bytes(mem[p][a]) \cap Received(t) = {}

\* "When a thread exits, a C11 thread-specific storage destructor munmaps its
\* structure" (README.md:19): keys and bytes that nobody received are only in
\* pages of threads that are there to draw from them or to unmap them.
MemoryOwned ==
    \A p \in Proc, a \in Addr : mem[p][a] # ZeroPage =>
        /\ page[p][a].dontdump /\ page[p][a].wipeonfork
        /\ \E t \in Thread : Owns(t, p, a)

-----------------------------------------------------------------------------
(* The inductive invariant behind the properties.                          *)

\* t is between the memcpy and the explicit_bzero of a round.
Reading(t) == At(t, "draw") /\ at[t] = "advance"

LibraryTypeOK ==
    /\ mem \in [Proc -> [Addr -> Struct]]
    /\ at \in [Thread -> {"loop", "advance"}]
    /\ n \in [Thread -> Nat]
    /\ m \in [Thread -> 0 .. PoolSize]
    /\ log \in [Thread -> Seq(Byte)]

\* What is known in the loop, and outside.
LoopInv ==
    \A t \in Thread :
        /\ pc[t] \in {"unborn", "idle"} => n[t] = 0
        /\ at[t] = "advance" => pc[t] \in {"draw", "dead"}
        /\ Reading(t) => /\ n[t] > 0 /\ Content(t).rand_bytes_remaining > 0
                         /\ m[t] = Chunk(Content(t), n[t])

\* The keys in a page are those of its seed; without, nothing is in the page.
ContentInv ==
    \A p \in Proc, a \in Addr :
        /\ mem[p][a].keys = page[p][a].seed
        /\ page[p][a].seed = 0 => mem[p][a] = ZeroPage
        /\ Shaped(mem[p][a])

\* What was delivered under the keys in a page was delivered to the thread that
\* owns the page, and comes from blocks that the counter there has passed.
DeliveredInv ==
    \A t \in Thread : \A j \in DOMAIN log[t] :
        /\ log[t][j].seed \in 1 .. seeds
        /\ \A p \in Proc, a \in Addr : log[t][j].seed = mem[p][a].keys =>
              Owns(t, p, a) /\ log[t][j].ctr < mem[p][a].ctr

\* What is left in a pool was not delivered, but for what t is just reading.
Taken(t, p, a) == IF Reading(t) /\ proc[t] = p /\ this_[t] = a THEN m[t] ELSE 0
UndeliveredInv ==
    \A t \in Thread, p \in Proc, a \in Addr : \A i \in Index :
        i >= Src(mem[p][a]) + Taken(t, p, a) => mem[p][a].pool[i] \notin Received(t)

\* No byte was delivered twice.
NoRepeat ==
    \A t, u \in Thread : \A i \in DOMAIN log[t], j \in DOMAIN log[u] :
        log[t][i] = log[u][j] => t = u /\ i = j

\* The inductive invariant: TLC checks it here, RandpLibraryProofs proves it.
LibraryInv ==
    /\ IInv /\ LibraryTypeOK /\ LoopInv /\ ContentInv
    /\ DeliveredInv /\ UndeliveredInv /\ NoRepeat
=============================================================================
