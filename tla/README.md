# A TLA+ model of randp

randp is a C library that hands out random bytes: an AES-CTR generator fills a
pool of one page or less, callers take bytes from the pool, and each thread has
a pool of its own in memory that is kept out of core dumps and forked children.
This directory models it in TLA+: the modules are translated from the source,
TLC checks them on small instances, and TLAPS proves the main results for every
value of the constants.

Paths below are those of the repository (`src/randp.c` is the library itself).

## The system

| part | state | operations | what is hard about it |
|---|---|---|---|
| pool, `randp_bytes` loop (`src/randp.c`) | `struct randp`: keys, counter, pool, `reseed_countdown`, `rand_bytes_remaining` | `randp_regen`, the loop of `randp_bytes`, `randp_u8` ... `randp_u64` | requests across pools and reseeds; zeroizing; a fork of a used structure |
| thread lifecycle, secure page (`src/randp.c`, `src/allocate.h`) | `this_` (thread-local), `randp_tss_once`, `randp_tss_key`, the page's flags | `allocate`, `call_once`, `tss_set`, `randp_destroy`, `deallocate` | threads racing, forks and exits in the middle of allocation, failures of every call, a pointer that outlives its page |
| AES-CTR PRNG (`src/aes_ctr_*_prng.h`) | `keys`, `ctr` | `*_reseed`, four `*_fill` for each width | the counter wraps and is kept in a local; keys are adjusted |
| AES helpers (`src/aes-*-utils.h`, `src/wyprimes.h`) | the block and the loop variables of a call | `aes_enc_*`, `aes_dec_*`, Davies-Meyer, `rectify_key_*`, `wyprimes_vec*` | equal lanes, once in 2^64; a round more or less shows in no output; four modes, of which one is built |
| bounded integers (`src/nearlydivisionless.h`) | locals of a call | `randp_lt_u32`, `randp_lt_u64` | the rejection threshold, unsigned wrap, termination |
| parameters (`src/randp-defaults.h`) | none | static_asserts | |
| benchmarks (`benchmarks/`) | a template copy of the library; one shared pool behind a mutex; option parsing | `randp_bytes_MUTEX`, `parse_int`, `get_num_threads` | fork while the mutex is held |
| amalgamation (`amalgamate.py`) | files seen, order | `include_order_for` | cycles, diamonds, lookup order |
| tests (`tests/`) | none | call the library and print | |

How they interact: a caller's `randp_u32` is `randp_bytes(&result, 4)`;
`randp_bytes` gets its page from `allocate` on a thread's first call, registers
it under a TSS key so that `randp_destroy` unmaps it when the thread ends, and
takes bytes from the pool, calling `randp_regen` when it is empty, which calls
`getentropy` through `*_reseed` when the countdown is zero and then a `*_fill`.
Threads share nothing but the TSS key and its once flag. Processes share nothing
but what `fork` copies, and there the kernel replaces the page by zeros.

What makes each part correct:

- pool: every byte of keystream goes to one caller, once and in order; none
  is in memory after it was delivered; a structure of zeros is one to be seeded;
  a request is served in full.
- lifecycle: a thread that draws has a page of its own; a page that
  has a seed can neither be dumped nor inherited; it does not outlive its thread;
  nobody waits for a thread that does not exist.
- PRNG and AES: the counters of one seed are all different, and so are their blocks.
- together: a byte that some caller gets was in one page only, of the thread that got it.
- bounded integers: below the bound, uniform, and the loop ends.

`PROJECT.json` lists the hazards line by line, with the properties that cover each.

## Modules

| module | what it is |
|---|---|
| `RandomSource` | what callers are promised: a request for k bytes is met with k fresh bytes |
| `RandpStruct` | `struct randp` as a record, and what a reseed, a fill, a copy, a wipe and a fork make of it |
| `RandpPool` | the loop of `randp_bytes` over a structure, in a tree of forked processes |
| `RandpThreads` | threads, pages, TSS, `call_once`, fork and exit |
| `RandpLibrary` | `RandpThreads` with a structure in each page, and the loop of `randp_bytes` in its threads |
| `AesCtrPrng` | lanes of the counter and the round keys: the Weyl sequence, `rectify_key` |
| `AesBlocks` | the rounds of two calls of `aes_enc` or `aes_dec` under the same keys |
| `NearlyDivisionless` | bounded integers |
| `RandpMutex` | `randp_bytes_MUTEX` of the benchmarks: one structure for all threads |
| `Amalgamate` | the traversal of `amalgamate.py` |
| `MC*` | small instances for TLC |
| `RandpStructProofs` | lemmas on reseed, fill, copy, wipe and fork image of a structure, which the proofs of the pools and the library share |
| `RandpPoolProofs`, `RandpMutexProofs`, `AesCtrPrngProofs`, `AesBlocksProofs`, `NearlyDivisionlessProofs`, `AmalgamateProofs` | theorems and proofs about the module of that name |
| `RandpLibraryProofs` | the same about `RandpThreads` (part 1) and `RandpLibrary` (part 2), which extends it and uses those theorems |

`RandpPool`, `RandpMutex` and `RandpLibrary` extend `RandpStruct`; each implements
`RandomSource` (`SourceSpec`): with a structure for each thread, with one for all,
and with structures in the pages that threads allocate, inherit and lose.
`RandpThreads` takes what `RandpPool` shows in detail, drawing bytes, as one step
`Draw`; `RandpPool` takes what `RandpThreads` shows (a structure of its own for each
thread, a page that reads as zeros in the child) as given. `RandpLibrary` takes
neither for granted: it has the actions of `RandpThreads`, other than `Draw`, and
the loop on whatever memory the thread's pointer names. `RandpPool` names a block by its
number since the seeding; `AesCtrPrng` shows that the number determines every lane
of the counter, and that no two numbers of a seed have a lane in common; `AesBlocks`
that different counters are different blocks. Definitions named `Slip...` are plausible
mistakes in the definition after them. No specification uses them: each property
was tried against one of them, and fails there.

### RandpPool and the code

`st[p]` is the structure in the memory of process p, field by field, except
that `keys` is the number of the seed and `ctr` counts blocks since the seeding.
`n`, `m` are the locals of `randp_bytes`, `log` what callers received.

| action | code |
|---|---|
| `Call`, `Return` | entry of `randp_bytes`, end of `while (n > 0)` |
| `Test` | the `while` and `if` conditions |
| `Reseed`, `ReseedFails` | `if (reseed_countdown == 0)` of `randp_regen`, `getentropy` and `err` |
| `Fill` | `RANDP_FILL` and the two assignments after it |
| `Copy`, `Wipe`, `Advance` | `memcpy`; `explicit_bzero`; the three updates |
| `Fork` | `fork` by the thread, between calls; `ForkImage` is `MADV_WIPEONFORK` |

A byte is named by seed, block and offset instead of its eight bits. Two
assumptions come with that: seeds drawn by `getentropy` are all different and
never zero, and the blocks of one seed tell a caller nothing of each other. Both are
what an AES-CTR generator is trusted for; what is checked is that the code never uses
one name twice.

A process here has one thread, which loses nothing: the others cannot reach its
structure (`OwnStructure` of `RandpThreads`) and are not forked with it.

### RandpThreads and the code

`this_`, `addr`, `tss` are per thread; `once` and `key` per process; `page[p][a]`
is the page at address a with its flags and the seed that is in it (0: it reads
as zeros). `pc` names the call a thread is about to make: `mmap`, `mlock`, the
two `madvise`, `call_once`, `tss_create`, `tss_set`, the draw, `munmap`. Every
one of these that the code checks can fail (`Fails`), which ends the process.
`mlock` can fail without consequence. The address of a new page is any that is
free, so also one that a stale pointer still names.

Kernel and C library are modelled from what the code relies on:
locks are not inherited by fork, `madvise` flags are; in the child a
`once_flag` whose initialisation another thread was running counts as not begun
(`InheritedOnce`); a TSS destructor runs with the value already cleared. An exit runs
destructors in rounds: `passes[t]` is the number of rounds in which the exit of t has come
past `randp_tss_key`. `BeginDestroy` is the next one, as long as there are rounds left
(`DtorRounds`, which is `TSS_DTOR_ITERATIONS`), and `Gone` ends the thread when it has no value
or the rounds are used up, so that a value set in the last one is lost. Without late calls
(`LateCalls`) there is one destructor to run and one round is enough. A late call comes after
`randp_destroy`, or from an exit that had no value; one that comes before it is a draw like
any other, in which the thread has its page.

`Draw` seeds a page of zeros or leaves the page alone: a request for no bytes does
not touch it.

### RandpLibrary and the code

`mem[p][a]` is the structure in the page at address a. It changes with the pages:
`Remapped` is what `mmap` and `munmap` make of the content, `ForkMemory` copies every
page of the parent, those of threads that do not exist in the child too, and zeroes
the ones that `MADV_WIPEONFORK` was applied to. `Manage` is the actions of `RandpThreads`;
`Regen`, `Copy`, `Advance`, `Return` are the loop (its tests read only what the thread
itself writes, so they are in the guards), for a thread whose `pc` is
`"draw"`. `randp_regen` is one step: its page is reached by no other thread, and a
fork during it leaves zeros or, if the flag were missing, the one content or the other.
`Abort` is `Fails`, at `"draw"` only where `getentropy` is called. Late TSS destructors are
left out (`RequestAssumption`): finding 2 shows what they do.

### AesBlocks and the code

Two calls run side by side on the counters `H[1]` and `H[2]`; `Round` and `NextKey` are the two
loops, `Return` the end with or without the xor of Davies-Meyer. `enc` and `dm` are
`RANDP_PRNG_USE_ENC` and `RANDP_PRNG_USE_DAVIES_MEYER`, which choose the fill in `RANDP_FILL`.
A vector is one half of 128 bits or two, a half two lanes. `aesenc` and `aesdec` without their
key are constants, of which `AesAssumption` says two things: they are permutations of a
half, and swapping the lanes before is swapping them after (SubBytes treats
each byte alike, ShiftRows and MixColumns each column, and the lanes are two columns each).
The comment on `rectify_key_*` rests on the second.

### AesCtrPrng and the code

The eight `*_fill` functions are one loop that differs in the width of the vector
and in the rounds; `FillBegin`, `FillBlock`, `FillEnd` are its load of the counter,
its round and the store after it. `W` is the number of values of a lane (2^64),
`Halves` 1 or 2; a lane of a key is the set of its one bits, so that xor is the
symmetric difference. The AES rounds are not computed: `used` is the counters that
were encrypted. `Reseed` is `getentropy` over keys and counter, then `rectify_key`.

### RandpMutex and the code

The actions are the statements of `randp_bytes_MUTEX` between `Lock` and `Unlock`,
over one structure for each process; `Regen` is `randp::regen` in one step, since
only the thread inside can see it. `Fork` copies the mutex as it is: if a thread
of the parent is inside, the mutex of the child is `Lost`, held by a thread that is
not there.

### Amalgamate and the code

`stack` is the calls of `visit`, each with the number of includes it has done; `seen`
and `order` are the variables of that name. `Include` and `Again` are one matching
line, with `find_file` and the test at the head of `visit`; `Finish` is the end of the
file. The files on the disk are any function from some of the paths to sequences of
includes, chosen in `Init`. Names are plain: a name with directories in it would be
one more path. `Place` is the loop of `find_file`. `Opened`, `Includes` and `Unit` say independently what
the header must hold: `Unit` is the smallest set that has the root and, with a file, what the
file includes; there is no traversal in it.

### NearlyDivisionless and the code

`W` is the number of values of the word, 2^32 or 2^64; the 32-bit and 64-bit
functions are the same text. `Low` and `High` are the cast and the shift,
`Threshold` is `(-s) % s` with the wrap. The actions are the statements.

## What TLC checks

| run | question | bounds | result |
|---|---|---|---|
| `pool` | no repetition, zeroizing, order, separation, the proved invariant; refinement of `RandomSource`; calls return | 3 processes (a child that forks), pool of 4 bytes in 2 blocks, 2 refills a seed, requests of 0 and 5 bytes, 3 seeds | passes |
| `threads_safety` | pages, seeds, the TSS key, the proved invariant | 3 threads, 2 processes, 2 addresses, 3 seeds; symmetric in the addresses and in the two threads that are not the first | passes |
| `threads_live` | calls return | the same with `mlock` failing and no seeds | passes |
| `threads_exit` | a page that was mapped is given back, or kept by a thread that stays, also with late destructors | 2 threads, 2 processes, 2 addresses, 2 rounds of destructors | passes |
| `threads_lock` | "unlocked only when mlock fails" | 2 threads, 2 processes | violated: finding 1 |
| `threads_late` | a structure of its own, with late destructors | 2 threads, 2 processes | violated: finding 2 |
| `library` | the library as a whole is a source of fresh bytes; no secret twice in memory, none without a thread; the proved invariant | 3 threads, 2 processes, 2 addresses, symmetric as there, pool of 2 bytes, 1 refill a seed, requests of 1, 2 seeds, `mlock` succeeding | passes |
| `blocks` | different counters, different blocks; mirrors; the schedule of the keys; the proved invariant | 2 halves, lanes of 1 bit, all pairs of counters, 2 keys of 5 kinds, 3 rounds each, both instructions, both forms | passes |
| `bounded` | below, uniform, ends; the proved invariant | words of 5 bits, all bounds and draws | passes |
| `ctr` | no counter twice, lanes apart, keys rectified, the proved invariant | 4 lanes of 3 bits, one round key of 2 bits a lane, 4 fills of 2 blocks a seed | passes |
| `mutex` | exclusion, refinement of `RandomSource`, the mutex is given back, the proved invariant | 3 threads, 2 processes, pool of 2 bytes, 2 refills a seed, 2 seeds, requests of 3 | passes |
| `amalgamate` | each file once, dependencies first, all or nothing; the proved invariant | all trees of up to 4 files in 2 directories, up to 2 includes each | passes |

Why the bounds are enough: requests of 5 from a pool of 4 begin and end at every
offset of a pool and a block, and go through one; two refills a seed and three seeds
let a process reseed in the middle of a request, after a fork as well.
`MaxSeeds` bounds the behaviours: after that `getentropy` can only fail.
`threads_live` has no seeds, so that a draw there asks for nothing or fails: nobody waits for a seed,
and that the loop itself ends is what `pool` checks.
Three threads are one that forks or creates the key, one that is caught in the
middle, and the child; with two addresses three threads of one process run
out of pages, and an address is used again as soon as it is free. Five bits give each
remainder of the word size and bounds on both sides of every power of two.

In `library` a thread can use up a seed and reseed, and with two seeds two threads, or a thread and its
child, hold secrets at a time, at any step of the third; a pool of two bytes leaves one in
the page between two calls. One refill a seed is enough, as the countdown is `pool`'s subject. The instructions of
`blocks` are the complement, and the complement with the lanes swapped: two permutations, neither
the identity, which meet `AesAssumption`.

Two rounds of destructors are one that is not the last and one that is; with late calls a page can
be mapped in either, and the value of a thread is found in the second after it was set in the first.
C says nothing of a value set in the last round, and neither does `PageReturned`
(`passes[t] < DtorRounds`).

Requests of 3 from a shared pool of 2 end in the middle of the pool and go through
it; the third thread is forked or started at any step of the other two. In `ctr`
eight blocks use each value of a lane, which is the most a seed may give
(`IntervalAssumption`; the defaults give 2^14 of 2^64). The paths of `amalgamate`
are two files of one name, of which includers see one or the other, the root,
which others may include again, and one more for diamonds and cycles.

`CHECK_DEADLOCK FALSE` is said where the system may stop: every process may have
exited or every thread have ended. The bounded integers never stop, and deadlock is checked.

Fairness. `RandpPool` and `RandpThreads` assume weak fairness of the steps inside
a call or an exit: a thread that can run is scheduled, and a system call returns
or fails. Nothing makes callers call, threads start, leave or fork.
`RandpMutex` assumes the same and no fairness of the mutex: pthreads promises none, so
what is checked is that the mutex is given back (`Released`), not that each thread
gets it. `Amalgamate` assumes that the interpreter goes on.
`NearlyDivisionless` assumes strong fairness of a draw that is accepted: if the
loop ran for ever, an accepted value would never be drawn, which has probability
zero for independent draws. That there is an accepted value is what is checked.

## Findings

1. `src/allocate.h:42`. README.md says that the structure is `mlock`ed and used
   unlocked when `mlock` fails. The child of a fork uses the page it inherited,
   whose lock fork does not inherit, and nothing locks it again
   (`LockedUnlessRefused`, run `threads_lock`).
2. `src/randp.c:131`. `randp_destroy` unmaps the structure but cannot reach the
   thread-local pointer, so a call of `randp_bytes` in a TSS destructor that runs later
   uses an unmapped page, or the page another thread got at that address
   (`OwnStructure` with `LateCalls`, run `threads_late`). Without such calls it
   holds (run `threads_safety`).
   The same calls have a second consequence in the model: if a thread's first call comes
   in the last round of destructors, `tss_set` sets a value that nothing destroys, and the page stays
   mapped with its seed when the thread is gone. `PageReturned` leaves out this case and no other.

## What is proved

All theorems hold for every value of the constants under the assumptions that the
modules state (`SizesAssumption`: the pool is a positive number of whole blocks and
the interval is positive, as the static_asserts of `randp.c` say; `CallersAssumption`;
`WAssumption`, and for the counter `WyprimeAssumption`, that each increment has an inverse modulo `W`, as odd numbers do
modulo a power of two, and that they differ; `KeyMaskAssumption`, that the words of the mask differ;
`IntervalAssumption`, that a seed gives no more blocks than a lane has values). TLC evaluates them on each instance.

`RandpPoolProofs`: `NoRepeat`, `KeystreamOrder`, `Zeroized`, `Unshared` and the refinement
`SourceSpec` all follow from one inductive invariant `IInv`, which the run
`pool` also checks. `NoRepeat` is not inductive by itself: that the next
bytes are fresh is known only from

- `ControlInv`: what each label of the loop implies of n, m and the counters;
- `KeysInv`: keys are held by one process only, and a structure without keys is
  empty with its countdown at zero;
- `LogInv`: what was delivered under the keys a process holds was
  delivered by it, from blocks before its counter;
- `PoolInv`: the pool is a zeroed prefix and then the last blocks of the
  keystream in place, none of it delivered from `ReadTo` on;
- `OrderInv`: the counter is what the countdown says it is, and the last byte delivered
  is the one before the first byte of the pool that is still to be read.

So a refill makes blocks above everything delivered, a reseed a seed above
everything delivered, a copy takes from the undelivered part, and a fork leaves
zeros. `KeystreamOrder` needs `OrderInv`, since two bytes in a row may come from two refills
or from two seeds: a refill must begin where the last one ended, and a reseed may only come
when the seed is used up. It may not come later either: `CounterBound`, from `OrderInv`, and
`CopyWithinSeed` show that no byte is copied from beyond `ReseedInterval` pools. One lemma for each part shows that it is preserved, one step for each action.

`RandpLibraryProofs`, part 1: `OwnStructure`, `SecretsProtected`, `SeedUnshared` and `SecretsOwned` follow
from the invariant `IInv` of `RandpThreads`, which `threads_safety` also checks:

- `LabelInv`: what each label of a call implies of the thread's pointer, of the address it
  has in hand and of its value under the key;
- `BornInv`, `OnceInv`: one thread at a time is in the initialiser of the key, and
  no thread has a value before the key exists;
- `PageInv`: a page that a thread has (`Has`: in hand, under the key, or about to be
  registered) is mapped, is had by no other thread of the process, and is protected
  as far as the calls made so far go;
- `SeedInv`: seeds in pages have been drawn.

`OwnStructure` speaks of `this_` only, which says nothing when the thread has left; what is
inductive is that responsibility for a page passes from `addr` through `this_` to the TSS value
and, in the destructor, back to `addr`, with no moment at which two threads or none have it.
A fork copies pages whose threads do not exist in the child: their seeds are gone only because
`SecretsOwned` and `PageInv` together say that a page with a seed has been through both
`madvise` calls. The theorems assume `~LateCalls`, which the documents do not promise: with calls
from destructors that run after `randp_destroy` the statements are false (finding 2). `TypeOK` and
`KeyKept` are proved without it.

`RandpLibraryProofs`, part 2: no part of the two models is taken for granted. `LibraryInv`, which `library` checks, is the
invariant of `RandpThreads` and, over the structures in the pages,

- `LoopInv`: the locals of `randp_bytes` where a thread is in the loop, and that none is, where it is not;
- `ContentInv`: the keys of a structure are the seed of its page, a page without a seed is all
  zeros, and a pool is a zeroed prefix and then the keystream in place (`Shaped`);
- `DeliveredInv`: what was delivered under the keys in a page went to the thread that owns the page;
- `UndeliveredInv`, `NoRepeat`: as in the pool, now across all pages of all processes.

The steps are of two kinds. Those of `RandpThreads` leave the threads' logs alone and the structures
where they are, but for pages that become zeros (`Calm` steps): for them the work is that ownership of
a page with a seed does not change hands. Those of the loop leave ownership alone, and the
proof is that of the pool with a page in place of a process. `Regen` is also a step `Draw` of
`RandpThreads`, so that its invariant carries over. From `LibraryInv` follow `MemoryApart` and
`MemoryOwned`, and that each step is one of `RandomSource` or a stutter (`SourceSpec`):
`Copy` is the only one that delivers, and a structure in a page is as good as a structure of one's own.

`RandpMutexProofs`: `Exclusive` carries everything else. It holds because the mutex is free
when it is taken, only the holder gives it back, a failure stops the whole process, and the one
thread of a forked process is outside (`BornInv`: no thread was of that process before). The
invariant `MutexInv`, which `mutex` checks, then says for one structure a process what
`LibraryInv` says for one a page: `LoopInv`, what a label implies of the structure that the
thread tested; `ContentInv`, that structures with keys have different ones; `DeliveredInv`;
`UndeliveredInv`, where what a thread has copied but not wiped is left out (`Left`); and `NoRepeat`.
A step of the thread inside leaves the facts of all others alone, since none of them is inside. Steps
that change no structure, or only make one of zeros, are one lemma (`CalmStep`); the rest are
`Regen`, `Copy` and `Advance`. With `Exclusive` the theorems show `SourceSpec`, without any
fairness.

`AesCtrPrngProofs`: the invariant `Inv` says that block k of a seed encrypts
`start + k * inc` in each lane, across fills, that the structure (or the local
during a fill) holds the next term, and that keys in use are rectified. Without the
middle part a fill could start anywhere. `CountersDistinct` follows since two
equal terms make `W` divide `(j - k) * inc`, which times the inverse of `inc` gives `j = k`, there
being at most `W` blocks. `LanesApart` needs that increments differ, `NoMirror` that rectified
keys have no symmetric half.

`AesBlocksProofs`: `Distinct` and `Mirrored` are statements about two calls, so the
invariant (`LockstepInv`) relates the two after each round: equal halves stay equal,
different ones different, and mirrored ones mirrored where the key is symmetric. One round
preserves each because the instruction is a permutation that commutes with the swap, and
xor with a key is one as well. `CountInv` carries the position in the two loops for `Schedule`.
`AesAssumption` is all that is assumed of AES, and `RoundsAssumption` only that there is a key and a round.

`NearlyDivisionlessProofs`: the invariant `Inv`, which `bounded` checks, says that `product` is a draw
times the bound, `threshold` is `W % s`, and that past the loop the draw is an accepted one.
`ResultBelow` follows by lemmas on `\div` and `%`. `ResultUnbiased`
counts: the accepted draws that give r are an interval of W \div s numbers
(`DrawsAreAnInterval`), whatever r and s are.

`AmalgamateProofs`: `ExactlyOnce`, `DependencyFirst` and `AllOrNothing`, for every tree of files, every
root and every list of search paths. The invariant `Inv`, which `amalgamate` checks, is that of a depth-first search:

- `StackInv`: the files on the stack are all different, the first is the root, and each is in
  the unit of every file below it;
- `SeenInv`: what was seen is on the stack or in the order, not both, and is in the unit of the root;
- `FollowedInv`: a file in the order has had all its includes found and seen, and a file on
  the stack the includes up to its line;
- `EndInv`: what is known when the last `visit` has returned, or one has failed;
- `DependencyFirst` itself, which is about the past and must be kept.

The theorem on the order is in the step `Finish`: the includes of the file that is left were all
seen, so each is in the order already, or on the stack, and then `StackInv` says that it leads back to
the file, which makes a cycle. When the stack is empty what was seen is the order and is closed,
so it contains the smallest closed set, `Unit`, and `SeenInv` is the other half. That the files on
the stack are different also bounds the recursion by the number of files. The lemma `FindFile`
shows that the loop over `[path.parent, *search_paths]` finds the file that the
preprocessor opens; it needs that a set of numbers has a smallest (`Smallest`), which comes from
the well-foundedness of `<`. `PathsAssumption` asks only for finitely many paths, the root
among them, and that search paths and files are sequences.

Every invariant and action property that a passing run checks is also a theorem, and so is each
refinement. Only model-checked is liveness (`CallReturns`, `PageReturned`, `Released`, `Answers`), which
is out of the prover's reach, as it needs ENABLED. `AllOrNothing` is what can be
said of `Answers` without it.

## Not modelled, and what comes next

`SecretsOwned` and `MemoryOwned` say that the pages which a fork leaves without a thread
hold nothing but zeros. That these empty pages stay mapped in the child, one for each thread
of the parent that had called, is in the model, and no property objects to it. `Released` leaves
out the child of a fork made while the mutex of the benchmarks was held: `RandpMutex` has it,
its mutex is `Lost` and its calls wait for ever, and no document promises otherwise.
`Amalgamate` takes it that a file that is found can be read and is UTF-8: other errors end
the script with a traceback.

Byte order, alignment and page layout; what the AES instructions compute, beyond the two
properties `AesBlocks` uses; signal handlers that call the library while it runs, on which the
documents are silent; make rules, test and benchmark programs. `parse_int` and
`get_num_threads` of the benchmarks are pure functions from a string to a number of
threads, with no state and no second actor.

What is left: the termination of calls, exits and loops, from the fairness stated above, which
stays with TLC, and the parts listed here.
