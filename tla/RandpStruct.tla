----------------------------- MODULE RandpStruct ----------------------------
(***************************************************************************)
(* struct randp of src/src/randp.c, and what randp_regen and the loop of   *)
(* randp_bytes do to it.  The structure is used by RandpPool, one for each *)
(* thread, and by RandpMutex, one for all threads of a process.            *)
(*                                                                         *)
(* A byte is named by where the keystream produced it: the seed of the     *)
(* keys, the counter of the block (counted from the seeding, so the value  *)
(* of the counter is base + ctr * WYPRIME) and the offset in the block.    *)
(* AesCtrPrng shows that this count tells a seed's counters apart, and     *)
(* AesBlocks that different counters are different blocks.  That a block   *)
(* tells nothing of another is what the cipher is trusted for; that no     *)
(* name is handed out twice is what is checked here.                       *)
(***************************************************************************)
EXTENDS Naturals, Sequences

CONSTANTS
    PoolSize,       \* RANDP_POOL_SIZE_BYTES
    BlockSize,      \* sizeof(RANDP_BLOCK_TYPE)
    ReseedInterval  \* RANDP_RESEED_INTERVAL

\* The static_asserts of randp.c, and the fact they serve that a pool is made
\* of whole blocks.
ASSUME SizesAssumption ==
    /\ PoolSize \in Nat \ {0}
    /\ BlockSize \in Nat \ {0}
    /\ PoolSize % BlockSize = 0
    /\ ReseedInterval \in Nat \ {0}

Index == 0 .. PoolSize - 1
NumBlocks == PoolSize \div BlockSize

\* Byte off of the block that counter ctr gives under the keys of a seed.
Byte == [seed : Nat, ctr : Nat, off : Nat]
Out(seed, ctr, off) == [seed |-> seed, ctr |-> ctr, off |-> off]

\* What mmap, WIPEONFORK and explicit_bzero leave behind.  Seed 0 is the
\* all-zero key, which no call of getentropy ever draws.
Zero == [seed |-> 0, ctr |-> 0, off |-> 0]

Struct == [keys : Nat, ctr : Nat, pool : [Index -> Byte],
           reseed_countdown : 0 .. ReseedInterval,
           rand_bytes_remaining : 0 .. PoolSize]

ZeroPage == [keys |-> 0, ctr |-> 0, pool |-> [i \in Index |-> Zero],
             reseed_countdown |-> 0, rand_bytes_remaining |-> 0]

\* Definitions named Slip... are plausible mistakes in the definition that
\* follows them.  No specification uses them: they are what the properties of
\* the pools are tried against.

\* The page is inherited, as ordinary private memory is.
SlipInheritedPage(s) == s

\* MADV_WIPEONFORK: the child reads zeros where the parent's page was.
ForkImage(s) == ZeroPage

\* The countdown is left where it was.
SlipCountdownNotReset(s, seed) == [s EXCEPT !.keys = seed, !.ctr = 0]

\* The refill that follows the reseed is not counted as one of the interval.
SlipCountdownShort(s, seed) ==
    [s EXCEPT !.keys = seed, !.ctr = 0, !.reseed_countdown = ReseedInterval - 1]

\* randp_regen, first half: new keys and counter, whole countdown.
Reseeded(s, seed) ==
    [keys |-> seed, ctr |-> 0, pool |-> s.pool,
     reseed_countdown |-> ReseedInterval,
     rand_bytes_remaining |-> s.rand_bytes_remaining]

\* The fill keeps the counter in a local and does not store it back.
SlipCounterNotStored(s) ==
    [s EXCEPT
        !.pool = [i \in Index |-> Out(s.keys, s.ctr + (i \div BlockSize), i % BlockSize)],
        !.rand_bytes_remaining = PoolSize,
        !.reseed_countdown = s.reseed_countdown - 1]

\* The refills are not counted, and the first seed is never replaced.
SlipRefillNotCounted(s) ==
    [s EXCEPT
        !.ctr = s.ctr + NumBlocks,
        !.pool = [i \in Index |-> Out(s.keys, s.ctr + (i \div BlockSize), i % BlockSize)],
        !.rand_bytes_remaining = PoolSize]

\* randp_regen, second half: NumBlocks blocks of keystream fill the pool and
\* the counter moves past them.
Filled(s) ==
    [keys |-> s.keys, ctr |-> s.ctr + NumBlocks,
     pool |-> [i \in Index |-> Out(s.keys, s.ctr + (i \div BlockSize), i % BlockSize)],
     reseed_countdown |-> s.reseed_countdown - 1,
     rand_bytes_remaining |-> PoolSize]

\* Byte i of the pool that the last refill made: it lies in the last NumBlocks
\* blocks before the counter.
KeyByte(s, i) == Out(s.keys, s.ctr - NumBlocks + (i \div BlockSize), i % BlockSize)

\* The last byte of the pool is never taken.
SlipChunkShort(s, k) ==
    IF k < s.rand_bytes_remaining THEN k ELSE s.rand_bytes_remaining - 1

\* src and m of the loop body.
Src(s) == PoolSize - s.rand_bytes_remaining
Chunk(s, k) == IF k < s.rand_bytes_remaining THEN k ELSE s.rand_bytes_remaining

\* One byte too few is zeroed.
SlipWipedShort(s, k) ==
    [s EXCEPT !.pool = [i \in Index |->
        IF Src(s) <= i /\ i < Src(s) + k - 1 THEN Zero ELSE s.pool[i]]]

\* memcpy(dst, src, m), explicit_bzero(src, m), and rand_bytes_remaining -= m.
Copied(s, k) == [j \in 1 .. k |-> s.pool[Src(s) + j - 1]]
Wiped(s, k) ==
    [s EXCEPT !.pool = [i \in Index |->
        IF Src(s) <= i /\ i < Src(s) + k THEN Zero ELSE s.pool[i]]]
Advanced(s, k) == [s EXCEPT !.rand_bytes_remaining = s.rand_bytes_remaining - k]

\* What the loop keeps a structure like: its pool is a zeroed prefix, and then
\* the rest of a refill.
Shaped(s) ==
    /\ s.rand_bytes_remaining > 0 => NumBlocks <= s.ctr
    /\ \A i \in Index : s.pool[i] = IF i < Src(s) THEN Zero ELSE KeyByte(s, i)
=============================================================================
