----------------------------- MODULE AesCtrPrng -----------------------------
(***************************************************************************)
(* The AES-CTR PRNG of src/src/aes_ctr_128_prng.h and aes_ctr_256_prng.h,  *)
(* with rectify_key and the increments of aes-*-utils.h, as randp_regen    *)
(* uses it: reseed, then ReseedInterval fills of NumBlocks blocks.         *)
(*                                                                         *)
(* A vector has 2 or 4 lanes of 64 bits; two lanes make a half, which one  *)
(* AES instruction encrypts by itself.  Lanes of the counter are added to, *)
(* so they are numbers modulo W = 2^64; lanes of the keys only meet xor,   *)
(* so they are the sets of their one bits.                                 *)
(*                                                                         *)
(* The rounds themselves (enc, dec, with or without Davies-Meyer) are not  *)
(* computed: what they are given is recorded, in the order of dst.  Under  *)
(* one set of keys the block is a function of the counter, and without     *)
(* Davies-Meyer a bijection.                                               *)
(***************************************************************************)
EXTENDS Naturals, Sequences

CONSTANTS
    W,              \* the number of values of a lane
    Halves,         \* 128-bit halves of a vector: 1 or 2
    Bit,            \* the bits of a lane of a key
    Wyprime,        \* Wyprime[l] : the increment of lane l
    KeyMask,        \* KeyMask[l] : the one bits of lane l of key_mask
    NumKeys,        \* AES_CTR_*_PRNG_NUM_KEYS
    NumBlocks,      \* the n of a fill
    ReseedInterval, \* fills between reseeds
    EntropyCtr      \* bound: the counter lanes getentropy may draw

Lane == 0 .. 2 * Halves - 1

\* The other lane of the same half: _MM_SHUFFLE(1, 0, 3, 2).
Other(l) == IF l % 2 = 0 THEN l + 1 ELSE l - 1

ASSUME SizesAssumption ==
    /\ W \in Nat \ {0} /\ Halves \in Nat \ {0} /\ NumKeys \in Nat \ {0}
    /\ NumBlocks \in Nat \ {0} /\ ReseedInterval \in Nat \ {0}
    /\ EntropyCtr \subseteq 0 .. W - 1

\* wyprimes.h asserts that the increments are odd: they have inverses modulo a
\* power of two.  They are four different primes.
ASSUME WyprimeAssumption ==
    /\ Wyprime \in [Lane -> 1 .. W - 1]
    /\ \A l \in Lane : \E v \in 0 .. W - 1 : (Wyprime[l] * v) % W = 1 % W
    /\ \A l, k \in Lane : Wyprime[l] = Wyprime[k] => l = k

\* The words of key_mask are different.
ASSUME KeyMaskAssumption ==
    /\ KeyMask \in [Lane -> SUBSET Bit]
    /\ \A l, k \in Lane : KeyMask[l] = KeyMask[k] => l = k

\* Far fewer blocks are made of a seed than a lane has values: with the
\* defaults of randp-defaults.h, 2^14 (2^13 of 256 bits).
ASSUME IntervalAssumption == NumBlocks * ReseedInterval <= W

VARIABLES
    pc,         \* "reseed", "ready" for a fill, in a "fill", or "exited"
    keys,       \* keys[k] : the round keys
    ctr,        \* the counter in the structure
    local,      \* the local ctr of a fill
    i,          \* the local i of a fill
    fills,      \* fills since the last reseed
    start,      \* the counter getentropy drew
    used        \* the counters encrypted since then, in order

vars == <<pc, keys, ctr, local, i, fills, start, used>>

-----------------------------------------------------------------------------
KeyVector == [Lane -> SUBSET Bit]
Counter == [Lane -> 0 .. W - 1]

Xor(a, b) == (a \ b) \cup (b \ a)

\* Definitions named Slip... are plausible mistakes in the definition that
\* follows them; no specification uses them.

\* Lanes are compared across the halves, as a permutation of the whole vector would.
SlipAcrossHalves(key) ==
    [l \in Lane |-> IF key[l] = key[(l + 2) % (2 * Halves)]
                    THEN Xor(key[l], KeyMask[l]) ELSE key[l]]

\* rectify_key: where the two lanes of a half are equal, xor the mask in.
Rectified(key) ==
    [l \in Lane |-> IF key[l] = key[Other(l)] THEN Xor(key[l], KeyMask[l]) ELSE key[l]]

\* One increment is broadcast to all lanes.
SlipBroadcast(c) == [l \in Lane |-> (c[l] + Wyprime[0]) % W]

\* The increment has only its low word.
SlipLowLane(c) == [c EXCEPT ![0] = (c[0] + Wyprime[0]) % W]

\* _mm_add_epi64(ctr, inc)
Added(c) == [l \in Lane |-> (c[l] + Wyprime[l]) % W]

Init ==
    /\ pc = "reseed"
    /\ keys = [k \in 1 .. NumKeys |-> [l \in Lane |-> {}]]
    /\ ctr = [l \in Lane |-> 0]
    /\ local = ctr
    /\ i = 0
    /\ fills = 0
    /\ start = ctr
    /\ used = <<>>

\* getentropy draws keys and counter; each key is rectified.
Reseed ==
    /\ pc = "reseed"
    /\ \E ks \in [1 .. NumKeys -> KeyVector], c \in [Lane -> EntropyCtr] :
        /\ keys' = [k \in 1 .. NumKeys |-> Rectified(ks[k])]
        /\ ctr' = c
        /\ start' = c
    /\ fills' = 0
    /\ used' = <<>>
    /\ pc' = "ready"
    /\ UNCHANGED <<local, i>>

\* getentropy fails: err ends the process.
ReseedFails ==
    /\ pc = "reseed"
    /\ pc' = "exited"
    /\ UNCHANGED <<keys, ctr, local, i, fills, start, used>>

\* A fill begins: the counter is loaded into a local.
FillBegin ==
    /\ pc = "ready"
    /\ local' = ctr
    /\ i' = 0
    /\ pc' = "fill"
    /\ UNCHANGED <<keys, ctr, fills, start, used>>

\* One block more than dst has room for.
SlipFillBlock ==
    /\ pc = "fill"
    /\ i <= NumBlocks
    /\ used' = Append(used, local)
    /\ local' = Added(local)
    /\ i' = i + 1
    /\ UNCHANGED <<pc, keys, ctr, fills, start>>

\* One round of its loop: dst[i] is the local counter encrypted.
FillBlock ==
    /\ pc = "fill"
    /\ i < NumBlocks
    /\ used' = Append(used, local)
    /\ local' = Added(local)
    /\ i' = i + 1
    /\ UNCHANGED <<pc, keys, ctr, fills, start>>

\* The local counter is not stored.
SlipFillEnd ==
    /\ pc = "fill"
    /\ i = NumBlocks
    /\ fills' = fills + 1
    /\ pc' = IF fills + 1 = ReseedInterval THEN "reseed" ELSE "ready"
    /\ UNCHANGED <<keys, ctr, local, i, start, used>>

\* The loop is over and the local counter is stored.
FillEnd ==
    /\ pc = "fill"
    /\ i = NumBlocks
    /\ ctr' = local
    /\ fills' = fills + 1
    /\ pc' = IF fills + 1 = ReseedInterval THEN "reseed" ELSE "ready"
    /\ UNCHANGED <<keys, local, i, start, used>>

Next == Reseed \/ ReseedFails \/ FillBegin \/ FillBlock \/ FillEnd

Spec == Init /\ [][Next]_vars

-----------------------------------------------------------------------------
(* Properties.                                                             *)

\* Type invariant; a seed gives no more blocks than a lane has values.
TypeOK ==
    /\ pc \in {"reseed", "ready", "fill", "exited"}
    /\ keys \in [1 .. NumKeys -> KeyVector]
    /\ ctr \in Counter /\ local \in Counter /\ start \in Counter
    /\ i \in 0 .. NumBlocks
    /\ fills \in 0 .. ReseedInterval
    /\ used \in Seq(Counter)
    /\ Len(used) <= W

\* "Must be odd": no lane of the counter has the same value in two blocks of a
\* seed, whatever value it starts from, so no block is encrypted twice.
CountersDistinct ==
    \A j, k \in DOMAIN used : \A l \in Lane : used[j][l] = used[k][l] => j = k

\* "Must be unique across lanes": no two lanes of the counter stay equal from
\* one block to the next.
LanesApart ==
    \A k \in 1 .. Len(used) - 1 : \A l, h \in Lane :
        used[k][l] = used[k][h] /\ used[k + 1][l] = used[k + 1][h] => l = h

Symmetric(l) == \A k \in 1 .. NumKeys : keys[k][l] = keys[k][Other(l)]

\* "With a key of (K, K), if the counter (A, B) gives the output (X, Y), then
\* the counter (B, A) gives the output (Y, X)" (aes-128-utils.h:38-40): no half
\* block of a seed is another, or itself, with its lanes swapped for that reason.
NoMirror ==
    \A j, k \in DOMAIN used : \A l \in Lane :
        used[j][l] = used[k][Other(l)] /\ used[k][l] = used[j][Other(l)] => ~Symmetric(l)
-----------------------------------------------------------------------------
(* The inductive invariant.                                                *)

\* Lane l of counter number k (from 0) of the Weyl sequence.
Term(l, k) == (start[l] + k * Wyprime[l]) % W

\* The counter forms a Weyl sequence (aes_ctr_128_prng.h:89): block number k of
\* a seed encrypts start + k * inc, across fills.  This is what entitles
\* RandpPool to name a block by its number.
Weyl == \A k \in DOMAIN used : \A l \in Lane : used[k][l] = Term(l, k - 1)

\* The structure, or the local during a fill, holds the next term.
ControlInv ==
    /\ pc \in {"ready", "fill"} => fills < ReseedInterval
    /\ pc = "ready" => /\ Len(used) = fills * NumBlocks
                       /\ \A l \in Lane : ctr[l] = Term(l, Len(used))
    /\ pc = "fill" => /\ Len(used) = fills * NumBlocks + i
                      /\ \A l \in Lane : local[l] = Term(l, Len(used))

\* No block is made under keys that are not rectified.
KeysInv ==
    pc \in {"ready", "fill"} \/ used # <<>> =>
        \A k \in 1 .. NumKeys : \A l \in Lane : keys[k][l] # keys[k][Other(l)]

\* TLC checks it here, AesCtrPrngProofs proves it.
Inv == TypeOK /\ Weyl /\ ControlInv /\ KeysInv
=============================================================================
