------------------------------ MODULE AesBlocks -----------------------------
(***************************************************************************)
(* aes_enc, aes_dec and their Davies-Meyer forms (aes-128-utils.h,         *)
(* aes-256-utils.h), and the choice among them in randp.c (RANDP_FILL).    *)
(*                                                                         *)
(* Two counters are encrypted side by side under the same keys: what the   *)
(* generator needs of its cipher is said of two blocks.  The instructions  *)
(* aesenc and aesdec are any functions that have the two properties of     *)
(* AesAssumption; 128 bits are one half, 256 bits are two.                 *)
(***************************************************************************)
EXTENDS Naturals, Sequences

CONSTANTS
    Bit,            \* the bits of a lane
    Half,           \* the 128-bit halves of a vector
    Aesenc, Aesdec, \* what the instructions make of a half, but for the key
    NumKeys,        \* Nk
    NumRounds,      \* Nr, rounds for each key
    EntropyKey      \* bound: the key vectors that are tried

\* A lane is the set of its one bits; a half is two lanes.
Pair == [{0, 1} -> SUBSET Bit]
Block == [Half -> Pair]

Swapped(p) == [l \in {0, 1} |-> p[1 - l]]

\* Without the key, a round is a permutation that treats the two lanes alike:
\* no step of it knows where the columns of the state begin.
Symmetrical(f) ==
    /\ f \in [Pair -> Pair]
    /\ \A p, q \in Pair : f[p] = f[q] => p = q
    /\ \A p \in Pair : f[Swapped(p)] = Swapped(f[p])

ASSUME AesAssumption == Symmetrical(Aesenc) /\ Symmetrical(Aesdec)

\* static_assert: "must do at least 3 rounds of AES enc/dec".
ASSUME RoundsAssumption ==
    /\ NumKeys \in Nat \ {0} /\ NumRounds \in Nat \ {0}
    /\ NumKeys * NumRounds >= 3
    /\ EntropyKey \subseteq Block

VARIABLES
    pc,         \* "round" or "done"
    enc, dm,    \* RANDP_PRNG_USE_ENC, RANDP_PRNG_USE_DAVIES_MEYER
    keys,       \* keys[k] : the round keys
    H,          \* H[c] : the counter that call c is given
    a,          \* a[c] : what call c has made of it
    k, r,       \* the loop variables
    applied     \* the keys of the rounds so far

vars == <<pc, enc, dm, keys, H, a, k, r, applied>>

-----------------------------------------------------------------------------
Calls == {1, 2}
Key == 0 .. NumKeys - 1

Xor(u, v) == (u \ v) \cup (v \ u)
XorPair(p, q) == [l \in {0, 1} |-> Xor(p[l], q[l])]

\* Definitions named Slip... are plausible mistakes in the definition that
\* follows them; no specification uses them.

\* The key is loaded into the low lane only.
SlipLowLane(b, key) ==
    LET instruction == IF enc THEN Aesenc ELSE Aesdec
    IN  [h \in Half |-> [instruction[b[h]] EXCEPT ![0] = Xor(@, key[h][0])]]

\* One half is broadcast to all.
SlipBroadcast(b, key) ==
    LET instruction == IF enc THEN Aesenc ELSE Aesdec
    IN  [h \in Half |-> XorPair(instruction[b[CHOOSE g \in Half : TRUE]], key[h])]

\* One instruction, on each half by itself.
Rounded(b, key) ==
    LET instruction == IF enc THEN Aesenc ELSE Aesdec
    IN  [h \in Half |-> XorPair(instruction[b[h]], key[h])]

Init ==
    /\ pc = "round"
    /\ enc \in BOOLEAN /\ dm \in BOOLEAN
    /\ keys \in [Key -> EntropyKey]
    /\ H \in [Calls -> Block]
    /\ a = H
    /\ k = 0 /\ r = 0
    /\ applied = <<>>

\* One round of the inner loop, with keys[k].
Round ==
    /\ pc = "round"
    /\ k < NumKeys /\ r < NumRounds
    /\ a' = [c \in Calls |-> Rounded(a[c], keys[k])]
    /\ r' = r + 1
    /\ applied' = Append(applied, k)
    /\ UNCHANGED <<pc, enc, dm, keys, H, k>>

\* The inner loop is left a round early.
SlipNextKey ==
    /\ pc = "round"
    /\ k < NumKeys /\ r + 1 >= NumRounds
    /\ k' = k + 1
    /\ r' = 0
    /\ UNCHANGED <<pc, enc, dm, keys, H, a, applied>>

\* The inner loop is over, the outer one goes on.
NextKey ==
    /\ pc = "round"
    /\ k < NumKeys /\ r = NumRounds
    /\ k' = k + 1
    /\ r' = 0
    /\ UNCHANGED <<pc, enc, dm, keys, H, a, applied>>

\* The Davies-Meyer form is returned in any case.
SlipReturn ==
    /\ pc = "round"
    /\ k = NumKeys
    /\ a' = [c \in Calls |-> [h \in Half |-> XorPair(a[c][h], H[c][h])]]
    /\ pc' = "done"
    /\ UNCHANGED <<enc, dm, keys, H, k, r, applied>>

\* Both loops are over: what was made of H is returned, or, in the Davies-Meyer
\* form, xored with H.
Return ==
    /\ pc = "round"
    /\ k = NumKeys
    /\ a' = IF dm THEN [c \in Calls |-> [h \in Half |-> XorPair(a[c][h], H[c][h])]]
            ELSE a
    /\ pc' = "done"
    /\ UNCHANGED <<enc, dm, keys, H, k, r, applied>>

Next == Round \/ NextKey \/ Return

Spec == Init /\ [][Next]_vars

-----------------------------------------------------------------------------
(* Properties.                                                             *)

\* As the library is built, without Davies-Meyer, different counters never give
\* the same output under the same keys, in no half: the cipher is a permutation,
\* whatever the keys and whichever of the two instructions is used.
Distinct ==
    pc = "done" /\ ~dm => \A h \in Half : H[1][h] # H[2][h] => a[1][h] # a[2][h]

SymmetricKeys(h) == \A j \in Key : keys[j][h] = Swapped(keys[j][h])

\* "With a key half of (K, K), if the counter half (A, B) gives the output (X, Y),
\* then the counter half (B, A) gives the output (Y, X)" (aes-256-utils.h:37-39):
\* what rectify_key is there to prevent.  It is so for every mode.
Mirrored ==
    pc = "done" => \A h \in Half :
        SymmetricKeys(h) /\ H[2][h] = Swapped(H[1][h]) => a[2][h] = Swapped(a[1][h])

\* The rounds are those of the keys in order, NumRounds for each.
Schedule ==
    /\ \A i \in 1 .. Len(applied) : /\ NumRounds * applied[i] < i
                                    /\ i <= NumRounds * (applied[i] + 1)
    /\ pc = "done" => Len(applied) = NumKeys * NumRounds

-----------------------------------------------------------------------------
(* The inductive invariant.                                                *)

TypeOK ==
    /\ pc \in {"round", "done"}
    /\ enc \in BOOLEAN /\ dm \in BOOLEAN
    /\ keys \in [Key -> Block]
    /\ H \in [Calls -> Block] /\ a \in [Calls -> Block]
    /\ k \in 0 .. NumKeys /\ r \in 0 .. NumRounds
    /\ applied \in Seq(Key)

\* What is known of the two calls after each round.  That equal halves stay equal
\* says that a half of the output depends on no other half: rectify_key_256 may
\* look at each half by itself.
LockstepInv ==
    \A h \in Half :
        /\ H[1][h] = H[2][h] => a[1][h] = a[2][h]
        /\ ~(pc = "done" /\ dm) /\ a[1][h] = a[2][h] => H[1][h] = H[2][h]
        /\ SymmetricKeys(h) /\ H[2][h] = Swapped(H[1][h]) => a[2][h] = Swapped(a[1][h])

CountInv ==
    /\ Len(applied) = NumRounds * k + r
    /\ k = NumKeys => r = 0
    /\ pc = "done" => k = NumKeys
    /\ \A i \in 1 .. Len(applied) : /\ NumRounds * applied[i] < i
                                    /\ i <= NumRounds * (applied[i] + 1)

\* TLC checks it here, AesBlocksProofs proves it.
Inv == TypeOK /\ LockstepInv /\ CountInv
=============================================================================
