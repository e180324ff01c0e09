--------------------------- MODULE AesBlocksProofs --------------------------
(***************************************************************************)
(* Proofs about AesBlocks, for lanes, vectors, keys and rounds in any      *)
(* number, and any two instructions that satisfy AesAssumption.            *)
(*                                                                         *)
(* A round relates the two calls in the way it found them related, since   *)
(* the key is the same for both and xor with it can be undone.             *)
(***************************************************************************)
EXTENDS AesBlocks, Integers, TLAPS

-----------------------------------------------------------------------------
(* Lanes and halves.                                                       *)

\* Xor with the same key can be undone.
LEMMA XorInjective ==
    ASSUME NEW u, NEW v, NEW w, Xor(u, w) = Xor(v, w)
    PROVE  u = v
<1>1. \A x : x \in u <=> x \in v
  <2>. SUFFICES ASSUME NEW x PROVE x \in u <=> x \in v
    OBVIOUS
  <2>1. x \in Xor(u, w) <=> x \in Xor(v, w)
    OBVIOUS
  <2>. QED BY <2>1 DEF Xor
<1>. QED BY <1>1

\* A half is its two lanes.
LEMMA PairEqual ==
    ASSUME NEW p \in Pair, NEW q \in Pair, p[0] = q[0], p[1] = q[1]
    PROVE  p = q
BY DEF Pair

LEMMA SwappedType ==
    ASSUME NEW p \in Pair
    PROVE  Swapped(p) \in Pair /\ Swapped(p)[0] = p[1] /\ Swapped(p)[1] = p[0]
BY DEF Pair, Swapped

LEMMA XorPairType ==
    ASSUME NEW p \in Pair, NEW q \in Pair
    PROVE  /\ XorPair(p, q) \in Pair
           /\ \A l \in {0, 1} : XorPair(p, q)[l] = Xor(p[l], q[l])
BY DEF Pair, XorPair, Xor

LEMMA XorPairInjective ==
    ASSUME NEW p \in Pair, NEW q \in Pair, NEW key \in Pair,
           XorPair(p, key) = XorPair(q, key)
    PROVE  p = q
<1>1. Xor(p[0], key[0]) = Xor(q[0], key[0]) /\ Xor(p[1], key[1]) = Xor(q[1], key[1])
    BY XorPairType
<1>2. p[0] = q[0] /\ p[1] = q[1]
    BY <1>1, XorInjective
<1>. QED BY <1>2, PairEqual

\* The lanes can be swapped before or after.
LEMMA XorPairSwapped ==
    ASSUME NEW p \in Pair, NEW q \in Pair
    PROVE  XorPair(Swapped(p), Swapped(q)) = Swapped(XorPair(p, q))
<1>1. Swapped(p) \in Pair /\ Swapped(q) \in Pair /\ XorPair(p, q) \in Pair
    BY SwappedType, XorPairType
<1>2. XorPair(Swapped(p), Swapped(q)) \in Pair /\ Swapped(XorPair(p, q)) \in Pair
    BY <1>1, SwappedType, XorPairType
<1>3. /\ XorPair(Swapped(p), Swapped(q))[0] = Xor(p[1], q[1])
      /\ XorPair(Swapped(p), Swapped(q))[1] = Xor(p[0], q[0])
    BY <1>1, SwappedType, XorPairType
<1>4. /\ Swapped(XorPair(p, q))[0] = Xor(p[1], q[1])
      /\ Swapped(XorPair(p, q))[1] = Xor(p[0], q[0])
    BY <1>1, SwappedType, XorPairType
<1>. QED BY <1>2, <1>3, <1>4, PairEqual

-----------------------------------------------------------------------------
(* One instruction.                                                        *)

Instruction == IF enc THEN Aesenc ELSE Aesdec

LEMMA InstructionIs == Symmetrical(Instruction)
BY AesAssumption DEF Instruction

LEMMA RoundedHalf ==
    ASSUME NEW b \in Block, NEW key \in Block, NEW h \in Half
    PROVE  /\ Rounded(b, key) \in Block
           /\ Instruction[b[h]] \in Pair
           /\ Rounded(b, key)[h] = XorPair(Instruction[b[h]], key[h])
<1>1. \A g \in Half : b[g] \in Pair /\ key[g] \in Pair
    BY DEF Block
<1>2. \A g \in Half : Instruction[b[g]] \in Pair
    BY <1>1, InstructionIs DEF Symmetrical
<1>3. \A g \in Half : XorPair(Instruction[b[g]], key[g]) \in Pair
    BY <1>1, <1>2, XorPairType
<1>4. Rounded(b, key) = [g \in Half |-> XorPair(Instruction[b[g]], key[g])]
    BY DEF Rounded, Instruction
<1>. QED BY <1>2, <1>3, <1>4 DEF Block

\* Different halves stay different.
LEMMA RoundedInjective ==
    ASSUME NEW b \in Block, NEW c \in Block, NEW key \in Block, NEW h \in Half,
           Rounded(b, key)[h] = Rounded(c, key)[h]
    PROVE  b[h] = c[h]
<1>1. b[h] \in Pair /\ c[h] \in Pair /\ key[h] \in Pair
    BY DEF Block
<1>2. XorPair(Instruction[b[h]], key[h]) = XorPair(Instruction[c[h]], key[h])
    BY RoundedHalf
<1>3. Instruction[b[h]] = Instruction[c[h]]
    BY <1>1, <1>2, RoundedHalf, XorPairInjective
<1>. QED BY <1>1, <1>3, InstructionIs DEF Symmetrical

\* Mirror images stay mirror images under a symmetric key.
LEMMA RoundedMirror ==
    ASSUME NEW b \in Block, NEW c \in Block, NEW key \in Block, NEW h \in Half,
           c[h] = Swapped(b[h]), key[h] = Swapped(key[h])
    PROVE  Rounded(c, key)[h] = Swapped(Rounded(b, key)[h])
<1>1. b[h] \in Pair /\ key[h] \in Pair /\ Instruction[b[h]] \in Pair
    BY RoundedHalf DEF Block
<1>2. Instruction[c[h]] = Swapped(Instruction[b[h]])
    BY <1>1, InstructionIs DEF Symmetrical
<1>3. XorPair(Swapped(Instruction[b[h]]), Swapped(key[h])) =
          Swapped(XorPair(Instruction[b[h]], key[h]))
    BY <1>1, XorPairSwapped
<1>. QED BY <1>2, <1>3, RoundedHalf

-----------------------------------------------------------------------------
(* The inductive invariant.                                                *)

LEMMA InitInv == Init => Inv
<1>. SUFFICES ASSUME Init PROVE Inv
    OBVIOUS
<1>1. TypeOK
    BY RoundsAssumption DEF Init, TypeOK
<1>2. LockstepInv
    BY <1>1 DEF Init, LockstepInv, TypeOK
<1>3. CountInv
  <2>1. Len(applied) = 0 /\ k = 0 /\ r = 0 /\ pc = "round"
    BY DEF Init
  <2>. QED BY <2>1, RoundsAssumption DEF CountInv
<1>. QED BY <1>1, <1>2, <1>3 DEF Inv

\* A round keeps what is known of the two calls.
LEMMA RoundInv ==
    ASSUME Inv, Round
    PROVE  Inv'
<1>. USE DEF Inv
<1>1. /\ keys[k] \in Block /\ k \in Key
      /\ \A c \in Calls : a[c] \in Block
    BY RoundsAssumption DEF Round, TypeOK, Key
<1>2. \A c \in Calls : a'[c] = Rounded(a[c], keys[k]) /\ a'[c] \in Block
  <2>. SUFFICES ASSUME NEW c \in Calls
               PROVE  a'[c] = Rounded(a[c], keys[k]) /\ a'[c] \in Block
    OBVIOUS
  <2>1. a'[c] = Rounded(a[c], keys[k])
    BY DEF Round
  <2>2. \A h \in Half : Rounded(a[c], keys[k]) \in Block
    BY <1>1, RoundedHalf
  <2>3. CASE Half = {}
    BY <2>1, <2>3 DEF Rounded, Block
  <2>. QED BY <2>1, <2>2, <2>3
<1>3. TypeOK'
  <2>1. a' \in [Calls -> Block]
    BY <1>2 DEF Round
  <2>2. applied' \in Seq(Key) /\ r' \in 0 .. NumRounds
    BY <1>1, RoundsAssumption DEF Round, TypeOK
  <2>. QED BY <2>1, <2>2 DEF Round, TypeOK
<1>4. LockstepInv'
  <2>. SUFFICES ASSUME NEW h \in Half
               PROVE  /\ H[1][h] = H[2][h] => a'[1][h] = a'[2][h]
                      /\ a'[1][h] = a'[2][h] => H[1][h] = H[2][h]
                      /\ SymmetricKeys(h) /\ H[2][h] = Swapped(H[1][h])
                            => a'[2][h] = Swapped(a'[1][h])
    BY DEF Round, LockstepInv, SymmetricKeys
  <2>1. a[1] \in Block /\ a[2] \in Block
    BY <1>1 DEF Calls
  <2>2. a'[1] = Rounded(a[1], keys[k]) /\ a'[2] = Rounded(a[2], keys[k])
    BY <1>2 DEF Calls
  <2>3. a[1][h] = a[2][h] => a'[1][h] = a'[2][h]
    BY <1>1, <2>1, <2>2, RoundedHalf
  <2>4. a'[1][h] = a'[2][h] => a[1][h] = a[2][h]
    BY <1>1, <2>1, <2>2, RoundedInjective
  <2>5. SymmetricKeys(h) /\ a[2][h] = Swapped(a[1][h]) => a'[2][h] = Swapped(a'[1][h])
    BY <1>1, <2>1, <2>2, RoundedMirror DEF SymmetricKeys
  <2>. QED BY <2>3, <2>4, <2>5 DEF LockstepInv, Round
<1>5. CountInv'
  <2>1. /\ NumRounds \in Nat /\ k \in Nat /\ r \in Nat /\ r < NumRounds
        /\ k < NumKeys /\ Len(applied) = NumRounds * k + r
        /\ applied \in Seq(Key) /\ NumRounds * k \in Nat /\ NumKeys \in Nat
    BY RoundsAssumption DEF Round, TypeOK, CountInv
  <2>2. /\ applied' = Append(applied, k) /\ k' = k /\ r' = r + 1 /\ pc' = pc
        /\ pc = "round"
    BY DEF Round
  <2>3. Len(applied') = Len(applied) + 1
    BY <2>1, <2>2
  <2>4. NumRounds * (k + 1) = NumRounds * k + NumRounds
    BY <2>1
  <2>5. \A i \in 1 .. Len(applied') : /\ NumRounds * applied'[i] < i
                                      /\ i <= NumRounds * (applied'[i] + 1)
    <3>. SUFFICES ASSUME NEW i \in 1 .. Len(applied')
                 PROVE  /\ NumRounds * applied'[i] < i
                        /\ i <= NumRounds * (applied'[i] + 1)
      OBVIOUS
    <3>1. CASE i \in 1 .. Len(applied)
      <4>1. applied'[i] = applied[i]
        BY <2>1, <2>2, <3>1
      <4>. QED BY <3>1, <4>1 DEF CountInv
    <3>2. CASE i = Len(applied) + 1
      <4>1. applied'[i] = k
        BY <2>1, <2>2, <3>2
      <4>. QED BY <2>1, <2>4, <3>2, <4>1
    <3>. QED BY <2>1, <2>3, <3>1, <3>2
  <2>. QED BY <2>1, <2>2, <2>3, <2>5 DEF CountInv
<1>. QED BY <1>3, <1>4, <1>5

LEMMA NextKeyInv ==
    ASSUME Inv, NextKey
    PROVE  Inv'
<1>. USE DEF Inv
<1>1. TypeOK'
    BY RoundsAssumption DEF NextKey, TypeOK
<1>2. LockstepInv'
    BY DEF NextKey, LockstepInv, SymmetricKeys
<1>3. CountInv'
  <2>1. /\ NumRounds \in Nat /\ k \in Nat
        /\ Len(applied) = NumRounds * k + NumRounds
    BY RoundsAssumption DEF NextKey, TypeOK, CountInv
  <2>2. NumRounds * (k + 1) = NumRounds * k + NumRounds
    BY <2>1
  <2>3. Len(applied) = NumRounds * (k + 1) + 0
    BY <2>1, <2>2
  <2>. QED BY <2>3 DEF NextKey, CountInv
<1>. QED BY <1>1, <1>2, <1>3

LEMMA ReturnInv ==
    ASSUME Inv, Return
    PROVE  Inv'
<1>. USE DEF Inv
<1>1. CountInv'
    BY DEF Return, CountInv
<1>2. CASE ~dm
  <2>1. a' = a
    BY <1>2 DEF Return
  <2>2. TypeOK'
    BY <2>1 DEF Return, TypeOK
  <2>3. LockstepInv'
    BY <1>2, <2>1 DEF Return, LockstepInv, SymmetricKeys
  <2>. QED BY <1>1, <2>2, <2>3
<1>3. CASE dm
  <2>1. \A c \in Calls : \A h \in Half :
            a[c][h] \in Pair /\ H[c][h] \in Pair /\ a'[c][h] = XorPair(a[c][h], H[c][h])
    BY <1>3 DEF Return, TypeOK, Block
  <2>2. a' \in [Calls -> Block]
    <3>1. a' = [c \in Calls |-> [h \in Half |-> XorPair(a[c][h], H[c][h])]]
      BY <1>3 DEF Return
    <3>2. \A c \in Calls : [h \in Half |-> XorPair(a[c][h], H[c][h])] \in Block
      BY <2>1, XorPairType DEF Block
    <3>. QED BY <3>1, <3>2
  <2>3. TypeOK'
    BY <2>2 DEF Return, TypeOK
  <2>4. LockstepInv'
    <3>. SUFFICES ASSUME NEW h \in Half
                 PROVE  /\ H[1][h] = H[2][h] => a'[1][h] = a'[2][h]
                        /\ SymmetricKeys(h) /\ H[2][h] = Swapped(H[1][h])
                              => a'[2][h] = Swapped(a'[1][h])
      BY <1>3 DEF Return, LockstepInv, SymmetricKeys
    <3>1. /\ a'[1][h] = XorPair(a[1][h], H[1][h]) /\ a'[2][h] = XorPair(a[2][h], H[2][h])
          /\ a[1][h] \in Pair /\ H[1][h] \in Pair
      BY <2>1 DEF Calls
    <3>2. H[1][h] = H[2][h] => a'[1][h] = a'[2][h]
      BY <3>1 DEF LockstepInv
    <3>3. ASSUME SymmetricKeys(h), H[2][h] = Swapped(H[1][h])
          PROVE  a'[2][h] = Swapped(a'[1][h])
      <4>1. a[2][h] = Swapped(a[1][h])
        BY <3>3 DEF LockstepInv
      <4>. QED BY <3>1, <3>3, <4>1, XorPairSwapped
    <3>. QED BY <3>2, <3>3
  <2>. QED BY <1>1, <2>3, <2>4
<1>. QED BY <1>2, <1>3

LEMMA NextInv == Inv /\ [Next]_vars => Inv'
<1>. SUFFICES ASSUME Inv, [Next]_vars PROVE Inv'
    OBVIOUS
<1>1. CASE Round BY <1>1, RoundInv
<1>2. CASE NextKey BY <1>2, NextKeyInv
<1>3. CASE Return BY <1>3, ReturnInv
<1>4. CASE UNCHANGED vars
  <2>1. TypeOK' BY <1>4 DEF Inv, TypeOK, vars
  <2>2. LockstepInv' BY <1>4 DEF Inv, LockstepInv, SymmetricKeys, vars
  <2>3. CountInv' BY <1>4 DEF Inv, CountInv, vars
  <2>. QED BY <2>1, <2>2, <2>3 DEF Inv
<1>. QED BY <1>1, <1>2, <1>3, <1>4 DEF Next

-----------------------------------------------------------------------------
(* The theorems.                                                           *)

\* The two calls stay in step, whatever the instructions do.
THEOREM Invariance == Spec => []Inv
<1>. QED BY InitInv, NextInv, PTL DEF Spec

\* Without Davies-Meyer, different counters give different output, in each half:
\* aes_enc and aes_dec with any keys and numbers of rounds.
THEOREM OutputsDistinct == Spec => []Distinct
<1>1. Inv => Distinct
    BY DEF Inv, LockstepInv, Distinct
<1>. QED BY <1>1, Invariance, PTL

\* Under symmetric keys mirrored counters give mirrored output, in all four modes:
\* the comment of rectify_key is right.
THEOREM OutputsMirrored == Spec => []Mirrored
<1>1. Inv => Mirrored
    BY DEF Inv, LockstepInv, Mirrored
<1>. QED BY <1>1, Invariance, PTL

\* Each key is used for NumRounds rounds, in order.
THEOREM RoundsScheduled == Spec => []Schedule
<1>1. Inv => Schedule
  <2>. SUFFICES ASSUME Inv PROVE Schedule
    OBVIOUS
  <2>1. pc = "done" => Len(applied) = NumKeys * NumRounds
    BY RoundsAssumption DEF Inv, CountInv, TypeOK
  <2>. QED BY <2>1 DEF Inv, CountInv, Schedule
<1>. QED BY <1>1, Invariance, PTL
=============================================================================
