-------------------------- MODULE AesCtrPrngProofs --------------------------
(***************************************************************************)
(* Proofs about AesCtrPrng, for lanes and vectors of any size.             *)
(*                                                                         *)
(* Two equal terms of a Weyl sequence differ by a multiple of the          *)
(* increment that is a multiple of W.  The inverse of the increment turns  *)
(* that into a multiple of W between 1 and W - 1, which there is not.      *)
(***************************************************************************)
EXTENDS AesCtrPrng, Integers, TLAPS

-----------------------------------------------------------------------------
(* Facts about \div and % that the provers lack.                            *)

LEMMA DivMod ==
    ASSUME NEW x \in Nat, NEW b \in Nat \ {0}
    PROVE  /\ x \div b \in Nat
           /\ x % b \in 0 .. b - 1
           /\ x = b * (x \div b) + (x % b)
    BY SMT

\* Products with the same positive factor are ordered as the other factors.
LEMMA TimesMonotone ==
    ASSUME NEW x \in Nat, NEW y \in Nat, NEW b \in Nat \ {0}, x <= y
    PROVE  b * x <= b * y
<1>1. PICK d \in Nat : y = x + d
  <2>1. y - x \in Nat /\ y = x + (y - x)
    OBVIOUS
  <2>. QED BY <2>1
<1>2. b * y = b * x + b * d
    BY <1>1
<1>. QED BY <1>2

LEMMA TimesStrict ==
    ASSUME NEW x \in Nat, NEW y \in Nat, NEW b \in Nat \ {0}, x < y
    PROVE  b * x < b * y
<1>1. b * (x + 1) <= b * y
    BY TimesMonotone
<1>2. b * (x + 1) = b * x + b
    OBVIOUS
<1>. QED BY <1>1, <1>2

\* Quotient and remainder are the only pair that is one.
LEMMA DivModIs ==
    ASSUME NEW b \in Nat \ {0}, NEW q \in Nat, NEW r \in 0 .. b - 1
    PROVE  (b * q + r) \div b = q /\ (b * q + r) % b = r
<1>. DEFINE x == b * q + r
            Q == x \div b
<1>0. x \in Nat
    OBVIOUS
<1>1. Q \in Nat /\ x % b \in 0 .. b - 1 /\ x = b * Q + (x % b)
    BY <1>0, DivMod
<1>2. ~(Q < q)
  <2>1. SUFFICES ASSUME Q < q PROVE FALSE
    OBVIOUS
  <2>2. b * (Q + 1) <= b * q /\ b * (Q + 1) = b * Q + b
    BY <1>1, <2>1, TimesMonotone
  <2>. QED BY <1>1, <2>2
<1>3. ~(q < Q)
  <2>1. SUFFICES ASSUME q < Q PROVE FALSE
    OBVIOUS
  <2>2. b * (q + 1) <= b * Q /\ b * (q + 1) = b * q + b
    BY <1>1, <2>1, TimesMonotone
  <2>. QED BY <1>1, <2>2
<1>4. Q = q
    BY <1>1, <1>2, <1>3
<1>. QED BY <1>1, <1>4

-----------------------------------------------------------------------------
(* Arithmetic modulo W.                                                    *)

LEMMA ModType ==
    ASSUME NEW a \in Nat
    PROVE  a % W \in 0 .. W - 1
    BY SizesAssumption, DivMod

\* A multiple of W more makes no difference.
LEMMA ModShift ==
    ASSUME NEW a \in Nat, NEW q \in Nat
    PROVE  (W * q + a) % W = a % W
<1>. DEFINE Q == a \div W
            r == a % W
<1>1. W \in Nat \ {0} /\ Q \in Nat /\ r \in 0 .. W - 1 /\ a = W * Q + r
    BY SizesAssumption, DivMod
<1>. HIDE DEF Q, r
<1>2. W * q + a = W * (q + Q) + r
    BY <1>1
<1>3. (W * (q + Q) + r) % W = r
    BY <1>1, DivModIs
<1>. QED BY <1>2, <1>3 DEF r

\* An addition may be reduced before or after.
LEMMA ModAdd ==
    ASSUME NEW a \in Nat, NEW b \in Nat
    PROVE  ((a % W) + b) % W = (a + b) % W
<1>. DEFINE q == a \div W
            r == a % W
<1>1. W \in Nat \ {0} /\ q \in Nat /\ r \in 0 .. W - 1 /\ a = W * q + r
    BY SizesAssumption, DivMod
<1>. HIDE DEF q, r
<1>2. r + b \in Nat /\ a + b = W * q + (r + b)
    BY <1>1
<1>3. (W * q + (r + b)) % W = (r + b) % W
    BY <1>1, <1>2, ModShift
<1>. QED BY <1>2, <1>3 DEF r

\* Numbers with the same remainder differ by a multiple of W.
LEMMA ModEqual ==
    ASSUME NEW a \in Nat, NEW d \in Nat, (a + d) % W = a % W
    PROVE  \E q \in Nat : d = W * q
<1>. DEFINE q == a \div W
            Q == (a + d) \div W
            r == a % W
<1>0. W \in Nat \ {0} /\ a + d \in Nat
    BY SizesAssumption
<1>1. /\ W \in Nat \ {0} /\ q \in Nat /\ Q \in Nat /\ r \in 0 .. W - 1
      /\ a = W * q + r /\ a + d = W * Q + r
  <2>1. q \in Nat /\ r \in 0 .. W - 1 /\ a = W * q + r
    BY <1>0, DivMod
  <2>2. Q \in Nat /\ a + d = W * Q + ((a + d) % W)
    BY <1>0, DivMod
  <2>. QED BY <1>0, <2>1, <2>2
<1>. HIDE DEF q, Q, r
<1>2. ~(Q < q)
  <2>1. SUFFICES ASSUME Q < q PROVE FALSE
    OBVIOUS
  <2>2. W * Q < W * q
    BY <1>1, <2>1, TimesStrict
  <2>. QED BY <1>1, <2>2
<1>3. Q - q \in Nat /\ W * (Q - q) = W * Q - W * q
    BY <1>1, <1>2
<1>4. d = W * (Q - q)
    BY <1>1, <1>3
<1>. QED BY <1>3, <1>4

\* No multiple of an invertible number by less than W is a multiple of W.
LEMMA NoZeroMultiple ==
    ASSUME NEW p \in Nat, NEW v \in Nat, (p * v) % W = 1 % W,
           NEW d \in 1 .. W - 1, NEW q \in Nat, d * p = W * q
    PROVE  FALSE
<1>1. W \in Nat \ {0} /\ W > 1 /\ d \in Nat
    BY SizesAssumption
<1>2. 1 % W = 1
  <2>1. (W * 0 + 1) % W = 1
    BY <1>1, DivModIs
  <2>. QED BY <1>1, <2>1
<1>3. PICK u \in Nat : p * v = W * u + 1
  <2>1. p * v \in Nat
    OBVIOUS
  <2>. QED BY <1>1, <1>2, <2>1, DivMod
<1>4. (d * p) * v = d * (p * v)
    BY <1>1
<1>5. d * (W * u + 1) = W * (d * u) + d /\ (W * q) * v = W * (q * v)
    BY <1>1
<1>6. W * (q * v) = W * (d * u) + d
    BY <1>3, <1>4, <1>5
<1>7. q * v \in Nat /\ d * u \in Nat
    BY <1>1
<1>8. (W * (q * v) + 0) % W = 0 /\ (W * (d * u) + d) % W = d
    BY <1>1, <1>7, DivModIs
<1>. QED BY <1>1, <1>6, <1>7, <1>8

\* Two terms of the sequence in one lane, less than W apart.
LEMMA TermsDiffer ==
    ASSUME NEW s \in Nat, NEW p \in Nat, NEW v \in Nat, (p * v) % W = 1 % W,
           NEW j \in Nat, NEW d \in 1 .. W - 1
    PROVE  (s + (j + d) * p) % W # (s + j * p) % W
<1>1. SUFFICES ASSUME (s + (j + d) * p) % W = (s + j * p) % W PROVE FALSE
    OBVIOUS
<1>2. W \in Nat /\ d \in Nat
    BY SizesAssumption
<1>3. j * p \in Nat /\ d * p \in Nat /\ (j + d) * p = j * p + d * p
    BY <1>2
<1>. DEFINE a == s + j * p
            e == d * p
<1>4. a \in Nat /\ e \in Nat /\ a + e = s + (j + d) * p
    BY <1>2, <1>3
<1>5. PICK q \in Nat : d * p = W * q
  <2>1. (a + e) % W = a % W
    BY <1>1, <1>4
  <2>. HIDE DEF a, e
  <2>2. \E q \in Nat : e = W * q
    BY <1>4, <2>1, ModEqual
  <2>. QED BY <2>2 DEF e
<1>. QED BY <1>5, NoZeroMultiple

-----------------------------------------------------------------------------
(* The sequence.                                                           *)

LEMMA LaneFacts ==
    ASSUME NEW l \in Lane
    PROVE  /\ Other(l) \in Lane
           /\ Other(l) # l
           /\ Other(Other(l)) = l
           /\ Wyprime[l] \in Nat /\ Wyprime[l] < W
           /\ \E v \in Nat : (Wyprime[l] * v) % W = 1 % W
<1>1. Halves \in Nat /\ W \in Nat /\ l \in Nat /\ l < 2 * Halves
    BY SizesAssumption DEF Lane
<1>2. l \div 2 \in Nat /\ l % 2 \in 0 .. 1 /\ l = 2 * (l \div 2) + (l % 2)
    BY <1>1, DivMod
<1>3. PICK h \in Nat, r \in 0 .. 1 : l = 2 * h + r /\ r = l % 2
    BY <1>2
<1>4. (2 * h + 0) % 2 = 0 /\ (2 * h + 1) % 2 = 1
    BY DivModIs
<1>5. Other(l) \in Lane /\ Other(l) # l /\ Other(Other(l)) = l
  <2>1. CASE r = 0
    <3>1. l = 2 * h /\ Other(l) = 2 * h + 1 /\ h < Halves
      BY <1>1, <1>3, <2>1 DEF Other
    <3>2. Other(2 * h + 1) = 2 * h
      BY <1>4 DEF Other
    <3>. QED BY <1>1, <3>1, <3>2 DEF Lane
  <2>2. CASE r = 1
    <3>1. l = 2 * h + 1 /\ Other(l) = 2 * h /\ h < Halves
      BY <1>1, <1>3, <2>2 DEF Other
    <3>2. Other(2 * h) = 2 * h + 1
      BY <1>4 DEF Other
    <3>. QED BY <1>1, <3>1, <3>2 DEF Lane
  <2>. QED BY <2>1, <2>2
<1>6. Wyprime[l] \in Nat /\ Wyprime[l] < W
    BY <1>1, WyprimeAssumption
<1>7. \E v \in Nat : (Wyprime[l] * v) % W = 1 % W
  <2>1. PICK v \in 0 .. W - 1 : (Wyprime[l] * v) % W = 1 % W
    BY WyprimeAssumption
  <2>2. v \in Nat
    BY <1>1
  <2>. QED BY <2>1, <2>2
<1>. QED BY <1>5, <1>6, <1>7

LEMMA TermType ==
    ASSUME TypeOK, NEW l \in Lane, NEW k \in Nat
    PROVE  Term(l, k) \in 0 .. W - 1
<1>1. start[l] \in Nat /\ Wyprime[l] \in Nat /\ W \in Nat
    BY SizesAssumption, LaneFacts DEF TypeOK, Counter
<1>2. start[l] + k * Wyprime[l] \in Nat
    BY <1>1
<1>. QED BY <1>2, ModType DEF Term

LEMMA TermStep ==
    ASSUME TypeOK, NEW l \in Lane, NEW k \in Nat
    PROVE  (Term(l, k) + Wyprime[l]) % W = Term(l, k + 1)
<1>. DEFINE s == start[l]
            p == Wyprime[l]
<1>1. s \in Nat /\ p \in Nat
    BY SizesAssumption, LaneFacts DEF TypeOK, Counter
<1>. HIDE DEF s, p
<1>2. s + k * p \in Nat /\ (s + k * p) + p = s + (k + 1) * p
    BY <1>1
<1>3. (((s + k * p) % W) + p) % W = ((s + k * p) + p) % W
    BY <1>1, <1>2, ModAdd
<1>. QED BY <1>2, <1>3 DEF Term, s, p

\* The sequence begins at the counter that was drawn.
LEMMA TermZeroNext ==
    ASSUME TypeOK', NEW l \in Lane
    PROVE  Term(l, 0)' = start'[l]
<1>1. start'[l] \in 0 .. W - 1 /\ Wyprime[l] \in Nat /\ W \in Nat \ {0}
    BY SizesAssumption, LaneFacts DEF TypeOK, Counter
<1>2. start'[l] + 0 * Wyprime[l] = W * 0 + start'[l]
    BY <1>1
<1>3. (W * 0 + start'[l]) % W = start'[l]
    BY <1>1, DivModIs
<1>. QED BY <1>2, <1>3 DEF Term

\* rectify_key leaves no half with equal lanes, whatever key it is given.
LEMMA RectifiedLanes ==
    ASSUME NEW key \in KeyVector
    PROVE  /\ Rectified(key) \in KeyVector
           /\ \A l \in Lane : Rectified(key)[l] # Rectified(key)[Other(l)]
<1>1. Rectified(key) \in KeyVector
    BY KeyMaskAssumption DEF Rectified, KeyVector, Xor
<1>2. ASSUME NEW l \in Lane PROVE Rectified(key)[l] # Rectified(key)[Other(l)]
  <2>1. Other(l) \in Lane /\ Other(l) # l /\ Other(Other(l)) = l
    BY LaneFacts
  <2>2. CASE key[l] # key[Other(l)]
    BY <2>1, <2>2 DEF Rectified
  <2>3. CASE key[l] = key[Other(l)]
    <3>1. /\ Rectified(key)[l] = Xor(key[l], KeyMask[l])
          /\ Rectified(key)[Other(l)] = Xor(key[l], KeyMask[Other(l)])
      BY <2>1, <2>3 DEF Rectified
    <3>2. KeyMask[l] # KeyMask[Other(l)]
      BY <2>1, KeyMaskAssumption
    <3>3. ASSUME NEW a, NEW b, NEW c, Xor(a, b) = Xor(a, c) PROVE b = c
      BY <3>3 DEF Xor
    <3>. QED BY <3>1, <3>2, <3>3
  <2>. QED BY <2>2, <2>3
<1>. QED BY <1>1, <1>2

-----------------------------------------------------------------------------
(* The invariant is inductive.                                             *)

LEMMA AddedType ==
    ASSUME NEW c \in Counter
    PROVE  Added(c) \in Counter
<1>1. ASSUME NEW l \in Lane PROVE (c[l] + Wyprime[l]) % W \in 0 .. W - 1
  <2>1. c[l] \in Nat /\ Wyprime[l] \in Nat
    BY SizesAssumption, LaneFacts DEF Counter
  <2>. QED BY <2>1, ModType
<1>. QED BY <1>1 DEF Added, Counter

LEMMA InvInit == Init => Inv
<1>1. SUFFICES ASSUME Init PROVE Inv
    OBVIOUS
<1>2. TypeOK
    BY <1>1, SizesAssumption DEF Init, TypeOK, KeyVector, Counter
<1>3. Weyl /\ ControlInv /\ KeysInv
    BY <1>1 DEF Init, Weyl, ControlInv, KeysInv
<1>. QED BY <1>2, <1>3 DEF Inv

LEMMA ReseedStep == Inv /\ Reseed => Inv'
<1>1. SUFFICES ASSUME Inv, Reseed PROVE Inv'
    OBVIOUS
<1>2. PICK ks \in [1 .. NumKeys -> KeyVector], c \in [Lane -> EntropyCtr] :
          /\ keys' = [k \in 1 .. NumKeys |-> Rectified(ks[k])]
          /\ ctr' = c
          /\ start' = c
    BY <1>1 DEF Reseed
<1>3. fills' = 0 /\ used' = <<>> /\ pc' = "ready" /\ local' = local /\ i' = i
    BY <1>1 DEF Reseed
<1>4. \A k \in 1 .. NumKeys :
          /\ keys'[k] \in KeyVector
          /\ \A l \in Lane : keys'[k][l] # keys'[k][Other(l)]
    BY <1>2, RectifiedLanes
<1>5. c \in Counter
    BY <1>2, SizesAssumption DEF Counter
<1>6. TypeOK'
    BY <1>1, <1>2, <1>3, <1>4, <1>5, SizesAssumption DEF Inv, TypeOK
<1>7. Weyl' /\ KeysInv'
    BY <1>3, <1>4 DEF Weyl, KeysInv
<1>8. ControlInv'
  <2>1. \A l \in Lane : Term(l, 0)' = start'[l]
    BY <1>6, TermZeroNext
  <2>2. Len(used') = 0 /\ 0 = 0 * NumBlocks /\ 0 < ReseedInterval
    BY <1>3, SizesAssumption
  <2>. QED BY <1>2, <1>3, <2>1, <2>2 DEF ControlInv, Term
<1>. QED BY <1>6, <1>7, <1>8 DEF Inv

LEMMA FillBlockStep == Inv /\ FillBlock => Inv'
<1>1. SUFFICES ASSUME Inv, FillBlock PROVE Inv'
    OBVIOUS
<1>2. TypeOK /\ Weyl /\ ControlInv /\ KeysInv
    BY <1>1 DEF Inv
<1>3. /\ pc = "fill" /\ pc' = "fill" /\ i < NumBlocks /\ i' = i + 1
      /\ used' = Append(used, local) /\ local' = Added(local)
      /\ UNCHANGED <<keys, ctr, fills, start>>
    BY <1>1 DEF FillBlock
<1>. DEFINE len == Len(used)
<1>4. len \in Nat /\ used \in Seq(Counter) /\ local \in Counter
    BY <1>2 DEF TypeOK
<1>5. /\ used' \in Seq(Counter) /\ Len(used') = len + 1
      /\ used'[len + 1] = local
      /\ \A k \in 1 .. len : used'[k] = used[k]
    BY <1>3, <1>4
<1>6. /\ len = fills * NumBlocks + i /\ fills < ReseedInterval
      /\ \A l \in Lane : local[l] = Term(l, len)
    BY <1>2, <1>3 DEF ControlInv
<1>7. /\ fills \in Nat /\ i \in Nat /\ NumBlocks \in Nat /\ NumBlocks > 0
      /\ ReseedInterval \in Nat /\ W \in Nat
    BY <1>2, SizesAssumption DEF TypeOK
<1>8. len + 1 <= W
  <2>1. NumBlocks * (fills + 1) <= NumBlocks * ReseedInterval
    BY <1>6, <1>7, TimesMonotone
  <2>2. NumBlocks * (fills + 1) = fills * NumBlocks + NumBlocks
    BY <1>7
  <2>. QED BY <1>3, <1>6, <1>7, <2>1, <2>2, IntervalAssumption
<1>9. TypeOK'
  <2>1. local' \in Counter
    BY <1>3, <1>4, AddedType
  <2>2. i' \in 0 .. NumBlocks
    BY <1>3, <1>7
  <2>. QED BY <1>2, <1>3, <1>5, <1>8, <2>1, <2>2 DEF TypeOK
<1>10. Weyl'
  <2>1. SUFFICES ASSUME NEW k \in 1 .. len + 1, NEW l \in Lane
                 PROVE  used'[k][l] = Term(l, k - 1)
    BY <1>3, <1>4, <1>5 DEF Weyl, Term
  <2>2. CASE k = len + 1
    BY <1>4, <1>5, <1>6, <2>2
  <2>3. CASE k \in 1 .. len
    BY <1>2, <1>4, <1>5, <2>3 DEF Weyl
  <2>. QED BY <1>4, <2>2, <2>3
<1>11. ControlInv'
  <2>1. ASSUME NEW l \in Lane PROVE local'[l] = Term(l, len + 1)
    BY <1>2, <1>3, <1>4, <1>6, TermStep DEF Added
  <2>2. Len(used') = fills * NumBlocks + i'
    BY <1>3, <1>5, <1>6, <1>7
  <2>. QED BY <1>3, <1>5, <1>6, <2>1, <2>2 DEF ControlInv, Term
<1>12. KeysInv'
    BY <1>2, <1>3 DEF KeysInv
<1>. QED BY <1>9, <1>10, <1>11, <1>12 DEF Inv

LEMMA InvStep == Inv /\ [Next]_vars => Inv'
<1>1. SUFFICES ASSUME Inv, [Next]_vars PROVE Inv'
    OBVIOUS
<1>2. TypeOK /\ Weyl /\ ControlInv /\ KeysInv
    BY <1>1 DEF Inv
<1>3. CASE ReseedFails
    BY <1>2, <1>3 DEF ReseedFails, Inv, TypeOK, Weyl, Term, ControlInv, KeysInv
<1>4. CASE FillBegin
  <2>1. fills * NumBlocks + 0 = fills * NumBlocks /\ 0 \in 0 .. NumBlocks
    BY <1>2, SizesAssumption DEF TypeOK
  <2>2. TypeOK'
    BY <1>2, <1>4, <2>1 DEF FillBegin, TypeOK
  <2>3. Weyl' /\ KeysInv'
    BY <1>2, <1>4 DEF FillBegin, Weyl, Term, KeysInv
  <2>4. ControlInv'
    BY <1>2, <1>4, <2>1 DEF FillBegin, ControlInv, Term
  <2>. QED BY <2>2, <2>3, <2>4 DEF Inv
<1>5. CASE FillEnd
  <2>1. /\ fills \in Nat /\ fills < ReseedInterval /\ NumBlocks \in Nat
        /\ ReseedInterval \in Nat /\ i = NumBlocks
        /\ Len(used) = fills * NumBlocks + NumBlocks
        /\ \A l \in Lane : local[l] = Term(l, Len(used))
    BY <1>2, <1>5, SizesAssumption DEF FillEnd, ControlInv, TypeOK
  <2>2. Len(used) = (fills + 1) * NumBlocks /\ fills + 1 \in 0 .. ReseedInterval
    BY <2>1
  <2>3. TypeOK'
    BY <1>2, <1>5, <2>2 DEF FillEnd, TypeOK
  <2>4. Weyl' /\ KeysInv'
    BY <1>2, <1>5 DEF FillEnd, Weyl, Term, KeysInv
  <2>5. ControlInv'
    BY <1>5, <2>1, <2>2 DEF FillEnd, ControlInv, Term
  <2>. QED BY <2>3, <2>4, <2>5 DEF Inv
<1>6. CASE UNCHANGED vars
    BY <1>2, <1>6 DEF vars, Inv, TypeOK, Weyl, Term, ControlInv, KeysInv
<1>. QED BY <1>1, <1>3, <1>4, <1>5, <1>6, ReseedStep, FillBlockStep DEF Next

-----------------------------------------------------------------------------
(* The theorems.                                                           *)

\* Blocks of a seed encrypt the terms of a Weyl sequence, one after the other
\* and across fills, under rectified keys.
THEOREM Invariance == Spec => []Inv
    BY InvInit, InvStep, PTL DEF Spec

\* Every variable keeps its range, and a seed is not overused.
THEOREM TypeCorrect == Spec => []TypeOK
<1>1. Inv => TypeOK
    BY DEF Inv
<1>. QED BY <1>1, Invariance, PTL

\* No lane of the counter takes a value twice under one seed: the premise on
\* which RandpPool names a block by seed and number.
THEOREM CountersNeverRepeat == Spec => []CountersDistinct
<1>1. ASSUME Inv PROVE CountersDistinct
  <2>1. TypeOK /\ Weyl
    BY <1>1 DEF Inv
  <2>2. ASSUME NEW l \in Lane, NEW j \in DOMAIN used, NEW k \in DOMAIN used, j < k
        PROVE  used[j][l] # used[k][l]
    <3>1. Len(used) \in Nat /\ Len(used) <= W /\ W \in Nat
      BY <2>1, SizesAssumption DEF TypeOK
    <3>2. DOMAIN used = 1 .. Len(used)
      BY <2>1 DEF TypeOK
    <3>3. j - 1 \in Nat /\ k - j \in 1 .. W - 1 /\ (j - 1) + (k - j) = k - 1
      BY <2>2, <3>1, <3>2
    <3>4. start[l] \in Nat /\ Wyprime[l] \in Nat
      <4>1. start \in [Lane -> 0 .. W - 1]
        BY <2>1 DEF TypeOK, Counter
      <4>2. start[l] \in 0 .. W - 1
        BY <4>1
      <4>. QED BY <4>2, <3>1, LaneFacts
    <3>5. PICK v \in Nat : (Wyprime[l] * v) % W = 1 % W
      BY LaneFacts
    <3>6. Term(l, k - 1) # Term(l, j - 1)
      <4>1. (start[l] + ((j - 1) + (k - j)) * Wyprime[l]) % W
                # (start[l] + (j - 1) * Wyprime[l]) % W
        BY <3>3, <3>4, <3>5, TermsDiffer
      <4>. QED BY <3>3, <4>1 DEF Term
    <3>. QED BY <2>1, <3>6 DEF Weyl
  <2>3. DOMAIN used \subseteq Nat
    BY <2>1 DEF TypeOK
  <2>4. ASSUME NEW j \in DOMAIN used, NEW k \in DOMAIN used, NEW l \in Lane,
               used[j][l] = used[k][l]
        PROVE  j = k
    BY <2>2, <2>3, <2>4
  <2>. QED BY <2>4 DEF CountersDistinct
<1>. QED BY <1>1, Invariance, PTL

\* No half block is another, or itself, with its lanes swapped because the keys
\* have equal lanes: rectify_key sees to it for every key getentropy may draw.
THEOREM NoMirrorImages == Spec => []NoMirror
<1>1. ASSUME Inv PROVE NoMirror
  <2>1. NumKeys >= 1
    BY SizesAssumption
  <2>2. ASSUME used # <<>>, NEW l \in Lane PROVE ~Symmetric(l)
    BY <1>1, <2>1, <2>2, SizesAssumption DEF Inv, KeysInv, Symmetric
  <2>3. ASSUME NEW j \in DOMAIN used PROVE used # <<>>
    BY <2>3
  <2>. QED BY <2>2, <2>3 DEF NoMirror
<1>. QED BY <1>1, Invariance, PTL

\* Increments below W that add up to the same are the same.
LEMMA SameIncrement ==
    ASSUME NEW a \in Nat, NEW p \in 0 .. W - 1, NEW q \in 0 .. W - 1, p <= q,
           (a + p) % W = (a + q) % W
    PROVE  p = q
<1>1. W \in Nat \ {0} /\ p \in Nat /\ q \in Nat
    BY SizesAssumption
<1>. DEFINE b == a + p
            d == q - p
<1>2. b \in Nat /\ d \in Nat /\ b + d = a + q /\ d < W
    BY <1>1
<1>3. (b + d) % W = b % W
    BY <1>2
<1>. HIDE DEF b, d
<1>4. PICK c \in Nat : d = W * c
    BY <1>2, <1>3, ModEqual
<1>5. c = 0
  <2>1. SUFFICES ASSUME c >= 1 PROVE FALSE
    BY <1>4
  <2>2. W * 1 <= W * c
    BY <1>1, <2>1, TimesMonotone
  <2>. QED BY <1>1, <1>2, <1>4, <2>2
<1>6. d = 0
    BY <1>1, <1>4, <1>5
<1>. QED BY <1>1, <1>6 DEF d

\* No two lanes of the counter run in step.
THEOREM LanesRunApart == Spec => []LanesApart
<1>1. ASSUME Inv PROVE LanesApart
  <2>1. TypeOK /\ Weyl
    BY <1>1 DEF Inv
  <2>2. SUFFICES ASSUME NEW k \in 1 .. Len(used) - 1, NEW l \in Lane, NEW h \in Lane,
                        used[k][l] = used[k][h], used[k + 1][l] = used[k + 1][h]
                 PROVE  l = h
    BY DEF LanesApart
  <2>3. DOMAIN used = 1 .. Len(used) /\ Len(used) \in Nat
    BY <2>1 DEF TypeOK
  <2>4. k \in DOMAIN used /\ k + 1 \in DOMAIN used /\ k - 1 \in Nat /\ (k + 1) - 1 = (k - 1) + 1
    BY <2>2, <2>3
  <2>. DEFINE a == Term(l, k - 1)
              p == Wyprime[l]
              q == Wyprime[h]
  <2>5. /\ a \in Nat /\ Term(h, k - 1) = a
        /\ (a + p) % W = (a + q) % W
    <3>1. Term(h, k - 1) = a
      BY <2>1, <2>2, <2>4 DEF Weyl
    <3>2. Term(l, (k - 1) + 1) = Term(h, (k - 1) + 1)
      BY <2>1, <2>2, <2>4 DEF Weyl
    <3>3. a \in Nat
      BY <2>1, <2>4, TermType
    <3>. QED BY <2>1, <2>4, <3>1, <3>2, <3>3, TermStep
  <2>6. p \in 0 .. W - 1 /\ q \in 0 .. W - 1
    BY SizesAssumption, WyprimeAssumption
  <2>. HIDE DEF a, p, q
  <2>7. p = q
    <3>1. p <= q \/ q <= p
      BY <2>6
    <3>. QED BY <2>5, <2>6, <3>1, SameIncrement
  <2>. QED BY <2>7, WyprimeAssumption DEF p, q
<1>. QED BY <1>1, Invariance, PTL
=============================================================================
