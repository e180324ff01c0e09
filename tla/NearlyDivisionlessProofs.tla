---------------------- MODULE NearlyDivisionlessProofs ----------------------
(***************************************************************************)
(* Proofs about NearlyDivisionless, for every word size and every bound.   *)
(*                                                                         *)
(* The accepted draws that give r are those whose product lies between     *)
(* r * W + W % s and (r + 1) * W.  That stretch is W \div s times s long,  *)
(* so it holds W \div s multiples of s wherever it begins.                 *)
(***************************************************************************)
EXTENDS NearlyDivisionless, Integers, FiniteSetTheorems, TLAPS

-----------------------------------------------------------------------------
(* Facts about \div and % that the provers lack.                            *)

LEMMA DivMod ==
    ASSUME NEW i \in Nat, NEW b \in Nat \ {0}
    PROVE  /\ i \div b \in Nat
           /\ i % b \in 0 .. b - 1
           /\ i = b * (i \div b) + (i % b)
    BY SMT

\* Products with the same positive factor are ordered as the other factors.
LEMMA TimesMonotone ==
    ASSUME NEW i \in Nat, NEW j \in Nat, NEW b \in Nat \ {0}, i <= j
    PROVE  b * i <= b * j
<1>1. PICK d \in Nat : j = i + d
    OBVIOUS
<1>2. b * j = b * i + b * d
    BY <1>1
<1>. QED BY <1>2

LEMMA TimesStrict ==
    ASSUME NEW i \in Nat, NEW j \in Nat, NEW b \in Nat \ {0}, i < j
    PROVE  b * i < b * j
<1>1. b * (i + 1) <= b * j
    BY TimesMonotone
<1>2. b * (i + 1) = b * i + b
    OBVIOUS
<1>. QED BY <1>1, <1>2

\* Quotient and remainder are the only pair that is one.
LEMMA DivModIs ==
    ASSUME NEW b \in Nat \ {0}, NEW q \in Nat, NEW r \in 0 .. b - 1
    PROVE  (b * q + r) \div b = q /\ (b * q + r) % b = r
<1>. DEFINE i == b * q + r
            Q == i \div b
<1>0. i \in Nat
    OBVIOUS
<1>1. Q \in Nat /\ i % b \in 0 .. b - 1 /\ i = b * Q + (i % b)
    BY <1>0, DivMod
<1>2. ~(Q < q)
  <2>1. SUFFICES ASSUME Q < q PROVE FALSE
    OBVIOUS
  <2>2. b * (Q + 1) <= b * q /\ b * (Q + 1) = b * Q + b
    BY <1>1, <2>1, TimesMonotone
  <2>. QED BY <1>1, <2>2
<1>3. ~(q < Q)
  <2>1. SUFFICES ASSUME q < Q PROVE FALSE
    OBVIOUS
  <2>2. b * (q + 1) <= b * Q /\ b * (q + 1) = b * q + b
    BY <1>1, <2>1, TimesMonotone
  <2>. QED BY <1>1, <2>2
<1>4. Q = q
    BY <1>1, <1>2, <1>3
<1>. QED BY <1>1, <1>4

\* The multiples of b from v on begin at some factor c.
LEMMA Ceiling ==
    ASSUME NEW b \in Nat \ {0}, NEW v \in Nat
    PROVE  \E c \in Nat : \A x \in Nat : b * x >= v <=> x >= c
<1>. DEFINE q == v \div b
            r == v % b
<1>1. q \in Nat /\ r \in 0 .. b - 1 /\ v = b * q + r
    BY DivMod
<1>. HIDE DEF q, r
<1>2. ASSUME NEW x \in Nat PROVE b * x >= v <=> x >= (IF r = 0 THEN q ELSE q + 1)
  <2>1. CASE x < q
    BY <1>1, <2>1, TimesStrict
  <2>2. CASE x = q
    BY <1>1, <2>2
  <2>3. CASE x > q
    <3>1. b * (q + 1) <= b * x /\ b * (q + 1) = b * q + b
      BY <1>1, <2>3, TimesMonotone
    <3>. QED BY <1>1, <2>3, <3>1
  <2>. QED BY <1>1, <2>1, <2>2, <2>3
<1>3. (IF r = 0 THEN q ELSE q + 1) \in Nat
    BY <1>1
<1>. QED BY <1>2, <1>3, Zenon

Bounds == 1 .. W - 1

\* -s % s is the remainder of 2^L, as the comment in the code has it.
LEMMA ThresholdIs ==
    ASSUME NEW b \in Bounds
    PROVE  Threshold(b) = W % b
<1>. DEFINE q == W \div b
            r == W % b
<1>0. W \in Nat /\ b \in Nat \ {0} /\ b < W
    BY WAssumption DEF Bounds
<1>1. q \in Nat /\ r \in 0 .. b - 1 /\ W = b * q + r
    BY <1>0, DivMod
<1>2. q >= 1
  <2>1. SUFFICES ASSUME q = 0 PROVE FALSE
    BY <1>1
  <2>. QED BY <1>0, <1>1, <2>1
<1>. HIDE DEF q, r
<1>3. q - 1 \in Nat /\ W - b = b * (q - 1) + r
    BY <1>0, <1>1, <1>2
<1>4. (W - b) % b = r
    BY <1>0, <1>1, <1>3, DivModIs
<1>5. (W - b) % W = W - b
  <2>1. W \in Nat \ {0} /\ W - b \in 0 .. W - 1 /\ W - b = W * 0 + (W - b)
    BY <1>0
  <2>2. \A x \in 0 .. W - 1 : (W * 0 + x) % W = x
    BY <2>1, DivModIs
  <2>. QED BY <2>1, <2>2
<1>. QED BY <1>4, <1>5 DEF Threshold, r

\* The loop and the test before it let through the same draws.
LEMMA AcceptedIs ==
    ASSUME NEW b \in Bounds, NEW v \in Nat
    PROVE  Accepted(v, b) <=> v % W >= W % b
<1>1. W \in Nat \ {0} /\ b \in Nat \ {0}
    BY WAssumption DEF Bounds
<1>2. W % b \in 0 .. b - 1 /\ v % W \in 0 .. W - 1
    BY <1>1, DivMod
<1>. QED BY <1>1, <1>2, ThresholdIs DEF Accepted, Low

\* The accepted draws that give r are W \div b consecutive ones.
LEMMA DrawsAreAnInterval ==
    ASSUME NEW b \in Bounds, NEW r \in 0 .. b - 1
    PROVE  \E c \in Nat : Draws(b, r) = c .. c + (W \div b) - 1
<1>. DEFINE q == W \div b
            t == W % b
            v == W * r + t
<1>0. W \in Nat \ {0} /\ b \in Nat \ {0} /\ b < W /\ r \in Nat
    BY WAssumption DEF Bounds
<1>1. q \in Nat /\ t \in 0 .. b - 1 /\ W = b * q + t
    BY <1>0, DivMod
<1>. HIDE DEF q, t
<1>2. v \in Nat
    BY <1>0, <1>1
<1>3. PICK c \in Nat : \A x \in Nat : b * x >= v <=> x >= c
    BY <1>0, <1>2, Ceiling
<1>4. W * (r + 1) = v + b * q
    BY <1>0, <1>1
<1>. HIDE DEF v
<1>5. ASSUME NEW x \in Nat
      PROVE  Accepted(x * b, b) /\ High(x * b) = r <=> b * x >= v /\ b * x < v + b * q
  <2>. DEFINE y == b * x
              h == y \div W
              l == y % W
  <2>1. x * b = y /\ y \in Nat
    BY <1>0
  <2>2. h \in Nat /\ l \in 0 .. W - 1 /\ y = W * h + l
    BY <1>0, <2>1, DivMod
  <2>3. Accepted(y, b) <=> l >= t
    BY <2>1, AcceptedIs DEF t
  <2>. HIDE DEF y, h, l
  <2>4. ASSUME l >= t, h = r PROVE y >= v /\ y < v + b * q
    BY <1>0, <1>1, <1>4, <2>2, <2>4 DEF v
  <2>5. ASSUME y >= v, y < v + b * q PROVE h = r /\ l >= t
    <3>1. h <= r
      <4>1. SUFFICES ASSUME h > r PROVE FALSE
        BY <1>0, <2>2
      <4>2. W * (r + 1) <= W * h
        BY <1>0, <2>2, <4>1, TimesMonotone
      <4>. QED BY <1>0, <1>4, <2>2, <2>5, <4>2
    <3>2. h >= r
      <4>1. SUFFICES ASSUME h < r PROVE FALSE
        BY <1>0, <2>2
      <4>2. W * (h + 1) <= W * r /\ W * (h + 1) = W * h + W
        BY <1>0, <2>2, <4>1, TimesMonotone
      <4>. QED BY <1>0, <1>1, <2>2, <2>5, <4>2 DEF v
    <3>3. h = r
      BY <1>0, <2>2, <3>1, <3>2
    <3>. QED BY <1>0, <1>1, <2>2, <2>5, <3>3 DEF v
  <2>6. High(x * b) = h
    BY <2>1 DEF High, h
  <2>. QED BY <2>1, <2>3, <2>4, <2>5, <2>6 DEF y
<1>6. ASSUME NEW x \in Nat
      PROVE  b * x < v + b * q <=> x < c + q
  <2>1. CASE x < q
    <3>1. b * x < b * q
      BY <1>0, <1>1, <2>1, TimesStrict
    <3>2. b * x \in Nat /\ b * q \in Nat
      BY <1>0, <1>1
    <3>. QED BY <1>1, <1>2, <1>3, <2>1, <3>1, <3>2
  <2>2. CASE x >= q
    <3>1. PICK y \in Nat : x = y + q
      BY <1>1, <2>2
    <3>2. b * x = b * y + b * q /\ b * y \in Nat /\ b * q \in Nat
      BY <1>0, <1>1, <3>1
    <3>3. b * y >= v <=> y >= c
      BY <1>3
    <3>. QED BY <1>1, <1>2, <1>3, <3>1, <3>2, <3>3
  <2>. QED BY <1>1, <2>1, <2>2
<1>7. ASSUME NEW x \in Nat, x < c + q
      PROVE  x < W
  <2>1. b * x < v + b * q
    BY <1>6, <1>7
  <2>2. W * (r + 1) <= W * b
    BY <1>0, TimesMonotone
  <2>3. b * x < b * W
    BY <1>0, <1>4, <2>1, <2>2
  <2>4. SUFFICES ASSUME x >= W PROVE FALSE
    BY <1>0
  <2>5. b * W <= b * x
    BY <1>0, <2>4, TimesMonotone
  <2>. QED BY <1>0, <2>3, <2>5
<1>8. \A x \in Nat : x \in Draws(b, r) <=> c <= x /\ x < c + q
    BY <1>0, <1>3, <1>5, <1>6, <1>7 DEF Draws, T
<1>9. Draws(b, r) \subseteq Nat /\ (c .. c + q - 1) \subseteq Nat
    BY <1>0 DEF Draws, T
<1>10. Draws(b, r) = c .. c + q - 1
  <2>1. \A x \in Nat : x \in c .. c + q - 1 <=> c <= x /\ x < c + q
    BY <1>1
  <2>. QED BY <1>8, <1>9, <2>1, Zenon
<1>. QED BY <1>10 DEF q

\* Every result has the same number of draws.
LEMMA SameChance ==
    ASSUME NEW b \in Bounds, NEW r \in 0 .. b - 1
    PROVE  Cardinality(Draws(b, r)) = W \div b
<1>1. W \div b \in Nat
    BY WAssumption, DivMod DEF Bounds
<1>2. W \div b >= 1
  <2>1. W \in Nat /\ b \in Nat \ {0} /\ b < W
    BY WAssumption DEF Bounds
  <2>2. W % b \in 0 .. b - 1 /\ W = b * (W \div b) + (W % b)
    BY <2>1, DivMod
  <2>3. SUFFICES ASSUME W \div b = 0 PROVE FALSE
    BY <1>1
  <2>. QED BY <2>1, <2>2, <2>3
<1>3. PICK c \in Nat : Draws(b, r) = c .. c + (W \div b) - 1
    BY DrawsAreAnInterval
<1>. DEFINE d == c + (W \div b) - 1
<1>4. c \in Int /\ d \in Int /\ ~(c > d) /\ d - c + 1 = W \div b
    BY <1>1, <1>2
<1>. QED BY <1>3, <1>4, FS_Interval

-----------------------------------------------------------------------------
(* The algorithm, step by step.                                            *)

\* A draw gives a product of the double width, whose high half is below the bound.
LEMMA ProductIs ==
    ASSUME NEW x \in T, NEW b \in T, b > 0
    PROVE  /\ x * b \in 0 .. (W - 1) * (W - 1)
           /\ High(x * b) \in Nat
           /\ High(x * b) < b
<1>0. W \in Nat \ {0} /\ x \in Nat /\ b \in Nat \ {0} /\ x <= W - 1 /\ b <= W - 1 /\ W - 1 \in Nat
    BY WAssumption DEF T
<1>. DEFINE v == x * b
            h == v \div W
<1>1. x * b = b * x /\ b * x \in Nat
    BY <1>0
<1>2. b * x <= b * (W - 1) /\ b * (W - 1) = (W - 1) * b
    BY <1>0, TimesMonotone
<1>3. (W - 1) * b <= (W - 1) * (W - 1)
  <2>1. CASE W - 1 = 0
    BY <1>0, <2>1
  <2>2. CASE W - 1 # 0
    BY <1>0, <2>2, TimesMonotone
  <2>. QED BY <2>1, <2>2
<1>4. v \in Nat /\ h \in Nat /\ v >= W * h
  <2>1. v \in Nat
    BY <1>1
  <2>2. h \in Nat /\ v % W \in 0 .. W - 1 /\ v = W * h + (v % W)
    BY <1>0, <2>1, DivMod
  <2>. HIDE DEF v, h
  <2>3. W * h \in Nat
    BY <1>0, <2>2
  <2>. QED BY <1>0, <2>1, <2>2, <2>3
<1>. HIDE DEF h
<1>5. h < b
  <2>1. SUFFICES ASSUME h >= b PROVE FALSE
    BY <1>0, <1>4
  <2>2. W * b <= W * h
    BY <1>0, <1>4, <2>1, TimesMonotone
  <2>3. W * b = b * (W - 1) + b
    BY <1>0
  <2>. QED BY <1>0, <1>1, <1>2, <1>4, <2>2, <2>3
<1>6. (W - 1) * b \in Nat /\ (W - 1) * (W - 1) \in Nat
    BY <1>0
<1>. QED BY <1>1, <1>2, <1>3, <1>4, <1>5, <1>6 DEF High, h

LEMMA ThresholdType ==
    ASSUME NEW b \in T, b > 1
    PROVE  Threshold(b) \in T
<1>1. b \in Bounds /\ W \in Nat /\ b \in Nat \ {0} /\ b < W
    BY WAssumption DEF Bounds, T
<1>2. W % b \in 0 .. b - 1
    BY <1>1, DivMod
<1>. QED BY <1>1, <1>2, ThresholdIs DEF T

LEMMA InvInit == Init => Inv
<1>1. 0 \in 0 .. (W - 1) * (W - 1)
  <2>1. W - 1 \in Nat
    BY WAssumption
  <2>2. (W - 1) * (W - 1) \in Nat
    BY <2>1
  <2>. QED BY <2>2
<1>. QED BY <1>1, WAssumption DEF Init, Inv, TypeOK, T

LEMMA InvStep == Inv /\ [Next]_vars => Inv'
<1>. SUFFICES ASSUME Inv, [Next]_vars PROVE Inv'
    OBVIOUS
<1>0. s \in T /\ T \subseteq Nat /\ 0 \in T /\ TypeOK
    BY WAssumption DEF Inv, TypeOK, T
<1>1. ASSUME NEW b \in T, Call(b) PROVE Inv'
  <2>1. 0 \in 0 .. (W - 1) * (W - 1)
    BY <1>0, WAssumption DEF TypeOK
  <2>. QED BY <1>0, <1>1, <2>1 DEF Call, Inv, TypeOK
<1>2. ASSUME NEW x \in T, Draw(x) PROVE Inv'
  <2>1. s > 1 /\ s > 0
    BY <1>0, <1>2 DEF Draw, Inv
  <2>2. /\ x * s \in 0 .. (W - 1) * (W - 1)
        /\ High(x * s) < s
    BY <1>0, <2>1, ProductIs
  <2>3. ~(Low(x * s) < s) => Accepted(x * s, s)
    <3>1. Low(x * s) \in Nat
      BY <2>2, WAssumption, DivMod DEF Low
    <3>. QED BY <1>0, <3>1 DEF Accepted
  <2>4. Drawn'
    BY <1>2 DEF Draw, Drawn
  <2>. QED BY <1>0, <1>2, <2>1, <2>2, <2>3, <2>4 DEF Draw, Inv, TypeOK
<1>3. ASSUME NEW x \in T, Redraw(x) PROVE Inv'
  <2>1. s > 1 /\ s > 0
    BY <1>0, <1>3 DEF Redraw, Inv
  <2>2. /\ x * s \in 0 .. (W - 1) * (W - 1)
        /\ High(x * s) < s
    BY <1>0, <2>1, ProductIs
  <2>3. Drawn'
    BY <1>3 DEF Redraw, Drawn
  <2>. QED BY <1>0, <1>3, <2>1, <2>2, <2>3 DEF Redraw, Inv, TypeOK
<1>4. ASSUME Divide PROVE Inv'
  <2>1. Threshold(s) \in T
    BY <1>0, <1>4, ThresholdType DEF Divide, Inv
  <2>2. Drawn'
    BY <1>4 DEF Divide, Inv, Drawn
  <2>. QED BY <1>0, <1>4, <2>1, <2>2 DEF Divide, Inv, TypeOK
<1>5. ASSUME Exit PROVE Inv'
  <2>1. Drawn'
    BY <1>5 DEF Exit, Inv, Drawn
  <2>. QED BY <1>0, <1>5, <2>1 DEF Exit, Inv, TypeOK, Accepted
<1>6. ASSUME Return PROVE Inv'
  <2>1. High(product) \in Nat
    BY <1>0, WAssumption, DivMod DEF TypeOK, High
  <2>2. High(product) < s /\ High(product) \in T
    BY <1>0, <1>6, <2>1, WAssumption DEF Return, Inv, T
  <2>3. Drawn'
    BY <1>6 DEF Return, Inv, Drawn
  <2>. QED BY <1>0, <1>6, <2>2, <2>3 DEF Return, Inv, TypeOK
<1>7. CASE UNCHANGED vars
  <2>1. Drawn' <=> Drawn
    BY <1>7 DEF vars, Drawn
  <2>. QED BY <1>0, <1>7, <2>1 DEF vars, Inv, TypeOK
<1>. QED BY <1>1, <1>2, <1>3, <1>4, <1>5, <1>6, <1>7 DEF Next, Step

THEOREM Invariance == Spec => []Inv
    BY InvInit, InvStep, PTL DEF Spec

\* threshold and result fit the word, product the double word.
THEOREM TypeCorrect == Spec => []TypeOK
<1>1. Inv => TypeOK
    BY DEF Inv
<1>. QED BY <1>1, Invariance, PTL

\* The result is below the bound, for every word size and every sequence of draws.
THEOREM ResultBelow == Spec => []Below
<1>1. ASSUME Inv PROVE Below
  <2>1. s \in T /\ T \subseteq Nat
    BY <1>1, WAssumption DEF Inv, TypeOK, T
  <2>. QED BY <1>1, <2>1 DEF Inv, Below
<1>. QED BY <1>1, Invariance, PTL

\* No result is likelier than another: it is that of an accepted draw, and each
\* result below the bound has exactly W \div s of these.
THEOREM ResultUnbiased == Spec => []Unbiased
<1>1. ASSUME Inv PROVE Unbiased
  <2>1. SUFFICES ASSUME s > 1
                 PROVE  /\ pc = "done" => \E x \in Draws(s, result) : product = x * s
                        /\ \A r \in 0 .. s - 1 : Cardinality(Draws(s, r)) = W \div s
    BY DEF Unbiased
  <2>2. s \in Bounds
    BY <1>1, <2>1, WAssumption DEF Inv, TypeOK, T, Bounds
  <2>3. ASSUME pc = "done" PROVE \E x \in Draws(s, result) : product = x * s
    <3>1. Accepted(product, s) /\ result = High(product) /\ Drawn
      BY <1>1, <2>1, <2>3 DEF Inv
    <3>2. PICK x \in T : product = x * s
      BY <3>1 DEF Drawn
    <3>. QED BY <3>1, <3>2 DEF Draws
  <2>. QED BY <2>2, <2>3, SameChance
<1>. QED BY <1>1, Invariance, PTL
=============================================================================
