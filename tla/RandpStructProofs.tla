-------------------------- MODULE RandpStructProofs -------------------------
(***************************************************************************)
(* Facts about the operators of RandpStruct, for every pool size, block    *)
(* size and reseed interval: their types, the fields they keep, the bytes  *)
(* that a refill puts into a pool and those a copy takes out of it.        *)
(***************************************************************************)
EXTENDS RandpStruct, SequenceTheorems, TLAPS

-----------------------------------------------------------------------------
(* Facts about \div and % that the provers lack.                            *)

LEMMA DivMod ==
    ASSUME NEW i \in Nat, NEW b \in Nat \ {0}
    PROVE  /\ i \div b \in Nat
           /\ i % b \in 0 .. b - 1
           /\ i = b * (i \div b) + (i % b)
    BY SMT

LEMMA DivModUnique ==
    ASSUME NEW i \in Nat, NEW j \in Nat, NEW b \in Nat \ {0},
           i \div b = j \div b, i % b = j % b
    PROVE  i = j
    BY DivMod

\* Products with the same positive factor are ordered as the other factors.
LEMMA TimesMonotone ==
    ASSUME NEW i \in Nat, NEW j \in Nat, NEW b \in Nat \ {0}, i <= j
    PROVE  b * i <= b * j
<1>1. PICK d \in Nat : j = i + d
    OBVIOUS
<1>2. b * j = b * i + b * d
    BY <1>1
<1>. QED BY <1>2

\* The block of an index below the size of a whole number of blocks.
LEMMA DivBelow ==
    ASSUME NEW k \in Nat, NEW i \in Nat, NEW b \in Nat \ {0},
           k % b = 0, i < k
    PROVE  i \div b < k \div b
<1>. DEFINE q == k \div b
            r == i \div b
<1>1. q \in Nat /\ r \in Nat /\ k = b * q /\ i >= b * r
    BY DivMod
<1>2. SUFFICES ASSUME r >= q PROVE FALSE
    BY <1>1
<1>3. b * q <= b * r
    BY <1>1, <1>2, TimesMonotone
<1>. QED BY <1>1, <1>3

-----------------------------------------------------------------------------
(* Types.                                                                  *)

LEMMA BlocksType == NumBlocks \in Nat
    BY SizesAssumption, DivMod DEF NumBlocks

\* The i-th byte of the pool lies in one of its NumBlocks blocks.
LEMMA IndexType ==
    ASSUME NEW i \in Index
    PROVE  /\ i \in Nat
           /\ i \div BlockSize \in Nat
           /\ i \div BlockSize < NumBlocks
           /\ i % BlockSize \in Nat
    BY SizesAssumption, DivMod, DivBelow DEF Index, NumBlocks

LEMMA ZeroPageType == ZeroPage \in Struct
    BY SizesAssumption DEF ZeroPage, Struct, Zero, Byte

LEMMA ReseededType ==
    ASSUME NEW s \in Struct, NEW seed \in Nat
    PROVE  Reseeded(s, seed) \in Struct
<1>1. ReseedInterval \in 0 .. ReseedInterval
    BY SizesAssumption
<1>. QED BY <1>1 DEF Reseeded, Struct

LEMMA FilledType ==
    ASSUME NEW s \in Struct, s.reseed_countdown > 0
    PROVE  Filled(s) \in Struct
<1>. DEFINE pool == [i \in Index |-> Out(s.keys, s.ctr + (i \div BlockSize), i % BlockSize)]
<1>1. pool \in [Index -> Byte]
    BY IndexType DEF Out, Byte, Struct
<1>2. s.ctr + NumBlocks \in Nat /\ s.reseed_countdown - 1 \in 0 .. ReseedInterval
    BY BlocksType, SizesAssumption DEF Struct
<1>3. PoolSize \in 0 .. PoolSize
    BY SizesAssumption
<1>. QED BY <1>1, <1>2, <1>3 DEF Filled, Struct

LEMMA ChunkType ==
    ASSUME NEW s \in Struct, NEW k \in Nat
    PROVE  /\ Chunk(s, k) \in 0 .. PoolSize
           /\ Chunk(s, k) \in 0 .. s.rand_bytes_remaining
           /\ Chunk(s, k) <= k
           /\ Chunk(s, k) <= s.rand_bytes_remaining
           /\ k > 0 /\ s.rand_bytes_remaining > 0 => Chunk(s, k) > 0
    BY SizesAssumption DEF Chunk, Struct

LEMMA WipedType ==
    ASSUME NEW s \in Struct, NEW k \in Nat
    PROVE  Wiped(s, k) \in Struct
    BY SizesAssumption DEF Wiped, Struct, Zero, Byte

LEMMA AdvancedType ==
    ASSUME NEW s \in Struct, NEW k \in 0 .. s.rand_bytes_remaining
    PROVE  Advanced(s, k) \in Struct
    BY SizesAssumption DEF Advanced, Struct

\* memcpy reads bytes of the pool, and never past its end.
LEMMA CopiedType ==
    ASSUME NEW s \in Struct, NEW k \in 0 .. s.rand_bytes_remaining
    PROVE  /\ \A j \in 1 .. k : Src(s) + j - 1 \in Index
           /\ Copied(s, k) \in Seq(Byte)
           /\ Len(Copied(s, k)) = k
<1>1. \A j \in 1 .. k : Src(s) + j - 1 \in Index
    BY SizesAssumption DEF Src, Struct, Index
<1>2. \A j \in 1 .. k : s.pool[Src(s) + j - 1] \in Byte
    BY <1>1 DEF Struct
<1>3. k \in Nat
    BY DEF Struct
<1>. QED BY <1>1, <1>2, <1>3 DEF Copied

-----------------------------------------------------------------------------
(* Fields.                                                                 *)

LEMMA WipedFields ==
    ASSUME NEW s \in Struct, NEW k \in Nat
    PROVE  /\ Wiped(s, k).keys = s.keys
           /\ Wiped(s, k).ctr = s.ctr
           /\ Wiped(s, k).reseed_countdown = s.reseed_countdown
           /\ Wiped(s, k).rand_bytes_remaining = s.rand_bytes_remaining
           /\ \A i \in Index : Wiped(s, k).pool[i] =
                  IF Src(s) <= i /\ i < Src(s) + k THEN Zero ELSE s.pool[i]
    BY DEF Wiped, Struct

LEMMA AdvancedFields ==
    ASSUME NEW s \in Struct, NEW k \in Nat
    PROVE  /\ Advanced(s, k).keys = s.keys
           /\ Advanced(s, k).ctr = s.ctr
           /\ Advanced(s, k).pool = s.pool
           /\ Advanced(s, k).reseed_countdown = s.reseed_countdown
           /\ Advanced(s, k).rand_bytes_remaining = s.rand_bytes_remaining - k
    BY DEF Advanced, Struct

-----------------------------------------------------------------------------
(* The bytes of a refill, and of a copy.                                   *)

\* What a refill makes is keystream of its keys, from before its counter.
LEMMA KeyByteType ==
    ASSUME NEW s \in Struct, NumBlocks <= s.ctr, NEW i \in Index
    PROVE  /\ KeyByte(s, i) \in Byte
           /\ KeyByte(s, i).seed = s.keys
           /\ KeyByte(s, i).ctr < s.ctr
           /\ s.keys # 0 => KeyByte(s, i) # Zero
    BY BlocksType, IndexType DEF KeyByte, Out, Byte, Struct, Zero

\* A refill puts no byte into the pool twice.
LEMMA KeyByteUnique ==
    ASSUME NEW s \in Struct, NEW i \in Index, NEW j \in Index,
           KeyByte(s, i) = KeyByte(s, j)
    PROVE  i = j
<1>1. i \div BlockSize = j \div BlockSize
    BY BlocksType, IndexType DEF KeyByte, Out, Struct
<1>2. i % BlockSize = j % BlockSize
    BY DEF KeyByte, Out
<1>. QED BY <1>1, <1>2, DivModUnique, IndexType, SizesAssumption

\* A pool is a whole number of blocks.
LEMMA BlocksFill == NumBlocks * BlockSize = PoolSize
    BY SizesAssumption, DivMod DEF NumBlocks

\* Where in the keystream of its seed a byte of the pool is.
LEMMA KeyBytePosition ==
    ASSUME NEW s \in Struct, NumBlocks <= s.ctr, NEW i \in Index
    PROVE  KeyByte(s, i).ctr * BlockSize + KeyByte(s, i).off
             = s.ctr * BlockSize + i - PoolSize
<1>. DEFINE d == i \div BlockSize
            r == i % BlockSize
<1>1. d \in Nat /\ r \in Nat /\ i = BlockSize * d + r /\ i \in Nat
    BY SizesAssumption, IndexType, DivMod
<1>2. KeyByte(s, i).ctr = s.ctr - NumBlocks + d /\ KeyByte(s, i).off = r
    BY DEF KeyByte, Out
<1>3. s.ctr \in Nat /\ NumBlocks \in Nat /\ BlockSize \in Nat
    BY BlocksType, SizesAssumption DEF Struct
<1>. HIDE DEF d, r
<1>4. (s.ctr - NumBlocks + d) * BlockSize
        = s.ctr * BlockSize - NumBlocks * BlockSize + BlockSize * d
    BY <1>1, <1>3
<1>. DEFINE whole == s.ctr * BlockSize
            before == BlockSize * d
<1>5. whole \in Nat /\ before \in Nat /\ PoolSize \in Nat
    BY <1>1, <1>3, SizesAssumption
<1>6. KeyByte(s, i).ctr * BlockSize = whole - PoolSize + before
    BY <1>2, <1>4, BlocksFill
<1>7. i = before + r
    BY <1>1
<1>8. KeyByte(s, i).ctr * BlockSize + KeyByte(s, i).off = whole - PoolSize + before + r
    BY <1>2, <1>6
<1>. HIDE DEF whole, before
<1>9. whole - PoolSize + before + r = whole + i - PoolSize
    BY <1>1, <1>5, <1>7
<1>. QED BY <1>8, <1>9 DEF whole

\* The pool after a refill.
LEMMA FilledBytes ==
    ASSUME NEW s \in Struct, NEW i \in Index
    PROVE  /\ Filled(s).pool[i] = KeyByte(Filled(s), i)
           /\ Filled(s).pool[i].seed = s.keys
           /\ Filled(s).pool[i].ctr >= s.ctr
           /\ NumBlocks <= Filled(s).ctr
<1>1. s.ctr + NumBlocks - NumBlocks = s.ctr
    BY BlocksType DEF Struct
<1>2. Filled(s).pool[i] = Out(s.keys, s.ctr + (i \div BlockSize), i % BlockSize)
    BY DEF Filled
<1>. QED BY <1>1, <1>2, BlocksType, IndexType DEF Filled, KeyByte, Out, Struct

\* Where in the pool the byte comes from that a copy makes the j-th of a caller.
Origin(s, old, j) == Src(s) + (j - Len(old)) - 1

\* The bytes that a copy appends to what a caller has, as a whole and one by one.
LEMMA AppendedBytes ==
    ASSUME NEW s \in Struct, NEW old \in Seq(Byte), NEW k \in 1 .. s.rand_bytes_remaining
    PROVE  /\ old \o Copied(s, k) \in Seq(Byte)
           /\ Len(old \o Copied(s, k)) = Len(old) + k
           /\ SubSeq(old \o Copied(s, k), Len(old) + 1, Len(old) + k) = Copied(s, k)
<1>. DEFINE c == Copied(s, k)
            new == old \o c
<1>1. k \in 0 .. s.rand_bytes_remaining /\ k \in Nat /\ s.rand_bytes_remaining \in 0 .. PoolSize
    BY SizesAssumption DEF Struct
<1>2. c \in Seq(Byte) /\ Len(c) = k /\ \A j \in 1 .. k : Src(s) + j - 1 \in Index
    BY <1>1, CopiedType
<1>3. \A j \in 1 .. k : c[j] = s.pool[Src(s) + j - 1]
    BY DEF Copied
<1>4. Src(s) \in Nat /\ Len(old) \in Nat
    BY <1>1, SizesAssumption DEF Src
<1>. HIDE DEF c
<1>5. new = old \o c
    OBVIOUS
<1>. HIDE DEF new
<1>6. new \in Seq(Byte) /\ Len(new) = Len(old) + k
    BY <1>2, <1>5, ConcatProperties
<1>7. SubSeq(new, Len(old) + 1, Len(old) + k) = c
  <2>1. SubSeq(old \o c, Len(old) + 1, Len(old) + k)
          = SubSeq(c, (Len(old) + 1) - Len(old), (Len(old) + k) - Len(old))
    BY <1>1, <1>2, <1>4, SubSeqOfConcat2
  <2>2. SubSeq(c, 1, Len(c)) = c
    BY <1>2, SubSeqFull
  <2>3. (Len(old) + 1) - Len(old) = 1 /\ (Len(old) + k) - Len(old) = Len(c)
    BY <1>1, <1>2, <1>4
  <2>. QED BY <1>5, <1>6, <2>1, <2>2, <2>3
<1>. QED BY <1>6, <1>7 DEF c, new

LEMMA KeptByte ==
    ASSUME NEW s \in Struct, NEW old \in Seq(Byte), NEW k \in 1 .. s.rand_bytes_remaining,
           NEW j \in 1 .. Len(old)
    PROVE  (old \o Copied(s, k))[j] = old[j]
<1>1. k \in 0 .. s.rand_bytes_remaining /\ k \in Nat
    BY SizesAssumption DEF Struct
<1>2. Copied(s, k) \in Seq(Byte)
    BY <1>1, CopiedType
<1>. QED BY <1>2

LEMMA AppendedByte ==
    ASSUME NEW s \in Struct, NEW old \in Seq(Byte), NEW k \in 1 .. s.rand_bytes_remaining,
           NEW j \in Len(old) + 1 .. Len(old) + k
    PROVE  /\ Origin(s, old, j) \in Index
           /\ Src(s) <= Origin(s, old, j)
           /\ Origin(s, old, j) < Src(s) + k
           /\ j = Len(old) + 1 + (Origin(s, old, j) - Src(s))
           /\ (old \o Copied(s, k))[j] = s.pool[Origin(s, old, j)]
<1>. DEFINE c == Copied(s, k)
            new == old \o c
<1>1. k \in 0 .. s.rand_bytes_remaining /\ k \in Nat /\ s.rand_bytes_remaining \in 0 .. PoolSize
    BY SizesAssumption DEF Struct
<1>2. c \in Seq(Byte) /\ Len(c) = k /\ \A i \in 1 .. k : Src(s) + i - 1 \in Index
    BY <1>1, CopiedType
<1>3. \A i \in 1 .. k : c[i] = s.pool[Src(s) + i - 1]
    BY DEF Copied
<1>4. Src(s) \in Nat /\ Len(old) \in Nat
    BY <1>1, SizesAssumption DEF Src
<1>. HIDE DEF c
<1>5. new = old \o c
    OBVIOUS
<1>. HIDE DEF new
<1>7. j \in Nat /\ j - Len(old) \in 1 .. k /\ new[j] = c[j - Len(old)]
  <2>1. j \in Nat /\ j - Len(old) \in 1 .. k /\ j > Len(old) /\ j \in 1 .. Len(old) + Len(c)
    BY <1>1, <1>2, <1>4
  <2>. QED BY <1>2, <1>5, <2>1, ConcatProperties
<1>. DEFINE h == j - Len(old)
<1>8. h \in Nat /\ 1 <= h /\ h <= k /\ j = Len(old) + h /\ h \in 1 .. k
    BY <1>1, <1>4, <1>7
<1>9. Origin(s, old, j) = Src(s) + h - 1
    BY DEF Origin
<1>10. new[j] = c[h]
    BY <1>7
<1>. HIDE DEF h
<1>11. Src(s) + h - 1 \in Index /\ new[j] = s.pool[Src(s) + h - 1]
    BY <1>2, <1>3, <1>8, <1>10
<1>12. /\ Src(s) <= Src(s) + h - 1
       /\ Src(s) + h - 1 < Src(s) + k
       /\ j = Len(old) + 1 + ((Src(s) + h - 1) - Src(s))
    BY <1>1, <1>4, <1>8
<1>. QED BY <1>9, <1>11, <1>12 DEF c, new
-----------------------------------------------------------------------------
(* Structures between the steps of the loop.                               *)

LEMMA ZeroPageShaped == Shaped(ZeroPage) /\ Src(ZeroPage) = PoolSize
    BY SizesAssumption DEF Shaped, Src, ZeroPage, Index

\* A byte that is left in a pool names the keys of the pool and a block that the
\* counter has passed, and is in no other place of the pool.
LEMMA ShapedByte ==
    ASSUME NEW s \in Struct, Shaped(s), NEW i \in Index, i >= Src(s)
    PROVE  /\ s.rand_bytes_remaining > 0
           /\ s.pool[i].seed = s.keys
           /\ s.pool[i].ctr < s.ctr
           /\ s.keys # 0 => s.pool[i] # Zero
           /\ \A j \in Index : j >= Src(s) /\ s.pool[j] = s.pool[i] => j = i
<1>1. s.rand_bytes_remaining \in 0 .. PoolSize /\ i \in Nat /\ i < PoolSize
    BY SizesAssumption DEF Struct, Index
<1>2. s.rand_bytes_remaining > 0 /\ Src(s) \in Nat
    BY <1>1, SizesAssumption DEF Src
<1>3. NumBlocks <= s.ctr
    BY <1>2 DEF Shaped
<1>4. ASSUME NEW j \in Index, j >= Src(s) PROVE s.pool[j] = KeyByte(s, j)
  <2>1. ~(j < Src(s))
    BY <1>2, <1>4 DEF Index
  <2>. QED BY <2>1 DEF Shaped
<1>5. s.pool[i] = KeyByte(s, i)
    BY <1>4
<1>6. /\ KeyByte(s, i).seed = s.keys /\ KeyByte(s, i).ctr < s.ctr
      /\ s.keys # 0 => KeyByte(s, i) # Zero
    BY <1>3, KeyByteType
<1>7. ASSUME NEW j \in Index, j >= Src(s), s.pool[j] = s.pool[i] PROVE j = i
    BY <1>4, <1>5, <1>7, KeyByteUnique
<1>. QED BY <1>2, <1>5, <1>6, <1>7

\* Filled(s), read off.
LEMMA FilledFields ==
    ASSUME NEW s \in Struct
    PROVE  /\ Filled(s).keys = s.keys /\ Src(Filled(s)) = 0
           /\ s.ctr <= Filled(s).ctr /\ NumBlocks <= Filled(s).ctr
           /\ Filled(s).rand_bytes_remaining > 0
           /\ \A i \in Index : /\ Filled(s).pool[i] = KeyByte(Filled(s), i)
                              /\ Filled(s).pool[i].seed = s.keys
                              /\ s.ctr <= Filled(s).pool[i].ctr
<1>1. Filled(s).keys = s.keys /\ Filled(s).ctr = s.ctr + NumBlocks
      /\ Filled(s).rand_bytes_remaining = PoolSize /\ s.ctr \in Nat
    BY DEF Filled, Struct
<1>2. /\ s.ctr <= Filled(s).ctr /\ NumBlocks <= Filled(s).ctr /\ Src(Filled(s)) = 0
      /\ Filled(s).rand_bytes_remaining > 0
    BY <1>1, BlocksType, SizesAssumption DEF Src
<1>3. ASSUME NEW i \in Index
      PROVE  /\ Filled(s).pool[i] = KeyByte(Filled(s), i)
             /\ Filled(s).pool[i].seed = s.keys
             /\ s.ctr <= Filled(s).pool[i].ctr
  <2>1. Filled(s).pool[i] = Out(s.keys, s.ctr + (i \div BlockSize), i % BlockSize)
    BY DEF Filled
  <2>2. s.ctr <= s.ctr + (i \div BlockSize)
    BY <1>1, IndexType
  <2>. QED BY <2>1, <2>2, FilledBytes DEF Out
<1>. QED BY <1>1, <1>2, <1>3

\* A structure after explicit_bzero and the counters: its zeroed prefix has grown.
LEMMA AdvancedShape ==
    ASSUME NEW s \in Struct, Shaped(s), NEW k \in Nat, k \in 0 .. s.rand_bytes_remaining
    PROVE  /\ Advanced(Wiped(s, k), k) \in Struct
           /\ Advanced(Wiped(s, k), k).keys = s.keys
           /\ Advanced(Wiped(s, k), k).ctr = s.ctr
           /\ Src(Advanced(Wiped(s, k), k)) = Src(s) + k
           /\ Shaped(Advanced(Wiped(s, k), k))
           /\ \A i \in Index : i >= Src(s) + k =>
                 Advanced(Wiped(s, k), k).pool[i] = s.pool[i]
<1>. DEFINE w == Wiped(s, k)
            new == Advanced(w, k)
<1>1. /\ w \in Struct /\ w.keys = s.keys /\ w.ctr = s.ctr
      /\ w.rand_bytes_remaining = s.rand_bytes_remaining
      /\ \A i \in Index : w.pool[i] = IF Src(s) <= i /\ i < Src(s) + k THEN Zero ELSE s.pool[i]
    BY WipedType, WipedFields
<1>. HIDE DEF w
<1>2. /\ new \in Struct /\ new.keys = s.keys /\ new.ctr = s.ctr /\ new.pool = w.pool
      /\ new.rand_bytes_remaining = s.rand_bytes_remaining - k
    BY <1>1, AdvancedType, AdvancedFields
<1>. HIDE DEF new
<1>3. s.rand_bytes_remaining \in 0 .. PoolSize /\ Src(s) \in Nat
    BY SizesAssumption DEF Struct, Src
<1>4. Src(new) = Src(s) + k
    BY <1>2, <1>3, SizesAssumption DEF Src
<1>5. ASSUME NEW i \in Index
      PROVE  new.pool[i] = IF i < Src(new) THEN Zero ELSE KeyByte(new, i)
  <2>1. KeyByte(new, i) = KeyByte(s, i)
    BY <1>2 DEF KeyByte
  <2>2. s.pool[i] = IF i < Src(s) THEN Zero ELSE KeyByte(s, i)
    BY DEF Shaped
  <2>3. i \in Nat
    BY IndexType
  <2>. QED BY <1>1, <1>2, <1>3, <1>4, <2>1, <2>2, <2>3
<1>6. new.rand_bytes_remaining > 0 => NumBlocks <= new.ctr
    BY <1>2, <1>3 DEF Shaped
<1>7. Shaped(new)
    BY <1>5, <1>6 DEF Shaped
<1>8. ASSUME NEW i \in Index, i >= Src(s) + k PROVE new.pool[i] = s.pool[i]
  <2>1. i \in Nat /\ ~(i < Src(s) + k)
    BY <1>3, <1>8, IndexType
  <2>. QED BY <1>1, <1>2, <2>1
<1>. QED BY <1>2, <1>4, <1>7, <1>8 DEF new, w
=============================================================================
