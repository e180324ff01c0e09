--------------------------- MODULE RandpPoolProofs ---------------------------
(***************************************************************************)
(* Proofs about RandpPool, for every tree of processes, pool size, block   *)
(* size, reseed interval and request size.                                 *)
(*                                                                         *)
(* The invariants that matter, NoRepeat, KeystreamOrder, Zeroized and      *)
(* Unshared, and the refinement of RandomSource all follow from one        *)
(* inductive invariant, IInv of RandpPool.  It is proved a conjunct at a   *)
(* time, each for every action: TypeStep, KeysStep, LogStep, PoolStep,     *)
(* NoRepeatStep, OrderStep, KeystreamStep.                                 *)
(***************************************************************************)
EXTENDS RandpPool, RandpStructProofs

-----------------------------------------------------------------------------
(* Types, and what is known at each label.                                 *)

LEMMA TypeInit == Init => TypeOK /\ ControlInv
<1>. SUFFICES ASSUME Init PROVE TypeOK /\ ControlInv
    OBVIOUS
<1>1. TypeOK
    BY ZeroPageType, SizesAssumption, CallersAssumption DEF Init, TypeOK, Labels
<1>2. ControlInv
    BY DEF Init, ControlInv, ZeroPage
<1>. QED BY <1>1, <1>2

LEMMA TypeStep == TypeOK /\ ControlInv /\ [Next]_vars => TypeOK' /\ ControlInv'
<1>. SUFFICES ASSUME TypeOK, ControlInv, [Next]_vars PROVE TypeOK' /\ ControlInv'
    OBVIOUS
<1>1. ASSUME NEW p \in Proc, NEW k \in RequestSize, Call(p, k)
      PROVE  TypeOK' /\ ControlInv'
    BY <1>1, CallersAssumption DEF Call, Goto, TypeOK, ControlInv, Labels
<1>2. ASSUME NEW p \in Proc, Return(p)
      PROVE  TypeOK' /\ ControlInv'
    BY <1>2 DEF Return, Goto, TypeOK, ControlInv, Labels
<1>3. ASSUME NEW p \in Proc, Test(p)
      PROVE  TypeOK' /\ ControlInv'
  <2>1. TypeOK'
    BY <1>3 DEF Test, Goto, TypeOK, Labels
  <2>2. st[p].rand_bytes_remaining \in 0 .. PoolSize
    BY DEF TypeOK, Struct
  <2>3. ControlInv'
    BY <1>3, <2>2, SizesAssumption DEF Test, Goto, TypeOK, ControlInv
  <2>. QED BY <2>1, <2>3
<1>4. ASSUME NEW p \in Proc, Reseed(p)
      PROVE  TypeOK' /\ ControlInv'
  <2>1. Reseeded(st[p], seeds + 1) \in Struct
    BY ReseededType DEF TypeOK
  <2>2. TypeOK'
    BY <1>4, <2>1, CallersAssumption DEF Reseed, Goto, TypeOK, Labels
  <2>3. ControlInv'
    BY <1>4, SizesAssumption DEF Reseed, Goto, TypeOK, ControlInv, Reseeded
  <2>. QED BY <2>2, <2>3
<1>5. ASSUME NEW p \in Proc, ReseedFails(p)
      PROVE  TypeOK' /\ ControlInv'
    BY <1>5 DEF ReseedFails, Goto, TypeOK, ControlInv, Labels
<1>6. ASSUME NEW p \in Proc, Fill(p)
      PROVE  TypeOK' /\ ControlInv'
  <2>1. st[p] \in Struct /\ st[p].reseed_countdown > 0
    BY <1>6 DEF Fill, TypeOK, ControlInv, Struct
  <2>2. Filled(st[p]) \in Struct
    BY <2>1, FilledType
  <2>3. TypeOK'
    BY <1>6, <2>2 DEF Fill, Goto, TypeOK, Labels
  <2>4. ControlInv'
    BY <1>6, SizesAssumption DEF Fill, Goto, TypeOK, ControlInv, Filled
  <2>. QED BY <2>3, <2>4
<1>7. ASSUME NEW p \in Proc, Copy(p)
      PROVE  TypeOK' /\ ControlInv'
  <2>. DEFINE k == Chunk(st[p], n[p])
  <2>0. st[p] \in Struct /\ n[p] \in Nat
    BY DEF TypeOK
  <2>1. k \in 0 .. st[p].rand_bytes_remaining /\ k \in 0 .. PoolSize
    BY <2>0, ChunkType
  <2>2. Copied(st[p], k) \in Seq(Byte)
    BY <2>1, CopiedType DEF TypeOK
  <2>3. log[p] \o Copied(st[p], k) \in Seq(Byte)
    BY <2>2 DEF TypeOK
  <2>4. TypeOK'
    BY <1>7, <2>1, <2>3 DEF Copy, Goto, TypeOK, Labels
  <2>5. ControlInv'
    BY <1>7 DEF Copy, Goto, TypeOK, ControlInv
  <2>. QED BY <2>4, <2>5
<1>8. ASSUME NEW p \in Proc, Wipe(p)
      PROVE  TypeOK' /\ ControlInv'
  <2>1. Wiped(st[p], m[p]) \in Struct
    BY WipedType, SizesAssumption DEF TypeOK
  <2>2. Wiped(st[p], m[p]).rand_bytes_remaining = st[p].rand_bytes_remaining
    BY DEF Wiped, TypeOK, Struct
  <2>3. TypeOK'
    BY <1>8, <2>1 DEF Wipe, Goto, TypeOK, Labels
  <2>4. ControlInv'
    BY <1>8, <2>2 DEF Wipe, Goto, TypeOK, ControlInv, Chunk
  <2>. QED BY <2>3, <2>4
<1>9. ASSUME NEW p \in Proc, Advance(p)
      PROVE  TypeOK' /\ ControlInv'
  <2>0. st[p] \in Struct /\ n[p] \in Nat /\ m[p] = Chunk(st[p], n[p])
    BY <1>9 DEF Advance, TypeOK, ControlInv
  <2>1. m[p] \in 0 .. st[p].rand_bytes_remaining /\ n[p] - m[p] \in Nat
    BY <2>0, ChunkType
  <2>2. Advanced(st[p], m[p]) \in Struct
    BY <2>1, AdvancedType DEF TypeOK
  <2>3. TypeOK'
    BY <1>9, <2>1, <2>2 DEF Advance, Goto, TypeOK, Labels
  <2>4. ControlInv'
    BY <1>9, <2>1 DEF Advance, Goto, TypeOK, ControlInv
  <2>. QED BY <2>3, <2>4
<1>10. ASSUME NEW p \in Proc, NEW q \in Proc, Fork(p, q)
       PROVE  TypeOK' /\ ControlInv'
  <2>1. TypeOK'
    BY <1>10, ZeroPageType DEF Fork, ForkImage, Goto, TypeOK, Labels
  <2>2. ControlInv'
    BY <1>10 DEF Fork, ForkImage, ZeroPage, Goto, TypeOK, ControlInv
  <2>. QED BY <2>1, <2>2
<1>11. CASE UNCHANGED vars
    BY <1>11 DEF vars, TypeOK, ControlInv, Chunk
<1>. QED
    BY <1>1, <1>2, <1>3, <1>4, <1>5, <1>6, <1>7, <1>8, <1>9, <1>10, <1>11 DEF Next, Step

\* Every variable keeps its type, for all sizes: in particular the two counters
\* never go below zero or above their maximum.
THEOREM TypeCorrect == Spec => []TypeOK
<1>1. Spec => [](TypeOK /\ ControlInv)
    BY TypeInit, TypeStep, PTL DEF Spec
<1>. QED BY <1>1, PTL

-----------------------------------------------------------------------------
(* The inductive invariant, one conjunct at a time.                        *)

\* Keys are drawn from getentropy and never copied.
LEMMA KeysStep ==
    TypeOK /\ ControlInv /\ KeysInv /\ [Next]_vars => KeysInv'
<1>. SUFFICES ASSUME TypeOK, ControlInv, KeysInv, [Next]_vars PROVE KeysInv'
    OBVIOUS
<1>1. ASSUME NEW p \in Proc, NEW k \in RequestSize, Call(p, k) PROVE KeysInv'
    BY <1>1 DEF Call, KeysInv
<1>2. ASSUME NEW p \in Proc, Return(p) PROVE KeysInv'
    BY <1>2 DEF Return, KeysInv
<1>3. ASSUME NEW p \in Proc, Test(p) PROVE KeysInv'
    BY <1>3 DEF Test, KeysInv
<1>4. ASSUME NEW p \in Proc, Reseed(p) PROVE KeysInv'
  <2>1. st'[p].keys = seeds + 1
    BY <1>4 DEF Reseed, Reseeded, TypeOK
  <2>2. seeds' = seeds + 1 /\ \A q \in Proc \ {p} : st'[q] = st[q]
    BY <1>4 DEF Reseed, TypeOK
  <2>3. seeds \in Nat /\ \A q \in Proc : st[q].keys \in Nat
    BY CallersAssumption DEF TypeOK, Struct
  <2>. QED BY <2>1, <2>2, <2>3 DEF KeysInv
<1>5. ASSUME NEW p \in Proc, ReseedFails(p) PROVE KeysInv'
    BY <1>5 DEF ReseedFails, KeysInv
<1>6. ASSUME NEW p \in Proc, Fill(p) PROVE KeysInv'
  <2>1. st'[p].keys = st[p].keys /\ \A q \in Proc \ {p} : st'[q] = st[q]
    BY <1>6 DEF Fill, Filled, TypeOK
  <2>2. st[p].reseed_countdown # 0 /\ seeds' = seeds
    BY <1>6 DEF Fill, ControlInv
  <2>. QED BY <2>1, <2>2 DEF KeysInv
<1>7. ASSUME NEW p \in Proc, Copy(p) PROVE KeysInv'
    BY <1>7 DEF Copy, KeysInv
<1>8. ASSUME NEW p \in Proc, Wipe(p) PROVE KeysInv'
  <2>1. st[p] \in Struct /\ m[p] \in Nat
    BY SizesAssumption DEF TypeOK
  <2>2. st' = [st EXCEPT ![p] = Wiped(st[p], m[p])] /\ seeds' = seeds
    BY <1>8 DEF Wipe
  <2>. QED BY <2>1, <2>2, WipedFields DEF KeysInv, TypeOK
<1>9. ASSUME NEW p \in Proc, Advance(p) PROVE KeysInv'
  <2>1. st[p] \in Struct /\ m[p] \in Nat
    BY SizesAssumption DEF TypeOK
  <2>2. st' = [st EXCEPT ![p] = Advanced(st[p], m[p])] /\ seeds' = seeds
    BY <1>9 DEF Advance
  <2>3. st[p].keys # 0
    BY <1>9 DEF Advance, ControlInv, KeysInv
  <2>. QED BY <2>1, <2>2, <2>3, AdvancedFields DEF KeysInv, TypeOK
<1>10. ASSUME NEW p \in Proc, NEW q \in Proc, Fork(p, q) PROVE KeysInv'
  <2>1. st' = [st EXCEPT ![q] = ZeroPage] /\ seeds' = seeds
    BY <1>10 DEF Fork, ForkImage
  <2>2. seeds \in Nat
    BY DEF TypeOK
  <2>. QED BY <2>1, <2>2 DEF KeysInv, ZeroPage, TypeOK
<1>11. CASE UNCHANGED vars
    BY <1>11 DEF vars, KeysInv
<1>. QED
    BY <1>1, <1>2, <1>3, <1>4, <1>5, <1>6, <1>7, <1>8, <1>9, <1>10, <1>11 DEF Next, Step

\* What Copy appends, byte by byte.
LEMMA CopyEffect ==
    ASSUME TypeOK, ControlInv, NEW p \in Proc, Copy(p)
    PROVE  /\ m'[p] = Chunk(st[p], n[p])
           /\ m'[p] \in 1 .. st[p].rand_bytes_remaining
           /\ \A q \in Proc \ {p} : log'[q] = log[q]
           /\ Len(log'[p]) = Len(log[p]) + m'[p]
           /\ \A j \in DOMAIN log'[p] :
                 \/ j \in DOMAIN log[p] /\ log'[p][j] = log[p][j]
                 \/ \E i \in Index : /\ Src(st[p]) <= i
                                     /\ i < Src(st[p]) + m'[p]
                                     /\ j = Len(log[p]) + 1 + (i - Src(st[p]))
                                     /\ log'[p][j] = st[p].pool[i]
<1>. DEFINE k == Chunk(st[p], n[p])
<1>1. st[p] \in Struct /\ n[p] \in Nat /\ log[p] \in Seq(Byte)
    BY DEF TypeOK
<1>2. k \in 1 .. st[p].rand_bytes_remaining
  <2>1. n[p] > 0 /\ st[p].rand_bytes_remaining > 0
    BY DEF Copy, ControlInv
  <2>. QED BY <1>1, <2>1, ChunkType
<1>3. m'[p] = k /\ log'[p] = log[p] \o Copied(st[p], k)
      /\ \A q \in Proc \ {p} : log'[q] = log[q]
    BY DEF Copy, TypeOK
<1>4. k = Chunk(st[p], n[p])
    OBVIOUS
<1>. HIDE DEF k
<1>5. Len(log'[p]) = Len(log[p]) + k
    BY <1>1, <1>2, <1>3, AppendedBytes, ZenonT(30)
<1>6. ASSUME NEW j \in 1 .. Len(log[p]) PROVE log'[p][j] = log[p][j]
  <2>1. (log[p] \o Copied(st[p], k))[j] = log[p][j]
    BY <1>1, <1>2, KeptByte
  <2>. QED BY <1>3, <2>1
<1>7. ASSUME NEW j \in Len(log[p]) + 1 .. Len(log[p]) + k
      PROVE  \E i \in Index : /\ Src(st[p]) <= i
                              /\ i < Src(st[p]) + k
                              /\ j = Len(log[p]) + 1 + (i - Src(st[p]))
                              /\ log'[p][j] = st[p].pool[i]
  <2>. DEFINE i == Origin(st[p], log[p], j)
  <2>1. /\ i \in Index /\ Src(st[p]) <= i /\ i < Src(st[p]) + k
        /\ j = Len(log[p]) + 1 + (i - Src(st[p]))
        /\ (log[p] \o Copied(st[p], k))[j] = st[p].pool[i]
    BY <1>1, <1>2, AppendedByte
  <2>. QED BY <1>3, <2>1
<1>8. DOMAIN log'[p] = 1 .. Len(log[p]) + k /\ DOMAIN log[p] = 1 .. Len(log[p])
  <2>1. log[p] \o Copied(st[p], k) \in Seq(Byte)
    BY <1>1, <1>2, AppendedBytes
  <2>2. log'[p] \in Seq(Byte)
    BY <1>3, <2>1
  <2>. QED BY <1>1, <1>5, <2>2
<1>9. ASSUME NEW j \in DOMAIN log'[p]
      PROVE  j \in 1 .. Len(log[p]) \/ j \in Len(log[p]) + 1 .. Len(log[p]) + k
  <2>1. k \in Nat /\ Len(log[p]) \in Nat
    BY <1>1, <1>2
  <2>. QED BY <1>8, <2>1
<1>10. k \in 1 .. st[p].rand_bytes_remaining /\ m'[p] = k /\ k = Chunk(st[p], n[p])
    BY <1>2, <1>3, <1>4
<1>11. \A q \in Proc \ {p} : log'[q] = log[q]
    BY <1>3
<1>. QED BY <1>5, <1>6, <1>7, <1>8, <1>9, <1>10, <1>11, Zenon

\* A step other than Copy delivers nothing.
LEMMA LogKept ==
    ASSUME [Next]_vars, \A p \in Proc : ~Copy(p)
    PROVE  log' = log
    BY DEF Next, Step, vars, Call, Return, Test, Reseed, ReseedFails, Fill,
           Wipe, Advance, Fork

\* Where the zeroed prefix and the delivered prefix of a pool end.
LEMMA Prefixes ==
    ASSUME TypeOK, NEW p \in Proc
    PROVE  /\ st[p] \in Struct
           /\ st[p].rand_bytes_remaining \in Nat
           /\ m[p] \in Nat
           /\ Src(st[p]) \in Nat
           /\ Src(st[p]) = PoolSize - st[p].rand_bytes_remaining
           /\ CleanTo(p) \in Nat
           /\ CleanTo(p) = IF pc[p] = "advance" THEN Src(st[p]) + m[p] ELSE Src(st[p])
           /\ ReadTo(p) \in Nat
           /\ ReadTo(p) = IF pc[p] \in {"wipe", "advance"} THEN Src(st[p]) + m[p]
                                                           ELSE Src(st[p])
           /\ Src(st[p]) <= CleanTo(p)
           /\ CleanTo(p) <= ReadTo(p)
<1>1. st[p] \in Struct /\ m[p] \in Nat
    BY SizesAssumption DEF TypeOK
<1>2. st[p].rand_bytes_remaining \in 0 .. PoolSize
    BY <1>1 DEF Struct
<1>3. Src(st[p]) \in Nat /\ Src(st[p]) = PoolSize - st[p].rand_bytes_remaining
    BY <1>2, SizesAssumption DEF Src
<1>. QED BY <1>1, <1>2, <1>3 DEF CleanTo, ReadTo

\* The bytes still in the pool are bytes of the last NumBlocks blocks, and all
\* different.
LEMMA PoolBytes ==
    ASSUME TypeOK, ControlInv, KeysInv, PoolInv, NEW p \in Proc,
           NEW i \in Index, i >= CleanTo(p)
    PROVE  /\ st[p].pool[i].seed = st[p].keys
           /\ st[p].keys \in 1 .. seeds
           /\ st[p].pool[i].ctr < st[p].ctr
           /\ \A j \in Index : j >= CleanTo(p) /\ st[p].pool[j] = st[p].pool[i] => i = j
<1>1. st[p] \in Struct /\ seeds \in Nat /\ st[p].rand_bytes_remaining > 0
  <2>1. st[p] \in Struct /\ seeds \in Nat
    BY CallersAssumption DEF TypeOK
  <2>. QED BY <2>1, Prefixes, SizesAssumption DEF Index
<1>2. NumBlocks <= st[p].ctr
    BY <1>1 DEF PoolInv
<1>3. st[p].keys \in 1 .. seeds
    BY <1>1 DEF KeysInv, Struct
<1>4. ASSUME NEW j \in Index, j >= CleanTo(p) PROVE st[p].pool[j] = KeyByte(st[p], j)
    BY <1>4 DEF PoolInv, KeyByte
<1>5. ASSUME NEW j \in Index, j >= CleanTo(p), st[p].pool[j] = st[p].pool[i] PROVE i = j
    BY <1>1, <1>4, <1>5, KeyByteUnique
<1>. QED BY <1>1, <1>2, <1>3, <1>4, <1>5, KeyByteType

\* Whatever was delivered under the keys of p lies before its counter.
LEMMA LogStep ==
    TypeOK /\ ControlInv /\ KeysInv /\ LogInv /\ PoolInv /\ [Next]_vars => LogInv'
<1>. SUFFICES ASSUME TypeOK, ControlInv, KeysInv, LogInv, PoolInv, [Next]_vars
              PROVE  LogInv'
    OBVIOUS
<1>. DEFINE Kept == /\ log' = log
                   /\ seeds' >= seeds /\ seeds' \in Nat
                   /\ \A q \in Proc :
                        \/ /\ st'[q].keys = st[q].keys
                           /\ st'[q].ctr >= st[q].ctr /\ st'[q].ctr \in Nat
                        \/ st'[q].keys \notin 1 .. seeds
<1>0. /\ seeds \in Nat
      /\ \A q \in Proc : /\ st[q] \in Struct /\ st[q].ctr \in Nat
                         /\ st[q].keys \in Nat /\ m[q] \in Nat
      /\ \A q \in Proc : \A j \in DOMAIN log[q] : log[q][j] \in Byte
  <2>1. seeds \in Nat
    BY CallersAssumption DEF TypeOK
  <2>2. \A q \in Proc : /\ st[q] \in Struct /\ st[q].ctr \in Nat
                        /\ st[q].keys \in Nat /\ m[q] \in Nat
    BY Prefixes DEF TypeOK, Struct
  <2>3. ASSUME NEW q \in Proc, NEW j \in DOMAIN log[q]
        PROVE  log[q][j] \in Byte
    BY <2>3 DEF TypeOK
  <2>. QED BY <2>1, <2>2, <2>3
<1>1. ASSUME Kept PROVE LogInv'
  <2>1. SUFFICES ASSUME NEW q \in Proc, NEW j \in DOMAIN log[q]
                 PROVE  /\ log[q][j].seed \in 1 .. seeds'
                        /\ \A p \in Proc : log[q][j].seed = st'[p].keys =>
                              p = q /\ log[q][j].ctr < st'[p].ctr
    BY <1>1 DEF LogInv
  <2>2. log[q][j].seed \in 1 .. seeds /\ log[q][j].ctr \in Nat
    BY <1>0 DEF LogInv, Byte
  <2>3. ASSUME NEW p \in Proc, log[q][j].seed = st'[p].keys
        PROVE  p = q /\ log[q][j].ctr < st'[p].ctr
    <3>1. st'[p].keys = st[p].keys /\ st'[p].ctr >= st[p].ctr /\ st'[p].ctr \in Nat
      BY <1>1, <2>2, <2>3
    <3>2. p = q /\ log[q][j].ctr < st[p].ctr
      BY <2>3, <3>1 DEF LogInv
    <3>. QED BY <1>0, <2>2, <3>1, <3>2
  <2>. QED BY <1>0, <1>1, <2>2, <2>3
<1>2. ASSUME NEW p \in Proc, NEW k \in RequestSize, Call(p, k) PROVE LogInv'
    BY <1>0, <1>1, <1>2 DEF Call
<1>3. ASSUME NEW p \in Proc, Return(p) \/ Test(p) \/ ReseedFails(p) PROVE LogInv'
    BY <1>0, <1>1, <1>3 DEF Return, Test, ReseedFails
<1>4. ASSUME NEW p \in Proc, Reseed(p) PROVE LogInv'
  <2>1. st'[p].keys = seeds + 1 /\ \A q \in Proc \ {p} : st'[q] = st[q]
    BY <1>4 DEF Reseed, Reseeded, TypeOK
  <2>2. log' = log /\ seeds' = seeds + 1
    BY <1>4 DEF Reseed
  <2>. QED BY <1>0, <1>1, <2>1, <2>2
<1>5. ASSUME NEW p \in Proc, Fill(p) PROVE LogInv'
  <2>1. st'[p].keys = st[p].keys /\ st'[p].ctr = st[p].ctr + NumBlocks
    BY <1>5 DEF Fill, Filled, TypeOK
  <2>2. log' = log /\ seeds' = seeds /\ \A q \in Proc \ {p} : st'[q] = st[q]
    BY <1>5 DEF Fill, TypeOK
  <2>. QED BY <1>0, <1>1, <2>1, <2>2, BlocksType
<1>6. ASSUME NEW p \in Proc, Copy(p) PROVE LogInv'
  <2>1. st' = st /\ seeds' = seeds /\ \A q \in Proc \ {p} : log'[q] = log[q]
    BY <1>6, CopyEffect DEF Copy
  <2>2. ASSUME NEW j \in DOMAIN log'[p]
        PROVE  /\ log'[p][j].seed \in 1 .. seeds
               /\ \A q \in Proc : log'[p][j].seed = st[q].keys =>
                      q = p /\ log'[p][j].ctr < st[q].ctr
    <3>1. CASE j \in DOMAIN log[p] /\ log'[p][j] = log[p][j]
      BY <3>1 DEF LogInv
    <3>2. CASE \E i \in Index : /\ Src(st[p]) <= i
                               /\ log'[p][j] = st[p].pool[i]
      <4>1. PICK i \in Index : Src(st[p]) <= i /\ log'[p][j] = st[p].pool[i]
        BY <3>2
      <4>2. i >= CleanTo(p)
        BY <1>6, <4>1, Prefixes DEF Copy
      <4>3. /\ log'[p][j].seed = st[p].keys /\ st[p].keys \in 1 .. seeds
            /\ log'[p][j].ctr < st[p].ctr
        BY <4>1, <4>2, PoolBytes
      <4>. QED BY <4>3 DEF KeysInv
    <3>. QED BY <1>6, <3>1, <3>2, CopyEffect
  <2>. QED BY <2>1, <2>2 DEF LogInv
<1>7. ASSUME NEW p \in Proc, Wipe(p) PROVE LogInv'
  <2>1. st' = [st EXCEPT ![p] = Wiped(st[p], m[p])] /\ log' = log /\ seeds' = seeds
    BY <1>7 DEF Wipe
  <2>. QED BY <1>0, <1>1, <2>1, WipedFields DEF TypeOK
<1>8. ASSUME NEW p \in Proc, Advance(p) PROVE LogInv'
  <2>1. st' = [st EXCEPT ![p] = Advanced(st[p], m[p])] /\ log' = log /\ seeds' = seeds
    BY <1>8 DEF Advance
  <2>. QED BY <1>0, <1>1, <2>1, AdvancedFields DEF TypeOK
<1>9. ASSUME NEW p \in Proc, NEW q \in Proc, Fork(p, q) PROVE LogInv'
  <2>1. st' = [st EXCEPT ![q] = ZeroPage] /\ log' = log /\ seeds' = seeds
    BY <1>9 DEF Fork, ForkImage
  <2>. QED BY <1>0, <1>1, <2>1 DEF TypeOK, ZeroPage
<1>10. CASE UNCHANGED vars
    BY <1>0, <1>1, <1>10 DEF vars
<1>. QED
    BY <1>2, <1>3, <1>4, <1>5, <1>6, <1>7, <1>8, <1>9, <1>10 DEF Next, Step

\* The pool is a zeroed prefix and then keystream, undelivered from ReadTo on.
LEMMA PoolStep ==
    TypeOK /\ ControlInv /\ KeysInv /\ LogInv /\ PoolInv /\ [Next]_vars => PoolInv'
<1>. SUFFICES ASSUME TypeOK, ControlInv, KeysInv, LogInv, PoolInv, [Next]_vars
              PROVE  PoolInv'
    OBVIOUS
<1>. DEFINE Ok(p) ==
        /\ st[p].rand_bytes_remaining > 0 => NumBlocks <= st[p].ctr
        /\ \A i \in Index :
            /\ i < CleanTo(p) => st[p].pool[i] = Zero
            /\ i >= CleanTo(p) => st[p].pool[i] = KeyByte(st[p], i)
            /\ i >= ReadTo(p) => st[p].pool[i] \notin Delivered(p)
<1>0. TypeOK' /\ ControlInv' /\ \A p \in Proc : Ok(p)
    BY TypeStep DEF PoolInv
<1>1. ASSUME NEW p \in Proc, st'[p] = st[p], log'[p] = log[p],
             pc'[p] = pc[p] \/ {pc[p], pc'[p]} \cap {"wipe", "advance"} = {},
             m'[p] = m[p]
      PROVE  Ok(p)'
  <2>1. CleanTo(p)' = CleanTo(p) /\ ReadTo(p)' = ReadTo(p)
    BY <1>1 DEF CleanTo, ReadTo
  <2>. QED BY <1>0, <1>1, <2>1 DEF Delivered
<1>2. ASSUME NEW p \in Proc, Src(st'[p]) = PoolSize, pc'[p] \notin {"wipe", "advance"},
             st'[p].rand_bytes_remaining = 0, \A i \in Index : st'[p].pool[i] = Zero
      PROVE  Ok(p)'
  <2>1. CleanTo(p)' = PoolSize /\ ReadTo(p)' = PoolSize
    BY <1>2, SizesAssumption DEF CleanTo, ReadTo
  <2>. QED BY <1>2, <2>1, SizesAssumption DEF Index
<1>3. ASSUME NEW p \in Proc, NEW k \in RequestSize, Call(p, k) PROVE PoolInv'
    BY <1>1, <1>3 DEF Call, Goto, TypeOK, PoolInv
<1>4. ASSUME NEW p \in Proc, Return(p) PROVE PoolInv'
    BY <1>1, <1>4 DEF Return, Goto, TypeOK, PoolInv
<1>5. ASSUME NEW p \in Proc, Test(p) PROVE PoolInv'
    BY <1>1, <1>5 DEF Test, Goto, TypeOK, PoolInv
<1>6. ASSUME NEW p \in Proc, ReseedFails(p) PROVE PoolInv'
    BY <1>1, <1>6 DEF ReseedFails, Goto, TypeOK, PoolInv
<1>7. ASSUME NEW p \in Proc, Reseed(p) PROVE PoolInv'
  <2>1. \A q \in Proc \ {p} : Ok(q)'
    BY <1>1, <1>7 DEF Reseed, Goto, TypeOK
  <2>2. st[p].rand_bytes_remaining = 0 /\ pc[p] = "regen"
    BY <1>7 DEF Reseed, ControlInv
  <2>3. \A i \in Index : st[p].pool[i] = Zero
    <3>1. CleanTo(p) = PoolSize
      BY <2>2, Prefixes, SizesAssumption
    <3>2. \A i \in Index : i < CleanTo(p)
      BY <3>1, SizesAssumption DEF Index
    <3>. QED BY <1>0, <3>2
  <2>4. st'[p] = Reseeded(st[p], seeds + 1) /\ pc'[p] = "fill"
    BY <1>7 DEF Reseed, Goto, TypeOK
  <2>5. Ok(p)'
    BY <1>2, <2>2, <2>3, <2>4, SizesAssumption DEF Reseeded, Src
  <2>. QED BY <2>1, <2>5 DEF PoolInv
<1>8. ASSUME NEW p \in Proc, Fill(p) PROVE PoolInv'
  <2>1. \A q \in Proc \ {p} : Ok(q)'
    BY <1>1, <1>8 DEF Fill, Goto, TypeOK
  <2>2. st'[p] = Filled(st[p]) /\ pc'[p] = "copy" /\ log'[p] = log[p]
    BY <1>8 DEF Fill, Goto, TypeOK
  <2>3. CleanTo(p)' = 0 /\ ReadTo(p)' = 0
    BY <2>2, SizesAssumption DEF CleanTo, ReadTo, Src, Filled
  <2>4. /\ st'[p].keys = st[p].keys
        /\ st[p].ctr \in Nat
        /\ st'[p].ctr = st[p].ctr + NumBlocks
        /\ st'[p].ctr - NumBlocks = st[p].ctr
        /\ NumBlocks <= st'[p].ctr
    BY <2>2, BlocksType DEF Filled, TypeOK, Struct
  <2>5. ASSUME NEW i \in Index
        PROVE  /\ st'[p].pool[i] = Out(st[p].keys, st[p].ctr + (i \div BlockSize), i % BlockSize)
               /\ st'[p].pool[i] \notin Delivered(p)
    <3>1. st'[p].pool[i] = Out(st[p].keys, st[p].ctr + (i \div BlockSize), i % BlockSize)
      BY <2>2 DEF Filled
    <3>2. ASSUME NEW j \in DOMAIN log[p], log[p][j] = st'[p].pool[i] PROVE FALSE
      <4>1. log[p][j].seed = st[p].keys /\ log[p][j].ctr = st[p].ctr + (i \div BlockSize)
        BY <3>1, <3>2 DEF Out
      <4>2. log[p][j].ctr < st[p].ctr
        BY <4>1 DEF LogInv
      <4>. QED BY <2>4, <4>1, <4>2, IndexType
    <3>. QED BY <3>1, <3>2 DEF Delivered
  <2>6. \A i \in Index : i >= 0 /\ ~(i < 0)
    BY SizesAssumption DEF Index
  <2>7. Delivered(p)' = Delivered(p)
    BY <2>2 DEF Delivered
  <2>8. Ok(p)'
    BY <2>3, <2>4, <2>5, <2>6, <2>7 DEF KeyByte
  <2>. QED BY <2>1, <2>8 DEF PoolInv
<1>9. ASSUME NEW p \in Proc, Copy(p) PROVE PoolInv'
  <2>1. \A q \in Proc \ {p} : Ok(q)'
    BY <1>1, <1>9 DEF Copy, Goto, TypeOK
  <2>2. pc[p] = "copy" /\ pc'[p] = "wipe" /\ st' = st
    BY <1>9 DEF Copy, Goto, TypeOK
  <2>3. /\ CleanTo(p)' = Src(st[p]) /\ CleanTo(p) = Src(st[p])
        /\ ReadTo(p)' = Src(st[p]) + m'[p] /\ ReadTo(p) = Src(st[p])
        /\ Src(st[p]) \in Nat /\ m'[p] \in Nat
    BY <1>0, <2>2, Prefixes, SizesAssumption DEF CleanTo, ReadTo, TypeOK
  <2>4. ASSUME NEW i \in Index, i >= ReadTo(p)', NEW j \in DOMAIN log'[p],
               log'[p][j] = st[p].pool[i]
        PROVE  FALSE
    <3>1. i \in Nat /\ i >= CleanTo(p) /\ i >= ReadTo(p)
      BY <2>3, <2>4, SizesAssumption DEF Index
    <3>2. CASE j \in DOMAIN log[p] /\ log'[p][j] = log[p][j]
      <4>1. st[p].pool[i] \notin Delivered(p)
        BY <1>0, <3>1
      <4>. QED BY <2>4, <3>2, <4>1 DEF Delivered
    <3>3. CASE \E h \in Index : /\ Src(st[p]) <= h
                               /\ h < Src(st[p]) + m'[p]
                               /\ log'[p][j] = st[p].pool[h]
      <4>1. PICK h \in Index : /\ Src(st[p]) <= h
                              /\ h < Src(st[p]) + m'[p]
                              /\ log'[p][j] = st[p].pool[h]
        BY <3>3
      <4>2. h >= CleanTo(p) /\ h \in Nat
        BY <2>3, <4>1, SizesAssumption DEF Index
      <4>3. h = i
        BY <2>4, <3>1, <4>1, <4>2, PoolBytes
      <4>4. i >= Src(st[p]) + m'[p] /\ i < Src(st[p]) + m'[p]
        BY <2>3, <2>4, <4>1, <4>3
      <4>. QED BY <2>3, <3>1, <4>4
    <3>. QED BY <1>9, <3>2, <3>3, CopyEffect
  <2>5. Ok(p)'
    BY <1>0, <2>2, <2>3, <2>4 DEF Delivered
  <2>. QED BY <2>1, <2>5 DEF PoolInv
<1>10. ASSUME NEW p \in Proc, Wipe(p) PROVE PoolInv'
  <2>1. \A q \in Proc \ {p} : Ok(q)'
    BY <1>1, <1>10 DEF Wipe, Goto, TypeOK
  <2>2. /\ st'[p] = Wiped(st[p], m[p]) /\ pc[p] = "wipe" /\ pc'[p] = "advance"
        /\ m' = m /\ log' = log
    BY <1>10 DEF Wipe, Goto, TypeOK
  <2>3. /\ st'[p].keys = st[p].keys /\ st'[p].ctr = st[p].ctr
        /\ st'[p].rand_bytes_remaining = st[p].rand_bytes_remaining
        /\ \A i \in Index : st'[p].pool[i] =
              IF Src(st[p]) <= i /\ i < Src(st[p]) + m[p] THEN Zero ELSE st[p].pool[i]
    BY <2>2, Prefixes, WipedFields
  <2>4. Src(st'[p]) = Src(st[p])
    BY <2>3 DEF Src
  <2>5. /\ CleanTo(p) = Src(st[p]) /\ CleanTo(p)' = Src(st[p]) + m[p]
        /\ ReadTo(p) = Src(st[p]) + m[p] /\ ReadTo(p)' = Src(st[p]) + m[p]
        /\ Src(st[p]) \in Nat /\ m[p] \in Nat
    BY <2>2, <2>4, Prefixes DEF CleanTo, ReadTo
  <2>6. ASSUME NEW i \in Index
        PROVE  /\ i < CleanTo(p)' => st'[p].pool[i] = Zero
               /\ i >= CleanTo(p)' => i >= CleanTo(p) /\ st'[p].pool[i] = st[p].pool[i]
               /\ i >= ReadTo(p)' => i >= ReadTo(p) /\ st'[p].pool[i] = st[p].pool[i]
    <3>1. i \in Nat /\ (i < CleanTo(p) => st[p].pool[i] = Zero)
      BY <1>0, SizesAssumption DEF Index
    <3>. QED BY <2>3, <2>5, <3>1
  <2>7. Ok(p)'
    BY <1>0, <2>2, <2>3, <2>6 DEF Delivered, KeyByte
  <2>. QED BY <2>1, <2>7 DEF PoolInv
<1>11. ASSUME NEW p \in Proc, Advance(p) PROVE PoolInv'
  <2>1. \A q \in Proc \ {p} : Ok(q)'
    BY <1>1, <1>11 DEF Advance, Goto, TypeOK
  <2>2. /\ st'[p] = Advanced(st[p], m[p]) /\ pc[p] = "advance" /\ pc'[p] = "loop"
        /\ m' = m /\ log' = log
    BY <1>11 DEF Advance, Goto, TypeOK
  <2>3. /\ st'[p].keys = st[p].keys /\ st'[p].ctr = st[p].ctr /\ st'[p].pool = st[p].pool
        /\ st'[p].rand_bytes_remaining = st[p].rand_bytes_remaining - m[p]
    BY <2>2, Prefixes, AdvancedFields
  <2>4. Src(st'[p]) = Src(st[p]) + m[p]
    BY <2>3, Prefixes, SizesAssumption DEF Src
  <2>5. CleanTo(p)' = CleanTo(p) /\ ReadTo(p)' = ReadTo(p)
    BY <2>2, <2>4, Prefixes DEF CleanTo, ReadTo
  <2>6. st'[p].rand_bytes_remaining > 0 => st[p].rand_bytes_remaining > 0
    BY <2>3, Prefixes
  <2>7. Ok(p)'
    BY <1>0, <2>2, <2>3, <2>5, <2>6 DEF Delivered, KeyByte
  <2>. QED BY <2>1, <2>7 DEF PoolInv
<1>12. ASSUME NEW p \in Proc, NEW q \in Proc, Fork(p, q) PROVE PoolInv'
  <2>1. \A h \in Proc \ {q} : Ok(h)'
    BY <1>1, <1>12 DEF Fork, Goto, TypeOK
  <2>2. st'[q] = ZeroPage /\ pc'[q] = "idle"
    BY <1>12 DEF Fork, ForkImage, Goto, TypeOK
  <2>3. Ok(q)'
    BY <1>2, <2>2, SizesAssumption DEF ZeroPage, Src
  <2>. QED BY <2>1, <2>3 DEF PoolInv
<1>13. CASE UNCHANGED vars
    BY <1>1, <1>13 DEF vars, PoolInv
<1>. QED
    BY <1>3, <1>4, <1>5, <1>6, <1>7, <1>8, <1>9, <1>10, <1>11, <1>12, <1>13 DEF Next, Step

\* What Copy appends was in no log before it.
LEMMA CopyFresh ==
    ASSUME TypeOK, ControlInv, KeysInv, LogInv, PoolInv, NEW p \in Proc, Copy(p),
           NEW i \in Index, i >= Src(st[p])
    PROVE  \A q \in Proc : st[p].pool[i] \notin Delivered(q)
<1>1. CleanTo(p) = Src(st[p]) /\ ReadTo(p) = Src(st[p])
    BY Prefixes DEF Copy
<1>2. st[p].pool[i].seed = st[p].keys
    BY <1>1, PoolBytes
<1>3. st[p].pool[i] \notin Delivered(p)
    BY <1>1 DEF PoolInv
<1>4. ASSUME NEW q \in Proc, st[p].pool[i] \in Delivered(q)
      PROVE  p = q
  <2>1. PICK j \in DOMAIN log[q] : log[q][j] = st[p].pool[i]
    BY <1>4 DEF Delivered
  <2>. QED BY <1>2, <2>1 DEF LogInv
<1>. QED BY <1>3, <1>4

LEMMA NoRepeatStep ==
    /\ TypeOK /\ ControlInv /\ KeysInv /\ LogInv /\ PoolInv /\ NoRepeat
    /\ [Next]_vars
    => NoRepeat'
<1>. SUFFICES ASSUME TypeOK, ControlInv, KeysInv, LogInv, PoolInv, NoRepeat, [Next]_vars
              PROVE  NoRepeat'
    OBVIOUS
<1>1. CASE \A p \in Proc : ~Copy(p)
    BY <1>1, LogKept DEF NoRepeat
<1>2. ASSUME NEW p \in Proc, Copy(p) PROVE NoRepeat'
  <2>. DEFINE Old(j) == j \in DOMAIN log[p] /\ log'[p][j] = log[p][j]
              New(j, i) == /\ Src(st[p]) <= i
                           /\ i < Src(st[p]) + m'[p]
                           /\ j = Len(log[p]) + 1 + (i - Src(st[p]))
                           /\ log'[p][j] = st[p].pool[i]
  <2>1. /\ \A q \in Proc \ {p} : log'[q] = log[q]
        /\ \A j \in DOMAIN log'[p] : Old(j) \/ \E i \in Index : New(j, i)
    BY <1>2, CopyEffect
  <2>2. ASSUME NEW i \in Index, i >= Src(st[p]), NEW q \in Proc, NEW j \in DOMAIN log[q]
        PROVE  log[q][j] # st[p].pool[i]
    BY <1>2, <2>2, CopyFresh DEF Delivered
  <2>3. ASSUME NEW j \in DOMAIN log'[p], NEW q \in Proc \ {p}, NEW h \in DOMAIN log'[q]
        PROVE  log'[p][j] # log'[q][h]
    <3>1. CASE Old(j)
      BY <2>1, <2>3, <3>1 DEF NoRepeat
    <3>2. CASE \E i \in Index : New(j, i)
      <4>1. PICK i \in Index : New(j, i)
        BY <3>2
      <4>2. i >= Src(st[p])
        BY <4>1, Prefixes, SizesAssumption DEF Index
      <4>. QED BY <2>1, <2>2, <2>3, <4>1, <4>2
    <3>. QED BY <2>1, <3>1, <3>2
  <2>4. ASSUME NEW j \in DOMAIN log'[p], NEW h \in DOMAIN log'[p], log'[p][j] = log'[p][h]
        PROVE  j = h
    <3>1. ASSUME Old(j), Old(h) PROVE j = h
      <4>1. log[p][j] = log[p][h] /\ j \in DOMAIN log[p] /\ h \in DOMAIN log[p]
        BY <2>4, <3>1
      <4>. HIDE DEF Old
      <4>. QED BY <4>1 DEF NoRepeat
    <3>2. ASSUME NEW i \in Index, New(j, i), Old(h) PROVE FALSE
      <4>1. i >= Src(st[p])
        BY <3>2, Prefixes, SizesAssumption DEF Index
      <4>. QED BY <2>2, <2>4, <3>2, <4>1
    <3>3. ASSUME NEW i \in Index, New(h, i), Old(j) PROVE FALSE
      <4>1. i >= Src(st[p])
        BY <3>3, Prefixes, SizesAssumption DEF Index
      <4>. QED BY <2>2, <2>4, <3>3, <4>1
    <3>4. ASSUME NEW i \in Index, New(j, i), NEW k \in Index, New(h, k) PROVE j = h
      <4>1. CleanTo(p) = Src(st[p])
        BY <1>2, Prefixes DEF Copy
      <4>2. i >= CleanTo(p) /\ k >= CleanTo(p)
        BY <3>4, <4>1, Prefixes, SizesAssumption DEF Index
      <4>3. i = k
        BY <2>4, <3>4, <4>2, PoolBytes
      <4>. QED BY <3>4, <4>3
    <3>. QED BY <2>1, <3>1, <3>2, <3>3, <3>4
  <2>5. SUFFICES ASSUME NEW q \in Proc, NEW r \in Proc,
                        NEW j \in DOMAIN log'[q], NEW h \in DOMAIN log'[r],
                        log'[q][j] = log'[r][h]
                 PROVE  q = r /\ j = h
    BY DEF NoRepeat
  <2>6. CASE q # p /\ r # p
    BY <2>1, <2>5, <2>6 DEF NoRepeat
  <2>7. CASE q = p \/ r = p
    BY <2>3, <2>4, <2>5, <2>7
  <2>. QED BY <2>6, <2>7
<1>. QED BY <1>1, <1>2

\* The positions of the bytes a process has in its pool, and of all that the
\* keys of a reseed yield.
LEMMA Positions ==
    ASSUME TypeOK, ControlInv, KeysInv, PoolInv, NEW p \in Proc
    PROVE  /\ NextPosition(p) \in Int
           /\ st[p].rand_bytes_remaining = 0 /\ pc[p] \notin {"wipe", "advance"} =>
                 NextPosition(p) = st[p].ctr * BlockSize
           /\ \A i \in Index : i >= CleanTo(p) =>
                 Position(st[p].pool[i]) = st[p].ctr * BlockSize + i - PoolSize
<1>. DEFINE whole == st[p].ctr * BlockSize
<1>1. whole \in Nat /\ PoolSize \in Nat
  <2>1. st[p].ctr \in Nat /\ BlockSize \in Nat
    BY SizesAssumption DEF TypeOK, Struct
  <2>. QED BY <2>1, SizesAssumption
<1>2. NextPosition(p) = whole + ReadTo(p) - PoolSize
    BY DEF NextPosition
<1>3. ASSUME NEW i \in Index, i >= CleanTo(p)
      PROVE  Position(st[p].pool[i]) = whole + i - PoolSize
  <2>1. st[p].rand_bytes_remaining > 0
    BY <1>3, Prefixes, SizesAssumption DEF Index
  <2>2. st[p] \in Struct /\ NumBlocks <= st[p].ctr /\ st[p].pool[i] = KeyByte(st[p], i)
    BY <1>3, <2>1, Prefixes DEF PoolInv, KeyByte
  <2>. QED BY <2>2, KeyBytePosition DEF Position
<1>. HIDE DEF whole
<1>4. NextPosition(p) \in Int
    BY <1>1, <1>2, Prefixes
<1>5. st[p].rand_bytes_remaining = 0 /\ pc[p] \notin {"wipe", "advance"} =>
         NextPosition(p) = whole
    BY <1>1, <1>2, Prefixes
<1>. QED BY <1>3, <1>4, <1>5 DEF whole

LEMMA SeedBytes ==
    /\ BytesPerSeed \in Nat \ {0}
    /\ (NumBlocks * ReseedInterval) * BlockSize = BytesPerSeed
<1>1. /\ NumBlocks \in Nat /\ ReseedInterval \in Nat \ {0} /\ BlockSize \in Nat
      /\ PoolSize \in Nat \ {0}
    BY BlocksType, SizesAssumption
<1>2. (NumBlocks * ReseedInterval) * BlockSize = ReseedInterval * (NumBlocks * BlockSize)
    BY <1>1
<1>3. ReseedInterval * PoolSize \in Nat \ {0}
    BY <1>1
<1>. QED BY <1>2, <1>3, BlocksFill DEF BytesPerSeed

\* The bytes Copy appends stand in the keystream one after the other, from
\* NextPosition on.
LEMMA CopyPositions ==
    ASSUME TypeOK, ControlInv, KeysInv, PoolInv, NEW p \in Proc, Copy(p)
    PROVE  /\ NextPosition(p)' = NextPosition(p) + m'[p]
           /\ \A j \in DOMAIN log'[p] :
                 \/ j \in DOMAIN log[p] /\ log'[p][j] = log[p][j]
                 \/ /\ j > Len(log[p])
                    /\ log'[p][j].seed = st[p].keys
                    /\ Position(log'[p][j]) = NextPosition(p) + j - (Len(log[p]) + 1)
<1>1. pc[p] = "copy" /\ pc'[p] = "wipe" /\ st' = st
    BY DEF Copy, Goto, TypeOK
<1>2. /\ CleanTo(p) = Src(st[p]) /\ ReadTo(p) = Src(st[p])
      /\ ReadTo(p)' = Src(st[p]) + m'[p]
      /\ Src(st[p]) \in Nat
    BY <1>1, Prefixes DEF ReadTo
<1>3. m'[p] \in Nat /\ Len(log[p]) \in Nat
  <2>1. m'[p] \in 1 .. st[p].rand_bytes_remaining /\ st[p].rand_bytes_remaining \in Nat
    BY CopyEffect, Prefixes
  <2>. QED BY <2>1 DEF TypeOK
<1>. DEFINE whole == st[p].ctr * BlockSize
<1>4. whole \in Nat /\ PoolSize \in Nat
  <2>1. st[p].ctr \in Nat /\ BlockSize \in Nat
    BY SizesAssumption DEF TypeOK, Struct
  <2>. QED BY <2>1, SizesAssumption
<1>5. NextPosition(p) = whole + Src(st[p]) - PoolSize
      /\ NextPosition(p)' = whole + (Src(st[p]) + m'[p]) - PoolSize
    BY <1>1, <1>2 DEF NextPosition
<1>6. ASSUME NEW i \in Index, Src(st[p]) <= i
      PROVE  /\ st[p].pool[i].seed = st[p].keys
             /\ Position(st[p].pool[i]) = whole + i - PoolSize
  <2>1. i >= CleanTo(p)
    BY <1>2, <1>6, SizesAssumption DEF Index
  <2>. QED BY <2>1, PoolBytes, Positions
<1>. HIDE DEF whole
<1>7. ASSUME NEW j \in DOMAIN log'[p], NEW i \in Index, Src(st[p]) <= i,
             j = Len(log[p]) + 1 + (i - Src(st[p])), log'[p][j] = st[p].pool[i]
      PROVE  /\ j > Len(log[p])
             /\ log'[p][j].seed = st[p].keys
             /\ Position(log'[p][j]) = NextPosition(p) + j - (Len(log[p]) + 1)
  <2>1. i \in Int
    BY SizesAssumption DEF Index
  <2>2. Position(log'[p][j]) = whole + i - PoolSize /\ log'[p][j].seed = st[p].keys
    BY <1>6, <1>7
  <2>3. j > Len(log[p]) /\ j \in Int
    BY <1>2, <1>3, <1>7, <2>1
  <2>4. i = Src(st[p]) + j - (Len(log[p]) + 1)
    BY <1>2, <1>3, <1>7, <2>1
  <2>5. whole + (Src(st[p]) + j - (Len(log[p]) + 1)) - PoolSize
          = whole + Src(st[p]) - PoolSize + j - (Len(log[p]) + 1)
    BY <1>2, <1>3, <1>4, <2>3
  <2>. QED BY <1>5, <2>2, <2>3, <2>4, <2>5
<1>8. \A j \in DOMAIN log'[p] :
         \/ j \in DOMAIN log[p] /\ log'[p][j] = log[p][j]
         \/ \E i \in Index : /\ Src(st[p]) <= i
                             /\ j = Len(log[p]) + 1 + (i - Src(st[p]))
                             /\ log'[p][j] = st[p].pool[i]
    BY CopyEffect
<1>9. NextPosition(p)' = NextPosition(p) + m'[p]
    BY <1>2, <1>3, <1>4, <1>5
<1>. QED BY <1>7, <1>8, <1>9

\* The counter does not pass the blocks of ReseedInterval pools.
LEMMA CounterBound ==
    ASSUME TypeOK, OrderInv, NEW p \in Proc
    PROVE  st[p].ctr * BlockSize <= BytesPerSeed
<1>1. /\ NumBlocks \in Nat /\ ReseedInterval \in Nat /\ BlockSize \in Nat
      /\ st[p].reseed_countdown \in 0 .. ReseedInterval
    BY BlocksType, SizesAssumption DEF TypeOK, Struct
<1>. DEFINE refills == ReseedInterval - st[p].reseed_countdown
<1>2. refills \in 0 .. ReseedInterval
    BY <1>1
<1>3. st[p].ctr = 0 \/ st[p].ctr = NumBlocks * refills
    BY DEF OrderInv, InOrder
<1>. HIDE DEF refills
<1>4. NumBlocks * refills <= NumBlocks * ReseedInterval
    BY <1>1, <1>2
<1>5. NumBlocks * refills \in Nat /\ NumBlocks * ReseedInterval \in Nat
    BY <1>1, <1>2
<1>6. \A a, b, c \in Nat : a <= b => a * c <= b * c
    OBVIOUS
<1>7. (NumBlocks * refills) * BlockSize <= BytesPerSeed
    BY <1>1, <1>4, <1>5, <1>6, SeedBytes
<1>. QED BY <1>1, <1>3, <1>7, SeedBytes

\* What Copy appends ends, at the latest, where the seed is to be replaced.
LEMMA CopyWithinSeed ==
    ASSUME TypeOK, ControlInv, OrderInv, NEW p \in Proc, Copy(p)
    PROVE  NextPosition(p) + m'[p] <= BytesPerSeed
<1>. DEFINE whole == st[p].ctr * BlockSize
<1>1. whole \in Nat /\ BytesPerSeed \in Nat /\ PoolSize \in Nat
  <2>1. st[p].ctr \in Nat /\ BlockSize \in Nat
    BY SizesAssumption DEF TypeOK, Struct
  <2>. QED BY <2>1, SeedBytes, SizesAssumption
<1>2. whole <= BytesPerSeed
    BY CounterBound
<1>3. NextPosition(p) = whole + ReadTo(p) - PoolSize
    BY DEF NextPosition
<1>. HIDE DEF whole
<1>4. ReadTo(p) = PoolSize - st[p].rand_bytes_remaining
    BY Prefixes DEF Copy
<1>5. m'[p] \in 1 .. st[p].rand_bytes_remaining /\ st[p].rand_bytes_remaining \in Nat
    BY CopyEffect, Prefixes
<1>. QED BY <1>1, <1>2, <1>3, <1>4, <1>5

\* A step that leaves a process where it was in the keystream.
LEMMA OrderKept ==
    ASSUME NEW p \in Proc, InOrder(p), log'[p] = log[p], ReadTo(p)' = ReadTo(p),
           st'[p].keys = st[p].keys, st'[p].ctr = st[p].ctr,
           st'[p].reseed_countdown = st[p].reseed_countdown,
           pc'[p] = "unborn" => pc[p] = "unborn"
    PROVE  InOrder(p)'
<1>1. NextPosition(p)' = NextPosition(p)
    BY DEF NextPosition
<1>. QED BY <1>1 DEF InOrder, Precedes

\* Reseeding begins a keystream, and ends the one before at its last byte.
LEMMA OrderReseed ==
    ASSUME TypeOK, ControlInv, KeysInv, LogInv, PoolInv, OrderInv,
           NEW p \in Proc, Reseed(p)
    PROVE  InOrder(p)'
<1>1. /\ st'[p] = Reseeded(st[p], seeds + 1) /\ pc[p] = "regen" /\ pc'[p] = "fill"
      /\ log' = log /\ st[p].reseed_countdown = 0 /\ st[p].rand_bytes_remaining = 0
      /\ seeds \in Nat
    BY CallersAssumption DEF Reseed, Goto, TypeOK, ControlInv
<1>2. /\ st'[p].keys = seeds + 1 /\ st'[p].ctr = 0
      /\ st'[p].reseed_countdown = ReseedInterval
      /\ st'[p].rand_bytes_remaining = 0
    BY <1>1 DEF Reseeded
<1>3. NextPosition(p)' = 0
  <2>1. ReadTo(p)' = PoolSize
    BY <1>1, <1>2, SizesAssumption DEF ReadTo, Src
  <2>2. 0 * BlockSize = 0
    BY SizesAssumption
  <2>. QED BY <1>2, <2>1, <2>2, SizesAssumption DEF NextPosition
<1>4. st'[p].ctr = NumBlocks * (ReseedInterval - st'[p].reseed_countdown)
    BY <1>2, BlocksType, SizesAssumption
<1>5. ASSUME log[p] # <<>>
      PROVE  Precedes(log[p][Len(log[p])], p)'
  <2>. DEFINE b == log[p][Len(log[p])]
  <2>1. Len(log[p]) \in DOMAIN log[p] /\ b \in Byte
    BY <1>5 DEF TypeOK
  <2>2. b.seed \in 1 .. seeds /\ Position(b) \in Nat
    BY <2>1, SizesAssumption DEF LogInv, Position, Byte
  <2>3. Precedes(b, p)
    BY <1>5 DEF OrderInv, InOrder
  <2>4. st[p].keys # 0 /\ st[p].keys \in Nat
    BY <2>2, <2>3 DEF Precedes, TypeOK, Struct
  <2>5. NextPosition(p) = BytesPerSeed
    <3>1. st[p].ctr = NumBlocks * ReseedInterval
      BY <1>1, <2>4, SizesAssumption DEF OrderInv, InOrder
    <3>2. NextPosition(p) = st[p].ctr * BlockSize
      BY <1>1, Positions
    <3>. QED BY <3>1, <3>2, SeedBytes
  <2>6. Position(b) = BytesPerSeed - 1
    BY <2>2, <2>3, <2>5, SeedBytes DEF Precedes
  <2>7. b.seed < seeds + 1
    BY <1>1, <2>2
  <2>. QED BY <1>1, <1>2, <1>3, <2>6, <2>7 DEF Precedes
<1>. QED BY <1>1, <1>2, <1>3, <1>4, <1>5 DEF InOrder

\* A refill puts into the pool the bytes that come next.
LEMMA OrderFill ==
    ASSUME TypeOK, ControlInv, KeysInv, PoolInv, OrderInv, NEW p \in Proc, Fill(p)
    PROVE  InOrder(p)'
<1>1. /\ st'[p] = Filled(st[p]) /\ pc[p] \in {"regen", "fill"} /\ pc'[p] = "copy"
      /\ log' = log /\ st[p].reseed_countdown # 0 /\ st[p].rand_bytes_remaining = 0
      /\ st[p] \in Struct
    BY DEF Fill, Goto, TypeOK, ControlInv
<1>2. /\ st'[p].keys = st[p].keys /\ st'[p].ctr = st[p].ctr + NumBlocks
      /\ st'[p].reseed_countdown = st[p].reseed_countdown - 1
      /\ st'[p].rand_bytes_remaining = PoolSize
    BY <1>1 DEF Filled
<1>3. st[p].keys # 0
    BY <1>1 DEF KeysInv
<1>. DEFINE whole == st[p].ctr * BlockSize
<1>4. /\ st[p].ctr \in Nat /\ NumBlocks \in Nat /\ BlockSize \in Nat /\ PoolSize \in Nat
      /\ whole \in Nat
  <2>1. st[p].ctr \in Nat /\ NumBlocks \in Nat /\ BlockSize \in Nat /\ PoolSize \in Nat
    BY <1>1, BlocksType, SizesAssumption DEF Struct
  <2>. QED BY <2>1
<1>5. NextPosition(p)' = NextPosition(p)
  <2>1. NextPosition(p) = whole
    BY <1>1, Positions
  <2>2. ReadTo(p)' = 0
    BY <1>1, <1>2, SizesAssumption DEF ReadTo, Src
  <2>3. st'[p].ctr * BlockSize = whole + PoolSize
    <3>1. (st[p].ctr + NumBlocks) * BlockSize = st[p].ctr * BlockSize + NumBlocks * BlockSize
      BY <1>4
    <3>. QED BY <1>2, <3>1, BlocksFill
  <2>. HIDE DEF whole
  <2>4. NextPosition(p)' = whole + PoolSize + 0 - PoolSize
    BY <2>2, <2>3 DEF NextPosition
  <2>. QED BY <1>4, <2>1, <2>4
<1>6. st'[p].ctr = NumBlocks * (ReseedInterval - st'[p].reseed_countdown)
  <2>1. st[p].ctr = NumBlocks * (ReseedInterval - st[p].reseed_countdown)
    BY <1>3 DEF OrderInv, InOrder
  <2>2. st[p].reseed_countdown \in Nat /\ ReseedInterval \in Nat
    BY <1>1, SizesAssumption DEF Struct
  <2>. DEFINE k == ReseedInterval - st[p].reseed_countdown
  <2>3. k \in Int /\ ReseedInterval - st'[p].reseed_countdown = k + 1
    BY <1>2, <2>2
  <2>4. NumBlocks * (k + 1) = NumBlocks * k + NumBlocks
    BY <1>4, <2>3
  <2>. QED BY <1>2, <2>1, <2>3, <2>4
<1>7. InOrder(p)
    BY DEF OrderInv
<1>. QED BY <1>1, <1>2, <1>3, <1>5, <1>6, <1>7 DEF InOrder, Precedes

LEMMA OrderCopy ==
    ASSUME TypeOK, ControlInv, KeysInv, PoolInv, OrderInv, NEW p \in Proc, Copy(p)
    PROVE  InOrder(p)'
<1>1. pc'[p] = "wipe" /\ st' = st
    BY DEF Copy, Goto, TypeOK
<1>. DEFINE last == Len(log'[p])
<1>2. last = Len(log[p]) + m'[p] /\ m'[p] \in Nat /\ m'[p] > 0 /\ Len(log[p]) \in Nat
  <2>1. m'[p] \in 1 .. st[p].rand_bytes_remaining /\ st[p].rand_bytes_remaining \in Nat
    BY CopyEffect, Prefixes
  <2>2. last = Len(log[p]) + m'[p]
    BY CopyEffect
  <2>. QED BY <2>1, <2>2 DEF TypeOK
<1>3. log'[p] \in Seq(Byte)
    BY TypeStep DEF TypeOK, Next, Step
<1>4. last \in DOMAIN log'[p] /\ last \notin DOMAIN log[p] /\ log'[p] # <<>>
    BY <1>2, <1>3 DEF TypeOK
<1>5. /\ log'[p][last].seed = st[p].keys
      /\ Position(log'[p][last]) = NextPosition(p) + last - (Len(log[p]) + 1)
      /\ NextPosition(p)' = NextPosition(p) + m'[p]
    BY <1>4, CopyPositions
<1>. HIDE DEF last
<1>6. Position(log'[p][last]) + 1 = NextPosition(p)'
    BY <1>2, <1>5, Positions
<1>7. InOrder(p)
    BY DEF OrderInv
<1>8. Precedes(log[p][Len(log[p])], p)'
    BY <1>1, <1>5, <1>6 DEF Precedes, last
<1>. QED BY <1>1, <1>4, <1>7, <1>8 DEF InOrder

\* The child of a fork has delivered nothing.
LEMMA OrderFork ==
    ASSUME TypeOK, LogInv, OrderInv, NEW p \in Proc, NEW q \in Proc, Fork(p, q)
    PROVE  InOrder(q)'
<1>1. st'[q] = ZeroPage /\ pc[q] = "unborn" /\ pc'[q] = "idle" /\ log' = log
    BY DEF Fork, ForkImage, Goto, TypeOK
<1>2. log[q] = <<>>
  <2>1. SUFFICES ASSUME log[q] # <<>> PROVE FALSE
    OBVIOUS
  <2>. DEFINE b == log[q][Len(log[q])]
  <2>2. st[q].keys = 0 /\ Precedes(b, q)
    BY <1>1, <2>1 DEF OrderInv, InOrder
  <2>3. b.seed \in 1 .. seeds /\ seeds \in Nat
    BY <2>1, CallersAssumption DEF TypeOK, LogInv
  <2>. QED BY <2>2, <2>3 DEF Precedes
<1>3. NextPosition(q)' = 0
  <2>1. st'[q].ctr = 0 /\ st'[q].rand_bytes_remaining = 0
    BY <1>1 DEF ZeroPage
  <2>2. ReadTo(q)' = PoolSize
    BY <1>1, <2>1, SizesAssumption DEF ReadTo, Src
  <2>3. 0 * BlockSize = 0
    BY SizesAssumption
  <2>. QED BY <2>1, <2>2, <2>3, SizesAssumption DEF NextPosition
<1>. QED BY <1>1, <1>2, <1>3 DEF InOrder, ZeroPage

\* A process goes on in the keystream where it stopped.
LEMMA OrderStep ==
    /\ TypeOK /\ ControlInv /\ KeysInv /\ LogInv /\ PoolInv /\ OrderInv
    /\ [Next]_vars
    => OrderInv'
<1>. SUFFICES ASSUME TypeOK, ControlInv, KeysInv, LogInv, PoolInv, OrderInv, [Next]_vars
              PROVE  OrderInv'
    OBVIOUS
<1>0. \A p \in Proc : InOrder(p)
    BY DEF OrderInv
<1>1. ASSUME NEW p \in Proc, st'[p] = st[p], log'[p] = log[p], m'[p] = m[p],
             \/ pc'[p] = pc[p]
             \/ {pc[p], pc'[p]} \cap {"wipe", "advance", "unborn"} = {}
      PROVE  InOrder(p)'
  <2>1. ReadTo(p)' = ReadTo(p)
    BY <1>1 DEF ReadTo
  <2>. QED BY <1>0, <1>1, <2>1, OrderKept
<1>2. ASSUME NEW p \in Proc, NEW k \in RequestSize, Call(p, k) PROVE OrderInv'
    BY <1>1, <1>2 DEF Call, Goto, TypeOK, OrderInv
<1>3. ASSUME NEW p \in Proc, Return(p) PROVE OrderInv'
    BY <1>1, <1>3 DEF Return, Goto, TypeOK, OrderInv
<1>4. ASSUME NEW p \in Proc, Test(p) PROVE OrderInv'
    BY <1>1, <1>4 DEF Test, Goto, TypeOK, OrderInv
<1>5. ASSUME NEW p \in Proc, ReseedFails(p) PROVE OrderInv'
    BY <1>1, <1>5 DEF ReseedFails, Goto, TypeOK, OrderInv
<1>6. ASSUME NEW p \in Proc, Reseed(p) PROVE OrderInv'
  <2>1. \A q \in Proc \ {p} : InOrder(q)'
    BY <1>1, <1>6 DEF Reseed, Goto, TypeOK
  <2>. QED BY <1>6, <2>1, OrderReseed DEF OrderInv
<1>7. ASSUME NEW p \in Proc, Fill(p) PROVE OrderInv'
  <2>1. \A q \in Proc \ {p} : InOrder(q)'
    BY <1>1, <1>7 DEF Fill, Goto, TypeOK
  <2>. QED BY <1>7, <2>1, OrderFill DEF OrderInv
<1>8. ASSUME NEW p \in Proc, Copy(p) PROVE OrderInv'
  <2>1. \A q \in Proc \ {p} : InOrder(q)'
    BY <1>1, <1>8 DEF Copy, Goto, TypeOK
  <2>. QED BY <1>8, <2>1, OrderCopy DEF OrderInv
<1>9. ASSUME NEW p \in Proc, Wipe(p) PROVE OrderInv'
  <2>1. \A q \in Proc \ {p} : InOrder(q)'
    BY <1>1, <1>9 DEF Wipe, Goto, TypeOK
  <2>2. /\ st'[p] = Wiped(st[p], m[p]) /\ pc[p] = "wipe" /\ pc'[p] = "advance"
        /\ m' = m /\ log' = log
    BY <1>9 DEF Wipe, Goto, TypeOK
  <2>3. /\ st'[p].keys = st[p].keys /\ st'[p].ctr = st[p].ctr
        /\ st'[p].reseed_countdown = st[p].reseed_countdown
        /\ st'[p].rand_bytes_remaining = st[p].rand_bytes_remaining
    BY <2>2, Prefixes, WipedFields
  <2>4. ReadTo(p)' = ReadTo(p)
    BY <2>2, <2>3 DEF ReadTo, Src
  <2>. QED BY <1>0, <2>1, <2>2, <2>3, <2>4, OrderKept DEF OrderInv
<1>10. ASSUME NEW p \in Proc, Advance(p) PROVE OrderInv'
  <2>1. \A q \in Proc \ {p} : InOrder(q)'
    BY <1>1, <1>10 DEF Advance, Goto, TypeOK
  <2>2. /\ st'[p] = Advanced(st[p], m[p]) /\ pc[p] = "advance" /\ pc'[p] = "loop"
        /\ m' = m /\ log' = log
    BY <1>10 DEF Advance, Goto, TypeOK
  <2>3. /\ st'[p].keys = st[p].keys /\ st'[p].ctr = st[p].ctr
        /\ st'[p].reseed_countdown = st[p].reseed_countdown
        /\ st'[p].rand_bytes_remaining = st[p].rand_bytes_remaining - m[p]
    BY <2>2, Prefixes, AdvancedFields
  <2>4. Src(st'[p]) = Src(st[p]) + m[p]
    BY <2>3, Prefixes, SizesAssumption DEF Src
  <2>5. ReadTo(p)' = ReadTo(p)
    BY <2>2, <2>4, Prefixes DEF ReadTo
  <2>. QED BY <1>0, <2>1, <2>2, <2>3, <2>5, OrderKept DEF OrderInv
<1>11. ASSUME NEW p \in Proc, NEW q \in Proc, Fork(p, q) PROVE OrderInv'
  <2>1. \A h \in Proc \ {q} : InOrder(h)'
    BY <1>1, <1>11 DEF Fork, Goto, TypeOK
  <2>. QED BY <1>11, <2>1, OrderFork DEF OrderInv
<1>12. CASE UNCHANGED vars
    BY <1>1, <1>12 DEF vars, OrderInv
<1>. QED
    BY <1>2, <1>3, <1>4, <1>5, <1>6, <1>7, <1>8, <1>9, <1>10, <1>11, <1>12
       DEF Next, Step

\* What a process delivers follows in the keystream on what it delivered before.
LEMMA KeystreamStep ==
    /\ TypeOK /\ ControlInv /\ KeysInv /\ LogInv /\ PoolInv /\ OrderInv /\ KeystreamOrder
    /\ [Next]_vars
    => KeystreamOrder'
<1>. SUFFICES ASSUME TypeOK, ControlInv, KeysInv, LogInv, PoolInv, OrderInv,
                     KeystreamOrder, [Next]_vars
              PROVE  KeystreamOrder'
    OBVIOUS
<1>1. CASE \A p \in Proc : ~Copy(p)
    BY <1>1, LogKept DEF KeystreamOrder
<1>2. ASSUME NEW p \in Proc, Copy(p) PROVE KeystreamOrder'
  <2>. DEFINE old == log[p]
              new == log'[p]
              next == NextPosition(p)
  <2>1. /\ old \in Seq(Byte) /\ new \in Seq(Byte) /\ Len(old) \in Nat /\ Len(new) \in Nat
        /\ next \in Int
    BY TypeStep, Positions DEF TypeOK
  <2>2. \A q \in Proc \ {p} : log'[q] = log[q]
    BY <1>2, CopyEffect
  <2>3. ASSUME NEW j \in DOMAIN new
        PROVE  \/ j \in DOMAIN old /\ new[j] = old[j]
               \/ /\ j > Len(old)
                  /\ new[j].seed = st[p].keys
                  /\ Position(new[j]) = next + j - (Len(old) + 1)
    BY <1>2, CopyPositions
  <2>4. Len(new) > Len(old) /\ next + Len(new) - Len(old) <= BytesPerSeed
    <3>1. Len(new) = Len(old) + m'[p] /\ m'[p] \in 1 .. st[p].rand_bytes_remaining
      BY <1>2, CopyEffect
    <3>2. next + m'[p] <= BytesPerSeed
      BY <1>2, CopyWithinSeed
    <3>. HIDE DEF old, new, next
    <3>. QED BY <2>1, <3>1, <3>2, Prefixes, SeedBytes
  <2>5. InOrder(p)
    BY DEF OrderInv
  <2>. HIDE DEF old, new, next
  <2>6. Position(new[1]) = 0
    <3>1. 1 \in DOMAIN new
      BY <2>1, <2>4
    <3>2. CASE old = <<>>
      <4>1. next = 0 /\ ~(1 \in DOMAIN old) /\ Len(old) = 0
        BY <2>5, <3>2 DEF InOrder, old, next
      <4>. QED BY <2>3, <3>1, <4>1
    <3>3. CASE old # <<>>
      <4>1. 1 \in DOMAIN old /\ ~(1 > Len(old))
        BY <2>1, <3>3
      <4>2. new[1] = old[1]
        BY <2>3, <3>1, <4>1
      <4>. QED BY <3>3, <4>2 DEF KeystreamOrder, old
    <3>. QED BY <3>2, <3>3
  <2>7. ASSUME NEW i \in 1 .. Len(new) - 1 PROVE Follows(new[i], new[i + 1])
    <3>1. i \in DOMAIN new /\ i + 1 \in DOMAIN new /\ i \in Nat
      BY <2>1
    <3>2. CASE i < Len(old)
      <4>1. i \in 1 .. Len(old) - 1 /\ ~(i > Len(old)) /\ ~(i + 1 > Len(old))
        BY <2>1, <3>2
      <4>2. new[i] = old[i] /\ new[i + 1] = old[i + 1]
        BY <2>3, <3>1, <4>1
      <4>3. Follows(old[i], old[i + 1])
        BY <4>1 DEF KeystreamOrder, old
      <4>. QED BY <4>2, <4>3
    <3>3. CASE i = Len(old)
      <4>1. old # <<>> /\ ~(i > Len(old)) /\ i + 1 \notin DOMAIN old
        BY <2>1, <3>3
      <4>2. Precedes(old[i], p)
        BY <2>5, <3>3, <4>1 DEF InOrder, old
      <4>3. new[i] = old[i]
        BY <2>3, <3>1, <4>1
      <4>4. new[i + 1].seed = st[p].keys /\ Position(new[i + 1]) = next + (i + 1) - (Len(old) + 1)
        BY <2>3, <3>1, <4>1
      <4>5. Position(new[i + 1]) = next
        BY <2>1, <3>1, <3>3, <4>4
      <4>6. next < BytesPerSeed
        BY <2>1, <2>4, SeedBytes
      <4>. QED BY <4>2, <4>3, <4>4, <4>5, <4>6 DEF Follows, Precedes, next
    <3>4. CASE i > Len(old)
      <4>1. i \notin DOMAIN old /\ i + 1 \notin DOMAIN old
        BY <2>1, <3>1, <3>4
      <4>2. new[i].seed = new[i + 1].seed
        BY <2>3, <3>1, <4>1
      <4>3. /\ Position(new[i]) = next + i - (Len(old) + 1)
            /\ Position(new[i + 1]) = next + (i + 1) - (Len(old) + 1)
        BY <2>3, <3>1, <4>1
      <4>4. Position(new[i + 1]) = Position(new[i]) + 1
        BY <2>1, <3>1, <4>3
      <4>5. i + 1 <= Len(new)
        BY <2>1
      <4>6. /\ next \in Int /\ i \in Int /\ Len(old) \in Int /\ Len(new) \in Int
            /\ BytesPerSeed \in Int
        BY <2>1, <3>1, SeedBytes
      <4>7. next + (i + 1) - (Len(old) + 1) < BytesPerSeed
        BY <2>4, <4>5, <4>6
      <4>8. Position(new[i + 1]) < BytesPerSeed
        BY <4>3, <4>6, <4>7
      <4>. QED BY <4>2, <4>4, <4>8 DEF Follows
    <3>. QED BY <2>1, <3>1, <3>2, <3>3, <3>4
  <2>8. ASSUME NEW q \in Proc, q # p
        PROVE  /\ log'[q] # <<>> => Position(log'[q][1]) = 0
               /\ \A i \in 1 .. Len(log'[q]) - 1 : Follows(log'[q][i], log'[q][i + 1])
    BY <2>2, <2>8 DEF KeystreamOrder
  <2>. QED BY <2>6, <2>7, <2>8 DEF KeystreamOrder, new
<1>. QED BY <1>1, <1>2

LEMMA IInvInit == Init => IInv
<1>. SUFFICES ASSUME Init PROVE IInv
    OBVIOUS
<1>1. TypeOK /\ ControlInv
    BY TypeInit
<1>2. KeysInv /\ LogInv /\ NoRepeat
    BY DEF Init, KeysInv, LogInv, NoRepeat, ZeroPage
<1>3. ASSUME NEW p \in Proc
      PROVE  /\ st[p].rand_bytes_remaining = 0 /\ \A i \in Index : st[p].pool[i] = Zero
             /\ CleanTo(p) = PoolSize /\ ReadTo(p) = PoolSize
  <2>1. st[p] = ZeroPage /\ pc[p] \in {"idle", "unborn"}
    BY DEF Init
  <2>2. st[p].rand_bytes_remaining = 0 /\ \A i \in Index : st[p].pool[i] = Zero
    BY <2>1 DEF ZeroPage
  <2>3. Src(st[p]) = PoolSize
    BY <2>2, SizesAssumption DEF Src
  <2>. QED BY <1>1, <2>1, <2>2, <2>3, Prefixes
<1>4. \A i \in Index : i < PoolSize /\ ~(i >= PoolSize)
    BY SizesAssumption DEF Index
<1>5. PoolInv
  <2>1. ASSUME NEW p \in Proc, NEW i \in Index
        PROVE  st[p].pool[i] = Zero /\ ~(i >= CleanTo(p)) /\ ~(i >= ReadTo(p))
    BY <1>3, <1>4
  <2>2. ASSUME NEW p \in Proc PROVE ~(st[p].rand_bytes_remaining > 0)
    BY <1>3
  <2>. QED BY <2>1, <2>2, Zenon DEF PoolInv
<1>6. ASSUME NEW p \in Proc PROVE InOrder(p)
  <2>1. st[p] = ZeroPage /\ log[p] = <<>>
    BY DEF Init
  <2>2. 0 * BlockSize = 0
    BY SizesAssumption
  <2>3. NextPosition(p) = 0
    BY <1>3, <2>1, <2>2, SizesAssumption DEF NextPosition, ZeroPage
  <2>. QED BY <2>1, <2>3 DEF InOrder, ZeroPage
<1>7. OrderInv /\ KeystreamOrder
    BY <1>6 DEF OrderInv, KeystreamOrder, Init
<1>. QED BY <1>1, <1>2, <1>5, <1>7 DEF IInv

LEMMA IInvStep == IInv /\ [Next]_vars => IInv'
    BY TypeStep, KeysStep, LogStep, PoolStep, NoRepeatStep, OrderStep, KeystreamStep DEF IInv

-----------------------------------------------------------------------------
(* The theorems.                                                           *)

\* The inductive invariant holds for every pool size, block size, interval,
\* request size and fork tree.
THEOREM Invariance == Spec => []IInv
    BY IInvInit, IInvStep, PTL DEF Spec

\* No byte of keystream is delivered twice, in one process or across a fork.
THEOREM DeliversOnce == Spec => []NoRepeat
<1>1. IInv => NoRepeat
    BY DEF IInv
<1>. QED BY <1>1, Invariance, PTL

\* A process delivers keystream byte after byte, one seed after another: whole
\* seeds, and of the last no more than it may give.
THEOREM DeliversInOrder == Spec => []KeystreamOrder
<1>1. IInv => KeystreamOrder
    BY DEF IInv
<1>. QED BY <1>1, Invariance, PTL

\* A delivered byte has left every pool, but for the round that delivers it.
THEOREM PoolIsZeroized == Spec => []Zeroized
<1>1. ASSUME IInv PROVE Zeroized
  <2>1. SUFFICES ASSUME NEW p \in Proc, NEW q \in Proc, NEW i \in Index,
                        st[p].pool[i] \in Delivered(q)
                 PROVE  /\ pc[p] = "wipe"
                        /\ Src(st[p]) <= i /\ i < Src(st[p]) + m[p]
    BY DEF Zeroized
  <2>2. PICK j \in DOMAIN log[q] : log[q][j] = st[p].pool[i]
    BY <2>1 DEF Delivered
  <2>3. log[q][j].seed # 0
    BY <1>1, <2>2 DEF IInv, LogInv
  <2>4. st[p].pool[i] # Zero /\ i \in Nat
    BY <2>2, <2>3, SizesAssumption DEF Zero, Index
  <2>5. i >= CleanTo(p)
    BY <1>1, <2>4, Prefixes DEF IInv, PoolInv
  <2>6. log[q][j].seed = st[p].keys
    BY <1>1, <2>2, <2>5, PoolBytes DEF IInv
  <2>7. p = q
    BY <1>1, <2>6 DEF IInv, LogInv
  <2>8. ~(i >= ReadTo(p))
    BY <1>1, <2>1, <2>7 DEF IInv, PoolInv
  <2>. QED BY <1>1, <2>4, <2>5, <2>8, Prefixes DEF IInv
<1>. QED BY <1>1, Invariance, PTL

\* Two processes share neither keys nor undelivered bytes.
THEOREM PoolsUnshared == Spec => []Unshared
<1>1. ASSUME IInv PROVE Unshared
  <2>1. SUFFICES ASSUME NEW p \in Proc, NEW q \in Proc, p # q,
                        NEW i \in Index, NEW j \in Index,
                        st[p].pool[i] = st[q].pool[j], st[p].pool[i] # Zero
                 PROVE  FALSE
    BY <1>1 DEF Unshared, IInv, KeysInv
  <2>2. i >= CleanTo(p) /\ j >= CleanTo(q)
    BY <1>1, <2>1, Prefixes, SizesAssumption DEF IInv, PoolInv, Index
  <2>3. /\ st[p].pool[i].seed = st[p].keys /\ st[p].keys # 0
        /\ st[q].pool[j].seed = st[q].keys
    BY <1>1, <2>2, PoolBytes DEF IInv
  <2>. QED BY <1>1, <2>1, <2>3 DEF IInv, KeysInv
<1>. QED BY <1>1, Invariance, PTL

-----------------------------------------------------------------------------
(* randp_bytes implements RandomSource.                                    *)

\* owed of the abstract specification, under the refinement mapping.
Debt == [p \in Proc |-> Owed(p)]

LEMMA SourceInit == Init => Source!Init
<1>. SUFFICES ASSUME Init PROVE Source!Init
    OBVIOUS
<1>1. \A p \in Proc : Owed(p) = 0
    BY DEF Init, Owed
<1>. QED BY <1>1 DEF Init, Source!Init

\* A step that changes neither what was delivered nor what is owed.
LEMMA SourceStutter ==
    ASSUME log' = log, \A p \in Proc : Owed(p)' = Owed(p)
    PROVE  UNCHANGED Source!vars
    BY DEF Source!vars

LEMMA SourceCall ==
    ASSUME TypeOK, ControlInv, NEW p \in Proc, NEW k \in RequestSize, Call(p, k)
    PROVE  Source!Next
<1>1. pc[p] = "idle" /\ n[p] = 0 /\ n' = [n EXCEPT ![p] = k] /\ m' = m
    BY DEF Call, ControlInv
<1>2. pc' = [pc EXCEPT ![p] = "loop"] /\ log' = log
    BY DEF Call, Goto
<1>3. Owed(p) = 0 /\ Owed(p)' = k
    BY <1>1, <1>2 DEF Owed, TypeOK
<1>4. \A q \in Proc \ {p} : Owed(q)' = Owed(q)
    BY <1>1, <1>2 DEF Owed, TypeOK
<1>5. Debt' = [Debt EXCEPT ![p] = k] /\ Debt[p] = 0
    BY <1>3, <1>4 DEF Debt
<1>6. Source!Request(p)
    BY <1>2, <1>5 DEF Source!Request, Debt
<1>. QED BY <1>6 DEF Source!Next

LEMMA SourceCopy ==
    ASSUME TypeOK, ControlInv, KeysInv, LogInv, PoolInv, NEW p \in Proc, Copy(p)
    PROVE  Source!Next
<1>. DEFINE k == Chunk(st[p], n[p])
            c == Copied(st[p], k)
<1>1. st[p] \in Struct /\ n[p] \in Nat /\ log[p] \in Seq(Byte)
    BY DEF TypeOK
<1>2. k \in 1 .. st[p].rand_bytes_remaining /\ k \in 0 .. st[p].rand_bytes_remaining
      /\ k <= n[p]
  <2>1. n[p] > 0 /\ st[p].rand_bytes_remaining > 0
    BY DEF Copy, ControlInv
  <2>. QED BY <1>1, <2>1, ChunkType
<1>3. /\ c \in Seq(Byte) /\ Len(c) = k
      /\ \A j \in 1 .. k : Src(st[p]) + j - 1 \in Index
      /\ \A j \in 1 .. k : c[j] = st[p].pool[Src(st[p]) + j - 1]
    BY <1>1, <1>2, CopiedType DEF Copied
<1>4. /\ log' = [log EXCEPT ![p] = log[p] \o c] /\ log'[p] = log[p] \o c
      /\ m' = [m EXCEPT ![p] = k] /\ n' = n
      /\ pc[p] = "copy" /\ pc' = [pc EXCEPT ![p] = "wipe"]
    BY DEF Copy, Goto, TypeOK
<1>5. Owed(p) = n[p] /\ Owed(p)' = n[p] - k
    BY <1>4 DEF Owed, TypeOK
<1>6. \A q \in Proc \ {p} : Owed(q)' = Owed(q)
    BY <1>4 DEF Owed, TypeOK
<1>7. Src(st[p]) \in Nat /\ CleanTo(p) = Src(st[p])
    BY <1>4, Prefixes
<1>. HIDE DEF c, k
<1>8. Len(log[p]) \in Nat /\ k \in Nat /\ k > 0 /\ Len(log'[p]) = Len(log[p]) + k
      /\ SubSeq(log'[p], Len(log[p]) + 1, Len(log'[p])) = c
  <2>1. k \in Nat /\ k > 0 /\ Len(log[p]) \in Nat
    BY <1>1, <1>2, Prefixes
  <2>2. log'[p] = log[p] \o Copied(st[p], k)
    BY <1>4 DEF c
  <2>3. Len(log'[p]) = Len(log[p]) + k
    <3>1. st[p] \in Struct /\ log[p] \in Seq(Byte) /\ k \in 1 .. st[p].rand_bytes_remaining
      BY <1>1, <1>2
    <3>2. Len(log[p] \o Copied(st[p], k)) = Len(log[p]) + k
      BY <3>1, AppendedBytes
    <3>. QED BY <2>2, <3>2
  <2>4. SubSeq(log'[p], Len(log[p]) + 1, Len(log[p]) + k) = c
    <3>1. st[p] \in Struct /\ log[p] \in Seq(Byte) /\ k \in 1 .. st[p].rand_bytes_remaining
      BY <1>1, <1>2
    <3>2. SubSeq(log[p] \o Copied(st[p], k), Len(log[p]) + 1, Len(log[p]) + k) = Copied(st[p], k)
      BY <3>1, AppendedBytes
    <3>. QED BY <2>2, <3>2 DEF c
  <2>. QED BY <2>1, <2>3, <2>4
<1>10. Source!NewBytes(p) = c
    BY <1>8 DEF Source!NewBytes
<1>11. ASSUME NEW i \in 1 .. k
       PROVE  /\ c[i] # Zero
              /\ c[i] \notin Source!Delivered
              /\ \A j \in 1 .. k : c[i] = c[j] => i = j
  <2>. DEFINE h == Src(st[p]) + i - 1
  <2>1. h \in Index /\ h >= Src(st[p]) /\ h >= CleanTo(p) /\ c[i] = st[p].pool[h]
    BY <1>3, <1>7, <1>8
  <2>2. c[i] # Zero
    BY <2>1, PoolBytes DEF Zero
  <2>3. c[i] \notin Source!Delivered
    BY <2>1, CopyFresh DEF Source!Delivered, Delivered
  <2>4. ASSUME NEW j \in 1 .. k, c[i] = c[j] PROVE i = j
    <3>1. Src(st[p]) + j - 1 \in Index /\ Src(st[p]) + j - 1 >= CleanTo(p)
      BY <1>3, <1>7, <1>8
    <3>2. st[p].pool[Src(st[p]) + j - 1] = st[p].pool[h]
      BY <1>3, <2>1, <2>4
    <3>3. h = Src(st[p]) + j - 1
      BY <2>1, <3>1, <3>2, PoolBytes
    <3>. QED BY <1>7, <1>8, <3>3
  <2>. QED BY <2>2, <2>3, <2>4
<1>12. DOMAIN c = 1 .. k
    BY <1>3, <1>8
<1>13. Source!Fresh(c)
    BY <1>11, <1>12 DEF Source!Fresh
<1>14. Debt' = [Debt EXCEPT ![p] = Debt[p] - k] /\ Debt[p] = n[p]
    BY <1>5, <1>6 DEF Debt
<1>15. /\ Len(log[p]) < Len(log'[p])
       /\ Len(Source!NewBytes(p)) = k
       /\ k <= Debt[p]
    BY <1>2, <1>3, <1>8, <1>10, <1>14
<1>16. Source!Deliver(p)
    BY <1>4, <1>10, <1>13, <1>14, <1>15 DEF Source!Deliver, Debt
<1>. QED BY <1>16 DEF Source!Next

LEMMA SourceStep == IInv /\ [Next]_vars => [Source!Next]_(Source!vars)
<1>. SUFFICES ASSUME IInv, [Next]_vars PROVE Source!Next \/ UNCHANGED Source!vars
    OBVIOUS
<1>0. TypeOK /\ ControlInv /\ KeysInv /\ LogInv /\ PoolInv
    BY DEF IInv
<1>1. ASSUME NEW p \in Proc, NEW k \in RequestSize, Call(p, k)
      PROVE  Source!Next
    BY <1>0, <1>1, SourceCall
<1>2. ASSUME NEW p \in Proc, Copy(p)
      PROVE  Source!Next
    BY <1>0, <1>2, SourceCopy
<1>3. ASSUME NEW p \in Proc, Return(p) \/ Test(p) \/ Reseed(p) \/ ReseedFails(p) \/ Fill(p)
      PROVE  UNCHANGED Source!vars
  <2>1. log' = log /\ n' = n /\ m' = m
    BY <1>3 DEF Return, Test, Reseed, ReseedFails, Fill
  <2>2. \A q \in Proc : pc'[q] = pc[q] \/ {pc[q], pc'[q]} \cap {"wipe", "advance"} = {}
    BY <1>0, <1>3 DEF Return, Test, Reseed, ReseedFails, Fill, Goto, TypeOK
  <2>. QED BY <2>1, <2>2, SourceStutter DEF Owed
<1>4. ASSUME NEW p \in Proc, Wipe(p)
      PROVE  UNCHANGED Source!vars
  <2>1. log' = log /\ n' = n /\ m' = m /\ pc[p] = "wipe"
        /\ pc'[p] = "advance" /\ \A q \in Proc \ {p} : pc'[q] = pc[q]
    BY <1>0, <1>4 DEF Wipe, Goto, TypeOK
  <2>. QED BY <2>1, SourceStutter DEF Owed
<1>5. ASSUME NEW p \in Proc, Advance(p)
      PROVE  UNCHANGED Source!vars
  <2>1. log' = log /\ m' = m /\ pc[p] = "advance" /\ pc'[p] = "loop"
        /\ n'[p] = n[p] - m[p]
        /\ \A q \in Proc \ {p} : pc'[q] = pc[q] /\ n'[q] = n[q]
    BY <1>0, <1>5 DEF Advance, Goto, TypeOK
  <2>. QED BY <2>1, SourceStutter DEF Owed
<1>6. ASSUME NEW p \in Proc, NEW q \in Proc, Fork(p, q)
      PROVE  UNCHANGED Source!vars
  <2>1. log' = log /\ n' = n /\ m' = m /\ pc[q] = "unborn" /\ pc'[q] = "idle"
        /\ \A r \in Proc \ {q} : pc'[r] = pc[r]
    BY <1>0, <1>6 DEF Fork, Goto, TypeOK
  <2>. QED BY <2>1, SourceStutter DEF Owed
<1>7. CASE UNCHANGED vars
  <2>1. log' = log /\ n' = n /\ m' = m /\ pc' = pc
    BY <1>7 DEF vars
  <2>. QED BY <2>1, SourceStutter DEF Owed
<1>. QED BY <1>1, <1>2, <1>3, <1>4, <1>5, <1>6, <1>7 DEF Next, Step

\* randp_bytes is a source of fresh bytes: every call delivers what it was
\* asked for, in pieces none of whose bytes was ever delivered to anyone.
THEOREM ImplementsSource == Spec => SourceSpec
    BY SourceInit, SourceStep, Invariance, PTL DEF Spec, SourceSpec, Source!Spec
=============================================================================
