-------------------------- MODULE RandpMutexProofs --------------------------
(***************************************************************************)
(* Proofs about RandpMutex, for every number of processes and threads,     *)
(* every pool size, block size, reseed interval and request size.          *)
(*                                                                         *)
(* Everything rests on Exclusive: while a thread is inside, no other       *)
(* thread of its process is, so the structure it tested is the one it      *)
(* copies from, and the byte it copied is wiped before the next thread     *)
(* comes in.  A fork makes a process whose only thread is outside.         *)
(***************************************************************************)
EXTENDS RandpMutex, RandpStructProofs

-----------------------------------------------------------------------------
(* The structure of a process, and the thread that is inside.              *)

LEMMA Structures ==
    ASSUME TypeOK, NEW t \in Thread
    PROVE  /\ proc[t] \in Proc /\ Struct_of(t) = st[proc[t]] /\ Struct_of(t) \in Struct
           /\ n[t] \in Nat /\ m[t] \in Nat /\ log[t] \in Seq(Byte) /\ seeds \in Nat
    BY SizesAssumption DEF TypeOK, Struct_of

\* Two threads inside are not of the same process.
LEMMA Alone ==
    ASSUME Exclusive, NEW t \in Inside, NEW u \in Inside, proc[t] = proc[u]
    PROVE  t = u
    BY DEF Exclusive

LEMMA LogByte ==
    ASSUME TypeOK, NEW t \in Thread, NEW j \in DOMAIN log[t]
    PROVE  log[t][j] \in Byte /\ log[t][j].ctr \in Nat
<1>1. log[t] \in Seq(Byte)
    BY DEF TypeOK
<1>2. log[t][j] \in Byte
    BY <1>1
<1>. QED BY <1>2 DEF Byte

\* A structure with something left in it has keys, and so does one that does not
\* have to be reseeded.
LEMMA KeysDrawn ==
    ASSUME MutexInv, NEW p \in Proc,
           st[p].rand_bytes_remaining > 0 \/ st[p].reseed_countdown # 0
    PROVE  st[p].keys \in 1 .. seeds
<1>1. st[p] \in Struct /\ seeds \in Nat /\ st[p].keys <= seeds
      /\ (st[p].keys = 0 => st[p] = ZeroPage)
    BY DEF MutexInv, TypeOK, ContentInv
<1>2. st[p].keys # 0
    BY <1>1 DEF ZeroPage
<1>. QED BY <1>1, <1>2 DEF Struct

-----------------------------------------------------------------------------
(* Steps that leave the structures alone, or make one of zeros.            *)

\* A structure is as it was, or it is of zeros; a thread that copied has not yet
\* wiped what it copied; nothing is drawn and nothing delivered.
Calm ==
    /\ log' = log /\ seeds' = seeds
    /\ \A p \in Proc : st'[p] = st[p] \/ st'[p] = ZeroPage
    /\ \A u \in Thread : pc[u] = "advance" =>
          pc'[u] = "advance" /\ proc'[u] = proc[u] /\ m'[u] = m[u]

LEMMA CalmStep ==
    ASSUME MutexInv, Calm
    PROVE  ContentInv' /\ DeliveredInv' /\ UndeliveredInv' /\ NoRepeat'
<1>0. /\ TypeOK /\ ContentInv /\ DeliveredInv /\ UndeliveredInv /\ NoRepeat
      /\ log' = log /\ seeds' = seeds /\ seeds \in Nat
      /\ \A p \in Proc : st'[p] = st[p] \/ st'[p] = ZeroPage
    BY DEF MutexInv, Calm, TypeOK
<1>1. ZeroPage.keys = 0
    BY DEF ZeroPage
<1>2. ContentInv'
  <2>1. SUFFICES ASSUME NEW p \in Proc
                 PROVE  /\ st'[p].keys <= seeds
                        /\ st'[p].keys = 0 => st'[p] = ZeroPage
                        /\ Shaped(st'[p])
                        /\ \A q \in Proc :
                              st'[p].keys = st'[q].keys /\ st'[p].keys # 0 => p = q
    BY <1>0 DEF ContentInv, Shaped
  <2>2. /\ st'[p].keys <= seeds
        /\ st'[p].keys = 0 => st'[p] = ZeroPage
        /\ Shaped(st'[p])
    BY <1>0, <1>1, ZeroPageShaped DEF ContentInv
  <2>3. ASSUME NEW q \in Proc, st'[p].keys = st'[q].keys, st'[p].keys # 0 PROVE p = q
    <3>1. st'[p] = st[p] /\ st'[q] = st[q]
      BY <1>0, <1>1, <2>3
    <3>. QED BY <1>0, <2>3, <3>1 DEF ContentInv
  <2>. QED BY <2>2, <2>3
<1>3. DeliveredInv'
  <2>1. SUFFICES ASSUME NEW t \in Thread, NEW j \in DOMAIN log[t]
                 PROVE  /\ log[t][j].seed \in 1 .. seeds
                        /\ \A p \in Proc :
                              log[t][j].seed = st'[p].keys => log[t][j].ctr < st'[p].ctr
    BY <1>0 DEF DeliveredInv
  <2>2. log[t][j].seed \in 1 .. seeds /\ log[t][j].seed # 0
    BY <1>0 DEF DeliveredInv
  <2>3. ASSUME NEW p \in Proc, log[t][j].seed = st'[p].keys
        PROVE  log[t][j].ctr < st'[p].ctr
    <3>1. st'[p] = st[p]
      BY <1>0, <1>1, <2>2, <2>3
    <3>. QED BY <1>0, <2>3, <3>1 DEF DeliveredInv
  <2>. QED BY <2>2, <2>3
<1>4. UndeliveredInv'
  <2>1. SUFFICES ASSUME NEW p \in Proc, NEW i \in Index, NEW t \in Thread, Left(p, i)'
                 PROVE  st'[p].pool[i] \notin Received(t)
    BY <1>0 DEF UndeliveredInv, Received
  <2>2. CASE st'[p] = ZeroPage
    <3>1. i >= PoolSize
      BY <2>1, <2>2, ZeroPageShaped DEF Left, Src
    <3>. QED BY <3>1, SizesAssumption DEF Index
  <2>3. CASE st'[p] = st[p]
    <3>1. Left(p, i)
      BY <2>1, <2>3 DEF Left, Src, Calm
    <3>. QED BY <1>0, <2>3, <3>1 DEF UndeliveredInv
  <2>. QED BY <1>0, <2>2, <2>3
<1>5. NoRepeat'
    BY <1>0 DEF NoRepeat
<1>. QED BY <1>2, <1>3, <1>4, <1>5

\* The rest of the invariant, for a step of t that changes no label but its own,
\* no structure and no count.
LEMMA OwnStep ==
    ASSUME MutexInv, NEW t \in Thread, NEW label,
           pc' = [pc EXCEPT ![t] = label], pc[t] # "advance",
           UNCHANGED <<born, proc, m, log, st, seeds>>,
           \A u \in Thread \ {t} : n'[u] = n[u],
           TypeOK', Exclusive',
           label \in {"unborn", "idle"} => n'[t] = 0,
           label \in {"regen", "copy"} => n'[t] > 0,
           label = "regen" => Struct_of(t).rand_bytes_remaining = 0,
           label = "copy" => Struct_of(t).rand_bytes_remaining > 0,
           label # "advance"
    PROVE  MutexInv'
<1>0. /\ TypeOK /\ BornInv /\ LoopInv
    BY DEF MutexInv
<1>1. pc'[t] = label /\ \A u \in Thread \ {t} : pc'[u] = pc[u]
    BY <1>0 DEF TypeOK
<1>2. Calm
    BY <1>1 DEF Calm
<1>3. BornInv'
    BY <1>0 DEF BornInv
<1>4. LoopInv'
  <2>1. \A u \in Thread : Struct_of(u)' = Struct_of(u)
    BY DEF Struct_of
  <2>. QED BY <1>0, <1>1, <2>1 DEF LoopInv
<1>. QED BY <1>2, <1>3, <1>4, CalmStep DEF MutexInv

-----------------------------------------------------------------------------
(* Initially.                                                              *)

LEMMA MutexInit == Init => MutexInv
<1>. SUFFICES ASSUME Init PROVE MutexInv
    OBVIOUS
<1>. USE DEF Init
<1>1. TypeOK
    BY CallersAssumption, SizesAssumption, ZeroPageType DEF TypeOK
<1>2. BornInv /\ Exclusive /\ LoopInv
    BY DEF BornInv, Exclusive, Inside, LoopInv
<1>3. ContentInv
    BY ZeroPageShaped DEF ContentInv, ZeroPage
<1>4. \A t \in Thread : DOMAIN log[t] = {}
    OBVIOUS
<1>5. DeliveredInv /\ UndeliveredInv /\ NoRepeat
    BY <1>4 DEF DeliveredInv, UndeliveredInv, Received, NoRepeat
<1>. QED BY <1>1, <1>2, <1>3, <1>5 DEF MutexInv

-----------------------------------------------------------------------------
(* The steps of a call outside the loop, one lemma each.                   *)

LEMMA CallStep ==
    ASSUME MutexInv, NEW t \in Thread, NEW k \in RequestSize, Call(t, k)
    PROVE  MutexInv'
<1>0. TypeOK /\ Exclusive
    BY DEF MutexInv
<1>1. /\ pc' = [pc EXCEPT ![t] = "lock"] /\ pc[t] = "idle" /\ n' = [n EXCEPT ![t] = k]
      /\ UNCHANGED <<born, proc, m, log, mutex, this_, st, seeds>>
    BY DEF Call, Goto, At
<1>2. TypeOK'
    BY <1>0, <1>1, CallersAssumption DEF TypeOK
<1>3. Exclusive'
    BY <1>0, <1>1 DEF Exclusive, Inside, TypeOK
<1>4. \A u \in Thread \ {t} : n'[u] = n[u]
    BY <1>0, <1>1 DEF TypeOK
<1>. QED BY <1>1, <1>2, <1>3, <1>4, OwnStep

\* The mutex is free, so that nobody is inside.
LEMMA LockStep ==
    ASSUME MutexInv, NEW t \in Thread, Lock(t)
    PROVE  MutexInv'
<1>0. TypeOK /\ Exclusive /\ LoopInv
    BY DEF MutexInv
<1>1. PICK label \in {"loop", "allocate"} :
         /\ pc' = [pc EXCEPT ![t] = label] /\ pc[t] = "lock"
         /\ mutex[proc[t]] = NoOne /\ mutex' = [mutex EXCEPT ![proc[t]] = t]
         /\ UNCHANGED <<born, proc, n, m, log, this_, st, seeds>>
    BY DEF Lock, Goto, At
<1>2. TypeOK'
    BY <1>0, <1>1 DEF TypeOK
<1>3. Exclusive'
  <2>1. SUFFICES ASSUME NEW u \in Thread, u \in Inside' PROVE mutex'[proc'[u]] = u
    BY DEF Exclusive, Inside
  <2>2. CASE u = t
    BY <1>0, <1>1, <2>2 DEF TypeOK
  <2>3. CASE u # t
    <3>1. u \in Inside
      BY <1>0, <1>1, <2>1, <2>3 DEF Inside, TypeOK
    <3>2. mutex[proc[u]] = u /\ proc[u] # proc[t]
      BY <1>0, <1>1, <3>1, CallersAssumption DEF Exclusive
    <3>. QED BY <1>0, <1>1, <3>2 DEF TypeOK
  <2>. QED BY <2>2, <2>3
<1>. QED BY <1>1, <1>2, <1>3, OwnStep

LEMMA TestStep ==
    ASSUME MutexInv, NEW t \in Thread, Test(t)
    PROVE  MutexInv'
<1>0. TypeOK /\ Exclusive
    BY DEF MutexInv
<1>1. PICK label \in {"regen", "copy"} :
         /\ pc' = [pc EXCEPT ![t] = label] /\ pc[t] = "loop" /\ n[t] > 0
         /\ label = (IF Struct_of(t).rand_bytes_remaining = 0 THEN "regen" ELSE "copy")
         /\ UNCHANGED <<born, proc, n, m, log, mutex, this_, st, seeds>>
    BY DEF Test, Goto, At
<1>2. Struct_of(t).rand_bytes_remaining \in Nat
    BY <1>0, Structures, SizesAssumption DEF Struct
<1>3. TypeOK'
    BY <1>0, <1>1 DEF TypeOK
<1>4. Exclusive'
    BY <1>0, <1>1 DEF Exclusive, Inside, TypeOK
<1>5. /\ label = "regen" => Struct_of(t).rand_bytes_remaining = 0
      /\ label = "copy" => Struct_of(t).rand_bytes_remaining > 0
    BY <1>1, <1>2
<1>6. /\ pc[t] # "advance" /\ label # "advance" /\ label \notin {"unborn", "idle"}
      /\ n' = n /\ n'[t] > 0
    BY <1>1
<1>. QED BY <1>1, <1>3, <1>4, <1>5, <1>6, OwnStep

\* Only the holder unlocks.
LEMMA UnlockStep ==
    ASSUME MutexInv, NEW t \in Thread, Unlock(t)
    PROVE  MutexInv'
<1>0. TypeOK /\ Exclusive
    BY DEF MutexInv
<1>1. /\ pc' = [pc EXCEPT ![t] = "idle"] /\ pc[t] = "loop" /\ n[t] = 0
      /\ mutex' = [mutex EXCEPT ![proc[t]] = NoOne]
      /\ UNCHANGED <<born, proc, n, m, log, this_, st, seeds>>
    BY DEF Unlock, Goto, At
<1>2. TypeOK'
    BY <1>0, <1>1 DEF TypeOK
<1>3. Exclusive'
  <2>1. SUFFICES ASSUME NEW u \in Thread, u \in Inside' PROVE mutex'[proc'[u]] = u
    BY DEF Exclusive, Inside
  <2>2. u # t /\ u \in Inside /\ t \in Inside
    BY <1>0, <1>1, <2>1 DEF Inside, TypeOK
  <2>3. proc[u] # proc[t] /\ mutex[proc[u]] = u
    BY <1>0, <2>2, Alone DEF Exclusive
  <2>. QED BY <1>0, <1>1, <2>3 DEF TypeOK
<1>. QED BY <1>1, <1>2, <1>3, OwnStep

\* A page of zeros, which no other thread of the process looks at.
LEMMA AllocateStep ==
    ASSUME MutexInv, NEW t \in Thread, Allocate(t)
    PROVE  MutexInv'
<1>0. TypeOK /\ Exclusive /\ BornInv /\ LoopInv
    BY DEF MutexInv
<1>1. /\ pc' = [pc EXCEPT ![t] = "loop"] /\ pc[t] = "allocate"
      /\ this_' = [this_ EXCEPT ![proc[t]] = TRUE]
      /\ st' = [st EXCEPT ![proc[t]] = ZeroPage]
      /\ UNCHANGED <<born, proc, n, m, log, mutex, seeds>>
    BY DEF Allocate, Goto, At, SetStruct
<1>2. TypeOK'
    BY <1>0, <1>1, ZeroPageType DEF TypeOK
<1>3. Exclusive'
    BY <1>0, <1>1 DEF Exclusive, Inside, TypeOK
<1>4. BornInv'
    BY <1>0, <1>1 DEF BornInv
<1>5. pc'[t] = "loop" /\ \A u \in Thread \ {t} : pc'[u] = pc[u]
    BY <1>0, <1>1 DEF TypeOK
<1>6. ASSUME NEW u \in Thread \ {t}, u \in Inside PROVE Struct_of(u)' = Struct_of(u)
  <2>1. proc[u] # proc[t]
    BY <1>0, <1>1, <1>6, Alone DEF Inside
  <2>. QED BY <1>0, <1>1, <2>1 DEF Struct_of, TypeOK
<1>7. LoopInv'
    BY <1>0, <1>1, <1>5, <1>6 DEF LoopInv, Inside
<1>8. Calm
    BY <1>0, <1>1, <1>5 DEF Calm, TypeOK
<1>. QED BY <1>2, <1>3, <1>4, <1>7, <1>8, CalmStep DEF MutexInv

\* t is inside when it fails, so that no other thread is stopped in the loop.
LEMMA FailsEffect ==
    ASSUME MutexInv, NEW t \in Thread, Fails(t)
    PROVE  /\ UNCHANGED <<born, proc, n, m, log, mutex, this_, st, seeds>>
           /\ \A u \in Thread : \/ pc'[u] = pc[u]
                                \/ pc'[u] = "exited" /\ pc[u] \notin {"unborn", "advance"}
<1>0. TypeOK /\ Exclusive
    BY DEF MutexInv
<1>1. pc[t] \in {"allocate", "regen"}
    BY DEF Fails, At
<1>2. ASSUME NEW u \in Thread, pc[u] = "advance" PROVE proc[u] # proc[t]
    BY <1>0, <1>1, <1>2, Alone DEF Inside
<1>3. /\ UNCHANGED <<born, proc, n, m, log, mutex, this_, st, seeds>>
      /\ \A u \in Thread : pc'[u] = IF proc[u] = proc[t] /\ pc[u] # "unborn"
                                    THEN "exited" ELSE pc[u]
    BY DEF Fails
<1>. QED BY <1>2, <1>3

LEMMA FailsStep ==
    ASSUME MutexInv, NEW t \in Thread, Fails(t)
    PROVE  MutexInv'
<1>0. TypeOK /\ Exclusive /\ BornInv /\ LoopInv
    BY DEF MutexInv
<1>1. /\ UNCHANGED <<born, proc, n, m, log, mutex, this_, st, seeds>>
      /\ \A u \in Thread : \/ pc'[u] = pc[u]
                           \/ pc'[u] = "exited" /\ pc[u] \notin {"unborn", "advance"}
    BY FailsEffect
<1>2. TypeOK'
  <2>1. pc' \in [Thread -> {"unborn", "idle", "lock", "allocate", "loop", "regen",
                            "copy", "advance", "exited"}]
    BY <1>0 DEF Fails, TypeOK
  <2>. QED BY <1>0, <1>1, <2>1 DEF TypeOK
<1>3. Exclusive' /\ BornInv'
    BY <1>0, <1>1 DEF Exclusive, Inside, BornInv
<1>4. LoopInv'
  <2>1. \A u \in Thread : Struct_of(u)' = Struct_of(u)
    BY <1>1 DEF Struct_of
  <2>. QED BY <1>0, <1>1, <2>1 DEF LoopInv
<1>5. Calm
    BY <1>1 DEF Calm
<1>. QED BY <1>2, <1>3, <1>4, <1>5, CalmStep DEF MutexInv

\* A new thread is outside.
LEMMA SpawnStep ==
    ASSUME MutexInv, NEW t \in Thread, NEW u \in Thread, Spawn(t, u)
    PROVE  MutexInv'
<1>0. TypeOK /\ Exclusive /\ BornInv /\ LoopInv
    BY DEF MutexInv
<1>1. /\ pc' = [pc EXCEPT ![u] = "idle"] /\ pc[u] = "unborn"
      /\ proc' = [proc EXCEPT ![u] = proc[t]]
      /\ UNCHANGED <<born, n, m, log, mutex, this_, st, seeds>>
    BY DEF Spawn, Goto, At
<1>2. /\ pc'[u] = "idle" /\ proc'[u] = proc[t]
      /\ \A v \in Thread \ {u} : pc'[v] = pc[v] /\ proc'[v] = proc[v]
    BY <1>0, <1>1 DEF TypeOK
<1>3. TypeOK'
    BY <1>0, <1>1 DEF TypeOK
<1>4. Exclusive' /\ BornInv'
    BY <1>0, <1>1, <1>2 DEF Exclusive, Inside, BornInv
<1>5. LoopInv'
  <2>1. \A v \in Thread \ {u} : Struct_of(v)' = Struct_of(v)
    BY <1>1, <1>2 DEF Struct_of
  <2>. QED BY <1>0, <1>1, <1>2, <2>1 DEF LoopInv
<1>6. Calm
    BY <1>1, <1>2 DEF Calm
<1>. QED BY <1>3, <1>4, <1>5, <1>6, CalmStep DEF MutexInv

\* No thread was of the new process, so that the thread of the fork is alone in
\* it, and its structure is wiped.
LEMMA ForkStep ==
    ASSUME MutexInv, NEW t \in Thread, NEW u \in Thread, NEW q \in Proc, Fork(t, u, q)
    PROVE  MutexInv'
<1>0. TypeOK /\ Exclusive /\ BornInv /\ LoopInv
    BY DEF MutexInv
<1>1. /\ pc' = [pc EXCEPT ![u] = "idle"] /\ pc[u] = "unborn" /\ q \notin born
      /\ proc' = [proc EXCEPT ![u] = q] /\ born' = born \cup {q}
      /\ st' = [st EXCEPT ![q] = ZeroPage]
      /\ mutex' = [mutex EXCEPT ![q] = IF mutex[proc[t]] = NoOne THEN NoOne ELSE Lost]
      /\ this_' = [this_ EXCEPT ![q] = this_[proc[t]]]
      /\ UNCHANGED <<n, m, log, seeds>>
    BY DEF Fork, Goto, At, ForkImage
<1>2. /\ pc'[u] = "idle" /\ proc'[u] = q
      /\ \A v \in Thread \ {u} : pc'[v] = pc[v] /\ proc'[v] = proc[v] /\ proc[v] # q
    BY <1>0, <1>1 DEF TypeOK, BornInv
<1>3. TypeOK'
  <2>1. proc[t] \in Proc
    BY <1>0, Structures
  <2>. QED BY <1>0, <1>1, <2>1, ZeroPageType DEF TypeOK
<1>4. BornInv'
    BY <1>0, <1>1, <1>2 DEF BornInv
<1>5. Exclusive'
    BY <1>0, <1>1, <1>2 DEF Exclusive, Inside, TypeOK
<1>6. LoopInv'
  <2>1. \A v \in Thread \ {u} : Struct_of(v)' = Struct_of(v)
    BY <1>0, <1>1, <1>2 DEF Struct_of, TypeOK
  <2>. QED BY <1>0, <1>1, <1>2, <2>1 DEF LoopInv
<1>7. Calm
    BY <1>0, <1>1, <1>2 DEF Calm, TypeOK
<1>. QED BY <1>3, <1>4, <1>5, <1>6, <1>7, CalmStep DEF MutexInv

LEMMA StutterStep == MutexInv /\ UNCHANGED vars => MutexInv'
<1>. SUFFICES ASSUME MutexInv, UNCHANGED vars PROVE MutexInv'
    OBVIOUS
<1>1. UNCHANGED <<born, proc, pc, n, m, log, mutex, this_, st, seeds>>
    BY DEF vars
<1>2. Calm
    BY <1>1 DEF Calm
<1>3. TypeOK' /\ BornInv' /\ Exclusive' /\ LoopInv'
    BY <1>1 DEF MutexInv, TypeOK, BornInv, Exclusive, Inside, LoopInv, Struct_of
<1>. QED BY <1>2, <1>3, CalmStep DEF MutexInv

-----------------------------------------------------------------------------
(* The steps of the loop.                                                  *)

\* What randp_regen does to the structure of p: a full pool of keystream, under
\* the keys it had or under a seed that is new.
Refilled(p) ==
    /\ st' \in [Proc -> Struct] /\ \A q \in Proc \ {p} : st'[q] = st[q]
    /\ Src(st'[p]) = 0 /\ NumBlocks <= st'[p].ctr /\ st'[p].rand_bytes_remaining > 0
    /\ \A i \in Index : /\ st'[p].pool[i] = KeyByte(st'[p], i)
                        /\ st'[p].pool[i].seed = st'[p].keys
    /\ st'[p].keys \in 1 .. seeds'
    /\ \/ /\ seeds' = seeds
          /\ st'[p].keys = st[p].keys /\ st[p].ctr <= st'[p].ctr
          /\ \A i \in Index : st[p].ctr <= st'[p].pool[i].ctr
       \/ seeds' = seeds + 1 /\ st'[p].keys = seeds + 1

LEMMA RegenEffect ==
    ASSUME MutexInv, NEW t \in Thread, Regen(t)
    PROVE  /\ pc[t] = "regen" /\ pc' = [pc EXCEPT ![t] = "copy"]
           /\ UNCHANGED <<born, proc, n, m, log, mutex, this_>>
           /\ seeds' \in 0 .. MaxSeeds
           /\ Refilled(proc[t])
<1>0. TypeOK /\ seeds \in Nat /\ MaxSeeds \in Nat
    BY CallersAssumption DEF MutexInv, TypeOK
<1>1. PICK p \in Proc : p = proc[t]
    BY <1>0, Structures
<1>2. /\ pc[t] = "regen" /\ pc' = [pc EXCEPT ![t] = "copy"]
      /\ UNCHANGED <<born, proc, n, m, log, mutex, this_>>
    BY DEF Regen, At, Goto
<1>. DEFINE s == st[p]
<1>3. s = Struct_of(t) /\ s \in Struct
    BY <1>0, <1>1, Structures
<1>. HIDE DEF s
<1>4. ASSUME NEW new \in Struct, st' = [st EXCEPT ![p] = new]
      PROVE  /\ st'[p] = new /\ st' \in [Proc -> Struct]
             /\ \A q \in Proc \ {p} : st'[q] = st[q]
    BY <1>0, <1>4 DEF TypeOK
<1>5. CASE s.reseed_countdown = 0
  <2>. DEFINE r == Reseeded(s, seeds + 1)
  <2>1. /\ r \in Struct /\ r.keys = seeds + 1 /\ r.reseed_countdown > 0
        /\ Filled(r) \in Struct
    <3>1. r \in Struct
      BY <1>0, <1>3, ReseededType
    <3>2. r.keys = seeds + 1 /\ r.reseed_countdown > 0
      BY SizesAssumption DEF Reseeded
    <3>. QED BY <3>1, <3>2, FilledType
  <2>2. seeds < MaxSeeds /\ seeds' = seeds + 1 /\ st' = [st EXCEPT ![p] = Filled(r)]
    BY <1>1, <1>3, <1>5 DEF Regen, SetStruct
  <2>. HIDE DEF r
  <2>3. /\ st'[p] = Filled(r) /\ st' \in [Proc -> Struct]
        /\ \A q \in Proc \ {p} : st'[q] = st[q]
    BY <1>4, <2>1, <2>2
  <2>4. /\ Filled(r).keys = r.keys /\ Src(Filled(r)) = 0
        /\ NumBlocks <= Filled(r).ctr /\ Filled(r).rand_bytes_remaining > 0
        /\ \A i \in Index : /\ Filled(r).pool[i] = KeyByte(Filled(r), i)
                           /\ Filled(r).pool[i].seed = r.keys
    BY <2>1, FilledFields
  <2>5. seeds + 1 \in 1 .. seeds' /\ seeds' \in 0 .. MaxSeeds
    BY <1>0, <2>2
  <2>6. Refilled(p)
    BY <2>1, <2>2, <2>3, <2>4, <2>5 DEF Refilled
  <2>. QED BY <1>1, <1>2, <2>5, <2>6
<1>6. CASE s.reseed_countdown # 0
  <2>1. Filled(s) \in Struct /\ s.keys \in 1 .. seeds
    <3>1. s.reseed_countdown > 0
      BY <1>3, <1>6 DEF Struct
    <3>. QED BY <1>3, <1>6, <3>1, FilledType, KeysDrawn DEF s
  <2>2. seeds' = seeds /\ st' = [st EXCEPT ![p] = Filled(s)]
    BY <1>1, <1>3, <1>6 DEF Regen, SetStruct
  <2>3. /\ st'[p] = Filled(s) /\ st' \in [Proc -> Struct]
        /\ \A q \in Proc \ {p} : st'[q] = st[q]
    BY <1>4, <2>1, <2>2
  <2>4. /\ Filled(s).keys = s.keys /\ Src(Filled(s)) = 0
        /\ s.ctr <= Filled(s).ctr /\ NumBlocks <= Filled(s).ctr
        /\ Filled(s).rand_bytes_remaining > 0
        /\ \A i \in Index : /\ Filled(s).pool[i] = KeyByte(Filled(s), i)
                           /\ Filled(s).pool[i].seed = s.keys
                           /\ s.ctr <= Filled(s).pool[i].ctr
    BY <1>3, FilledFields
  <2>5. Refilled(p)
    BY <2>1, <2>2, <2>3, <2>4 DEF Refilled, s
  <2>6. seeds' \in 0 .. MaxSeeds
    BY <1>0, <2>2 DEF TypeOK
  <2>. QED BY <1>1, <1>2, <2>5, <2>6
<1>. QED BY <1>5, <1>6

\* A refilled pool holds nothing that was delivered.
LEMMA RefilledContent ==
    ASSUME MutexInv, NEW p \in Proc, Refilled(p), log' = log,
           \A u \in Thread : pc[u] = "advance" =>
               pc'[u] = "advance" /\ proc'[u] = proc[u] /\ m'[u] = m[u]
    PROVE  ContentInv' /\ DeliveredInv' /\ UndeliveredInv' /\ NoRepeat'
<1>0. /\ TypeOK /\ ContentInv /\ DeliveredInv /\ UndeliveredInv /\ NoRepeat
      /\ seeds \in Nat /\ \A q \in Proc \ {p} : st'[q] = st[q]
      /\ st \in [Proc -> Struct] /\ st' \in [Proc -> Struct]
    BY DEF MutexInv, TypeOK, Refilled
<1>1. /\ st'[p].keys \in 1 .. seeds' /\ (seeds' = seeds \/ seeds' = seeds + 1)
      /\ Src(st'[p]) = 0 /\ NumBlocks <= st'[p].ctr
      /\ \A i \in Index : /\ st'[p].pool[i] = KeyByte(st'[p], i)
                          /\ st'[p].pool[i].seed = st'[p].keys
    BY DEF Refilled
<1>2. \A q \in Proc : st[q].keys \in Nat /\ st[q].keys <= seeds
    BY <1>0 DEF ContentInv, Struct
<1>3. ContentInv'
  <2>1. Shaped(st'[p])
    <3>1. \A i \in Index : ~(i < 0)
      BY SizesAssumption DEF Index
    <3>. QED BY <1>1, <3>1 DEF Shaped
  <2>2. ASSUME NEW q \in Proc \ {p} PROVE st'[q].keys # st'[p].keys
    <3>1. CASE st'[p].keys = st[p].keys
      BY <1>0, <1>1, <2>2, <3>1 DEF ContentInv
    <3>2. CASE st'[p].keys = seeds + 1
      BY <1>0, <1>2, <2>2, <3>2
    <3>. QED BY <3>1, <3>2 DEF Refilled
  <2>3. ASSUME NEW q \in Proc
        PROVE  /\ st'[q].keys <= seeds'
               /\ st'[q].keys = 0 => st'[q] = ZeroPage
               /\ Shaped(st'[q])
    <3>1. CASE q = p
      BY <1>0, <1>1, <2>1, <3>1
    <3>2. CASE q # p
      <4>1. st'[q] = st[q] /\ st[q].keys <= seeds'
        BY <1>0, <1>1, <1>2, <3>2
      <4>. QED BY <1>0, <4>1 DEF ContentInv
    <3>. QED BY <3>1, <3>2
  <2>4. ASSUME NEW q \in Proc, NEW r \in Proc, st'[q].keys = st'[r].keys, st'[q].keys # 0
        PROVE  q = r
    BY <1>0, <2>2, <2>4 DEF ContentInv
  <2>. QED BY <2>3, <2>4 DEF ContentInv, Shaped
<1>4. ASSUME NEW u \in Thread, NEW j \in DOMAIN log[u], log[u][j].seed = st'[p].keys
      PROVE  /\ log[u][j].ctr < st'[p].ctr
             /\ \A i \in Index : log[u][j] # st'[p].pool[i]
  <2>1. log[u][j].seed \in 1 .. seeds
    BY <1>0 DEF DeliveredInv
  <2>2. st'[p].keys # seeds + 1
    BY <1>0, <1>4, <2>1
  <2>3. /\ st'[p].keys = st[p].keys /\ st[p].ctr <= st'[p].ctr
        /\ \A i \in Index : st[p].ctr <= st'[p].pool[i].ctr
    BY <2>2 DEF Refilled
  <2>4. log[u][j].ctr < st[p].ctr
    BY <1>0, <1>4, <2>3 DEF DeliveredInv
  <2>5. log[u][j].ctr \in Nat /\ st[p].ctr \in Nat /\ st'[p].ctr \in Nat
    BY <1>0, LogByte DEF Struct
  <2>6. ASSUME NEW i \in Index, log[u][j] = st'[p].pool[i] PROVE FALSE
    <3>1. st[p].ctr <= log[u][j].ctr
      BY <2>3, <2>6
    <3>. QED BY <2>4, <2>5, <3>1
  <2>. QED BY <2>3, <2>4, <2>5, <2>6
<1>5. DeliveredInv'
  <2>1. SUFFICES ASSUME NEW u \in Thread, NEW j \in DOMAIN log[u]
                 PROVE  /\ log[u][j].seed \in 1 .. seeds'
                        /\ \A q \in Proc :
                              log[u][j].seed = st'[q].keys => log[u][j].ctr < st'[q].ctr
    BY DEF DeliveredInv
  <2>2. log[u][j].seed \in 1 .. seeds'
    <3>1. log[u][j].seed \in 1 .. seeds
      BY <1>0 DEF DeliveredInv
    <3>. QED BY <1>0, <1>1, <3>1
  <2>3. ASSUME NEW q \in Proc, log[u][j].seed = st'[q].keys
        PROVE  log[u][j].ctr < st'[q].ctr
    <3>1. CASE q = p
      BY <1>4, <2>3, <3>1
    <3>2. CASE q # p
      BY <1>0, <2>3, <3>2 DEF DeliveredInv
    <3>. QED BY <3>1, <3>2
  <2>. QED BY <2>2, <2>3
<1>6. UndeliveredInv'
  <2>1. SUFFICES ASSUME NEW q \in Proc, NEW i \in Index, NEW u \in Thread, Left(q, i)'
                 PROVE  st'[q].pool[i] \notin Received(u)
    BY DEF UndeliveredInv, Received
  <2>2. CASE q = p
    <3>1. ASSUME NEW j \in DOMAIN log[u], log[u][j] = st'[p].pool[i] PROVE FALSE
      <4>1. log[u][j].seed = st'[p].keys
        BY <1>1, <3>1
      <4>. QED BY <1>4, <3>1, <4>1
    <3>. QED BY <2>2, <3>1 DEF Received
  <2>3. CASE q # p
    <3>1. st'[q] = st[q]
      BY <1>0, <2>3
    <3>2. Left(q, i)
      BY <2>1, <3>1 DEF Left, Src
    <3>. QED BY <1>0, <3>1, <3>2 DEF UndeliveredInv
  <2>. QED BY <2>2, <2>3
<1>7. NoRepeat'
    BY <1>0 DEF NoRepeat
<1>. QED BY <1>3, <1>5, <1>6, <1>7

LEMMA RegenStep ==
    ASSUME MutexInv, NEW t \in Thread, Regen(t)
    PROVE  MutexInv'
<1>0. TypeOK /\ Exclusive /\ BornInv /\ LoopInv
    BY DEF MutexInv
<1>1. /\ pc[t] = "regen" /\ pc' = [pc EXCEPT ![t] = "copy"]
      /\ UNCHANGED <<born, proc, n, m, log, mutex, this_>>
      /\ seeds' \in 0 .. MaxSeeds /\ Refilled(proc[t])
    BY RegenEffect
<1>2. pc'[t] = "copy" /\ \A u \in Thread \ {t} : pc'[u] = pc[u]
    BY <1>0, <1>1 DEF TypeOK
<1>3. /\ st' \in [Proc -> Struct] /\ st'[proc[t]].rand_bytes_remaining > 0
      /\ \A q \in Proc \ {proc[t]} : st'[q] = st[q]
    BY <1>1 DEF Refilled
<1>4. TypeOK'
    BY <1>0, <1>1, <1>3 DEF TypeOK
<1>5. Exclusive' /\ BornInv'
    BY <1>0, <1>1, <1>2 DEF Exclusive, Inside, BornInv
<1>6. ASSUME NEW u \in Thread \ {t}, u \in Inside PROVE Struct_of(u)' = Struct_of(u)
  <2>1. proc[u] # proc[t]
    BY <1>0, <1>1, <1>6, Alone DEF Inside
  <2>. QED BY <1>0, <1>1, <1>3, <2>1 DEF Struct_of, TypeOK
<1>7. LoopInv'
  <2>1. Struct_of(t)'.rand_bytes_remaining > 0 /\ n[t] > 0
    BY <1>0, <1>1, <1>3 DEF Struct_of, LoopInv
  <2>. QED BY <1>0, <1>1, <1>2, <1>6, <2>1 DEF LoopInv, Inside
<1>8. proc[t] \in Proc
    BY <1>0, Structures
<1>9. ContentInv' /\ DeliveredInv' /\ UndeliveredInv' /\ NoRepeat'
    BY <1>1, <1>2, <1>8, RefilledContent
<1>. QED BY <1>4, <1>5, <1>7, <1>9 DEF MutexInv

\* The structure of a thread that takes bytes, how many, and that it is alone.
Takes(t, p, k) ==
    /\ p = proc[t] /\ Struct_of(t) = st[p] /\ st[p] \in Struct /\ Shaped(st[p])
    /\ n[t] \in Nat /\ n[t] > 0 /\ st[p].rand_bytes_remaining > 0
    /\ k = Chunk(st[p], n[t]) /\ k \in 1 .. st[p].rand_bytes_remaining
    /\ k \in 0 .. PoolSize /\ k <= n[t]
    /\ st[p].keys \in 1 .. seeds /\ Src(st[p]) \in Nat
    /\ \A u \in Inside : proc[u] = p => u = t

LEMMA TakesFrom ==
    ASSUME MutexInv, NEW t \in Thread, pc[t] \in {"copy", "advance"}
    PROVE  \E p \in Proc, k \in Nat : Takes(t, p, k)
<1>0. TypeOK /\ Exclusive /\ LoopInv /\ ContentInv
    BY DEF MutexInv
<1>1. PICK p \in Proc : p = proc[t] /\ Struct_of(t) = st[p]
    BY <1>0, Structures
<1>2. /\ st[p] \in Struct /\ n[t] \in Nat /\ n[t] > 0
      /\ st[p].rand_bytes_remaining > 0 /\ Shaped(st[p])
    BY <1>0, <1>1, Structures DEF LoopInv, ContentInv
<1>. DEFINE k == Chunk(st[p], n[t])
<1>3. /\ k \in 0 .. PoolSize /\ k \in 0 .. st[p].rand_bytes_remaining
      /\ k <= n[t] /\ k > 0
    BY <1>2, ChunkType
<1>4. k \in Nat /\ k \in 1 .. st[p].rand_bytes_remaining
    BY <1>3
<1>5. st[p].keys \in 1 .. seeds
    BY <1>2, KeysDrawn
<1>6. Src(st[p]) \in Nat
    BY <1>2, SizesAssumption DEF Struct, Src
<1>7. \A u \in Inside : proc[u] = p => u = t
    BY <1>0, <1>1, Alone DEF Inside
<1>. HIDE DEF k
<1>8. k = Chunk(st[p], n[t])
    BY DEF k
<1>9. Takes(t, p, k)
    BY <1>1, <1>2, <1>3, <1>4, <1>5, <1>6, <1>7, <1>8 DEF Takes
<1>. QED BY <1>4, <1>9

\* What is left in a pool that nobody is wiping was delivered to nobody.
LEMMA CopyFresh ==
    ASSUME MutexInv, NEW t \in Thread, NEW p \in Proc, NEW k \in Nat,
           Takes(t, p, k), pc[t] = "copy",
           NEW i \in Index, i >= Src(st[p]), NEW u \in Thread
    PROVE  st[p].pool[i] \notin Received(u)
<1>1. ASSUME NEW v \in Thread, pc[v] = "advance", proc[v] = p PROVE FALSE
  <2>1. v \in Inside
    BY <1>1 DEF Inside
  <2>2. v = t
    BY <1>1, <2>1 DEF Takes
  <2>. QED BY <1>1, <2>2
<1>2. Left(p, i)
    BY <1>1 DEF Left
<1>. QED BY <1>2 DEF MutexInv, UndeliveredInv

\* A byte that is left in a pool is in no other pool, nor elsewhere in this one.
LEMMA LeftByte ==
    ASSUME MutexInv, NEW p \in Proc, NEW i \in Index, i >= Src(st[p])
    PROVE  /\ st[p].pool[i].seed = st[p].keys /\ st[p].keys \in 1 .. seeds
           /\ st[p].pool[i].ctr < st[p].ctr
           /\ st[p].pool[i] # Zero
           /\ \A j \in Index :
                 j >= Src(st[p]) /\ st[p].pool[j] = st[p].pool[i] => j = i
<1>1. st[p] \in Struct /\ Shaped(st[p])
    BY DEF MutexInv, TypeOK, ContentInv
<1>2. /\ st[p].rand_bytes_remaining > 0
      /\ st[p].pool[i].seed = st[p].keys
      /\ st[p].pool[i].ctr < st[p].ctr
      /\ st[p].keys # 0 => st[p].pool[i] # Zero
      /\ \A j \in Index : j >= Src(st[p]) /\ st[p].pool[j] = st[p].pool[i] => j = i
    BY <1>1, ShapedByte
<1>3. st[p].keys \in 1 .. seeds
    BY <1>2, KeysDrawn
<1>4. st[p].keys # 0
    BY <1>3
<1>. QED BY <1>2, <1>3, <1>4

\* The j-th byte that t has after it copied is one it had, or the i-th of the pool.
OldByte(t, j) == j \in DOMAIN log[t] /\ log'[t][j] = log[t][j]
NewByte(t, p, k, j, i) ==
    /\ Src(st[p]) <= i
    /\ i < Src(st[p]) + k
    /\ j = Len(log[t]) + 1 + (i - Src(st[p]))
    /\ log'[t][j] = st[p].pool[i]

\* The logs after t copied k bytes from the pool of p.
NewLog(t, p, k) ==
    /\ log' \in [Thread -> Seq(Byte)]
    /\ \A u \in Thread \ {t} : log'[u] = log[u]
    /\ \A j \in DOMAIN log'[t] :
          OldByte(t, j) \/ \E i \in Index : NewByte(t, p, k, j, i)

LEMMA CopyLog ==
    ASSUME MutexInv, NEW t \in Thread, NEW p \in Proc, NEW k \in Nat,
           Takes(t, p, k), Copy(t)
    PROVE  NewLog(t, p, k)
<1>. DEFINE s == st[p]
<1>0. s \in Struct /\ log \in [Thread -> Seq(Byte)] /\ log[t] \in Seq(Byte)
      /\ k \in 1 .. s.rand_bytes_remaining
    BY DEF MutexInv, TypeOK, Takes
<1>1. log' = [log EXCEPT ![t] = log[t] \o Copied(s, k)]
    BY DEF Copy, Takes
<1>. HIDE DEF s
<1>2. /\ log[t] \o Copied(s, k) \in Seq(Byte)
      /\ Len(log[t] \o Copied(s, k)) = Len(log[t]) + k
    BY <1>0, AppendedBytes
<1>3. log'[t] = log[t] \o Copied(s, k) /\ \A u \in Thread \ {t} : log'[u] = log[u]
    BY <1>0, <1>1
<1>4. log' \in [Thread -> Seq(Byte)]
    BY <1>0, <1>1, <1>2
<1>5. ASSUME NEW j \in 1 .. Len(log[t]) PROVE OldByte(t, j)
  <2>1. (log[t] \o Copied(s, k))[j] = log[t][j]
    BY <1>0, KeptByte
  <2>. QED BY <1>0, <1>3, <2>1 DEF OldByte
<1>6. ASSUME NEW j \in Len(log[t]) + 1 .. Len(log[t]) + k
      PROVE  \E i \in Index : NewByte(t, p, k, j, i)
  <2>. DEFINE i == Origin(s, log[t], j)
  <2>1. /\ i \in Index /\ Src(s) <= i /\ i < Src(s) + k
        /\ j = Len(log[t]) + 1 + (i - Src(s))
        /\ (log[t] \o Copied(s, k))[j] = s.pool[i]
    BY <1>0, AppendedByte
  <2>2. NewByte(t, p, k, j, i)
    BY <1>3, <2>1 DEF NewByte, s
  <2>. QED BY <2>1, <2>2
<1>7. ASSUME NEW j \in DOMAIN log'[t]
      PROVE  j \in 1 .. Len(log[t]) \/ j \in Len(log[t]) + 1 .. Len(log[t]) + k
  <2>1. DOMAIN log'[t] = 1 .. Len(log[t]) + k
    BY <1>2, <1>3
  <2>2. k \in Nat /\ Len(log[t]) \in Nat
    BY <1>0
  <2>. QED BY <2>1, <2>2
<1>8. \A j \in DOMAIN log'[t] :
         OldByte(t, j) \/ \E i \in Index : NewByte(t, p, k, j, i)
    BY <1>5, <1>6, <1>7, Zenon
<1>. QED BY <1>3, <1>4, <1>8 DEF NewLog

LEMMA CopyNoRepeat ==
    ASSUME MutexInv, NEW t \in Thread, NEW p \in Proc, NEW k \in Nat,
           Takes(t, p, k), Copy(t)
    PROVE  NoRepeat'
<1>0. NoRepeat /\ log \in [Thread -> Seq(Byte)] /\ Src(st[p]) \in Nat
    BY DEF MutexInv, TypeOK, Takes
<1>1. \A u \in Thread \ {t} : log'[u] = log[u]
    BY CopyLog DEF NewLog
<1>2. \A j \in DOMAIN log'[t] :
         OldByte(t, j) \/ \E i \in Index : NewByte(t, p, k, j, i)
    BY CopyLog DEF NewLog
<1>3. ASSUME NEW j \in DOMAIN log'[t], NEW i \in Index, NewByte(t, p, k, j, i),
             NEW u \in Thread, NEW h \in DOMAIN log[u]
      PROVE  log[u][h] # log'[t][j]
  <2>1. i >= Src(st[p]) /\ log'[t][j] = st[p].pool[i]
    BY <1>0, <1>3 DEF NewByte, Index
  <2>2. st[p].pool[i] \notin Received(u)
    BY <2>1, CopyFresh DEF Copy, At
  <2>. QED BY <1>3, <2>1, <2>2 DEF Received
<1>4. ASSUME NEW j \in DOMAIN log'[t], NEW u \in Thread \ {t}, NEW h \in DOMAIN log'[u]
      PROVE  log'[t][j] # log'[u][h]
  <2>1. CASE OldByte(t, j)
    BY <1>0, <1>1, <1>4, <2>1 DEF NoRepeat, OldByte
  <2>2. CASE \E i \in Index : NewByte(t, p, k, j, i)
    BY <1>1, <1>3, <1>4, <2>2
  <2>. QED BY <1>2, <2>1, <2>2
<1>5. ASSUME NEW j \in DOMAIN log'[t], NEW h \in DOMAIN log'[t], log'[t][j] = log'[t][h]
      PROVE  j = h
  <2>1. ASSUME OldByte(t, j), OldByte(t, h) PROVE j = h
    <3>1. log[t][j] = log[t][h] /\ j \in DOMAIN log[t] /\ h \in DOMAIN log[t]
      BY <1>5, <2>1 DEF OldByte
    <3>. QED BY <1>0, <3>1 DEF NoRepeat
  <2>2. ASSUME NEW i \in Index, NewByte(t, p, k, j, i), OldByte(t, h) PROVE FALSE
    <3>1. h \in DOMAIN log[t] /\ log'[t][h] = log[t][h]
      BY <2>2 DEF OldByte
    <3>. QED BY <1>3, <1>5, <2>2, <3>1
  <2>3. ASSUME NEW i \in Index, NewByte(t, p, k, h, i), OldByte(t, j) PROVE FALSE
    <3>1. j \in DOMAIN log[t] /\ log'[t][j] = log[t][j]
      BY <2>3 DEF OldByte
    <3>. QED BY <1>3, <1>5, <2>3, <3>1
  <2>4. ASSUME NEW i \in Index, NewByte(t, p, k, j, i),
               NEW g \in Index, NewByte(t, p, k, h, g)
        PROVE  j = h
    <3>1. i >= Src(st[p]) /\ g >= Src(st[p]) /\ st[p].pool[i] = st[p].pool[g]
      BY <1>0, <1>5, <2>4 DEF NewByte, Index
    <3>2. g = i
      BY <3>1, LeftByte
    <3>. QED BY <2>4, <3>2 DEF NewByte
  <2>. QED BY <1>2, <2>1, <2>2, <2>3, <2>4
<1>6. SUFFICES ASSUME NEW u \in Thread, NEW v \in Thread,
                      NEW j \in DOMAIN log'[u], NEW h \in DOMAIN log'[v],
                      log'[u][j] = log'[v][h]
               PROVE  u = v /\ j = h
    BY DEF NoRepeat
<1>7. CASE u # t /\ v # t
    BY <1>0, <1>1, <1>6, <1>7 DEF NoRepeat
<1>8. CASE u = t \/ v = t
    BY <1>4, <1>5, <1>6, <1>8
<1>. QED BY <1>7, <1>8

LEMMA CopyStep ==
    ASSUME MutexInv, NEW t \in Thread, Copy(t)
    PROVE  MutexInv'
<1>0. /\ TypeOK /\ BornInv /\ Exclusive /\ LoopInv /\ ContentInv
      /\ DeliveredInv /\ UndeliveredInv
    BY DEF MutexInv
<1>1. PICK p \in Proc, k \in Nat : Takes(t, p, k)
    BY TakesFrom DEF Copy, At
<1>2. /\ pc[t] = "copy" /\ pc' = [pc EXCEPT ![t] = "advance"]
      /\ m' = [m EXCEPT ![t] = k]
      /\ UNCHANGED <<born, proc, n, mutex, this_, st, seeds>>
    BY <1>1 DEF Copy, At, Goto, Takes
<1>3. log' \in [Thread -> Seq(Byte)] /\ \A u \in Thread \ {t} : log'[u] = log[u]
    BY <1>1, CopyLog DEF NewLog
<1>4. ASSUME NEW j \in DOMAIN log'[t]
       PROVE  OldByte(t, j) \/ \E i \in Index : NewByte(t, p, k, j, i)
    BY <1>1, CopyLog DEF NewLog
<1>5. /\ p = proc[t] /\ Struct_of(t) = st[p] /\ n[t] > 0 /\ Src(st[p]) \in Nat
      /\ st[p].rand_bytes_remaining > 0 /\ st[p].keys # 0
      /\ k = Chunk(st[p], n[t]) /\ k \in 0 .. PoolSize
    BY <1>1 DEF Takes
<1>6. /\ pc'[t] = "advance" /\ m'[t] = k
      /\ \A u \in Thread \ {t} : pc'[u] = pc[u] /\ m'[u] = m[u]
    BY <1>0, <1>2 DEF TypeOK
<1>7. TypeOK'
    BY <1>0, <1>2, <1>3, <1>5 DEF TypeOK
<1>8. BornInv' /\ Exclusive'
    BY <1>0, <1>2, <1>6 DEF BornInv, Exclusive, Inside
<1>9. LoopInv'
  <2>1. \A u \in Thread : Struct_of(u)' = Struct_of(u) /\ n'[u] = n[u]
    BY <1>2 DEF Struct_of
  <2>. QED BY <1>0, <1>5, <1>6, <2>1 DEF LoopInv
<1>10. ContentInv'
    BY <1>0, <1>2 DEF ContentInv, Shaped
<1>11. ASSUME NEW j \in DOMAIN log'[t], NEW i \in Index, NewByte(t, p, k, j, i)
      PROVE  /\ i >= Src(st[p]) /\ i < Src(st[p]) + k
             /\ log'[t][j] = st[p].pool[i]
             /\ log'[t][j].seed = st[p].keys /\ log'[t][j].seed \in 1 .. seeds
             /\ log'[t][j].ctr < st[p].ctr
  <2>1. i >= Src(st[p]) /\ i < Src(st[p]) + k /\ log'[t][j] = st[p].pool[i]
    BY <1>5, <1>11 DEF NewByte, Index
  <2>. QED BY <2>1, LeftByte
<1>12. ASSUME NEW q \in Proc, st[q].keys = st[p].keys PROVE q = p
    BY <1>0, <1>5, <1>12 DEF ContentInv
<1>13. DeliveredInv'
  <2>1. SUFFICES ASSUME NEW u \in Thread, NEW j \in DOMAIN log'[u]
                 PROVE  /\ log'[u][j].seed \in 1 .. seeds
                        /\ \A q \in Proc :
                              log'[u][j].seed = st[q].keys => log'[u][j].ctr < st[q].ctr
    BY <1>2 DEF DeliveredInv
  <2>2. CASE u # t
    BY <1>0, <1>2, <1>3, <2>1, <2>2 DEF DeliveredInv
  <2>3. CASE u = t /\ OldByte(t, j)
    BY <1>0, <2>1, <2>3 DEF DeliveredInv, OldByte
  <2>4. ASSUME u = t, NEW i \in Index, NewByte(t, p, k, j, i)
        PROVE  /\ log'[u][j].seed \in 1 .. seeds
               /\ \A q \in Proc :
                     log'[u][j].seed = st[q].keys => log'[u][j].ctr < st[q].ctr
    <3>1. /\ log'[t][j].seed \in 1 .. seeds
          /\ log'[t][j].seed = st[p].keys /\ log'[t][j].ctr < st[p].ctr
      BY <1>11, <2>1, <2>4
    <3>. QED BY <1>12, <2>4, <3>1
  <2>. QED BY <1>4, <2>1, <2>2, <2>3, <2>4
<1>14. UndeliveredInv'
  <2>1. SUFFICES ASSUME NEW q \in Proc, NEW i \in Index, NEW u \in Thread, Left(q, i)'
                 PROVE  \A j \in DOMAIN log'[u] : log'[u][j] # st[q].pool[i]
    BY <1>2 DEF UndeliveredInv, Received
  <2>2. i >= Src(st[q]) /\ (q = p => i >= Src(st[p]) + k)
    BY <1>2, <1>5, <1>6, <2>1 DEF Left, Src
  <2>3. Left(q, i)
    BY <1>2, <1>6, <2>1 DEF Left, Src
  <2>4. st[q].pool[i] \notin Received(u)
    BY <1>0, <2>3 DEF UndeliveredInv
  <2>5. CASE u # t
    BY <1>2, <1>3, <2>4, <2>5 DEF Received
  <2>6. ASSUME NEW j \in DOMAIN log'[t], u = t, OldByte(t, j)
        PROVE  log'[t][j] # st[q].pool[i]
    BY <2>4, <2>6 DEF OldByte, Received
  <2>7. ASSUME NEW j \in DOMAIN log'[t], NEW g \in Index, NewByte(t, p, k, j, g),
               log'[t][j] = st[q].pool[i]
        PROVE  FALSE
    <3>1. /\ g >= Src(st[p]) /\ g < Src(st[p]) + k
          /\ st[p].pool[g] = st[q].pool[i]
          /\ st[q].pool[i].seed = st[p].keys
      BY <1>11, <2>7
    <3>2. st[q].pool[i].seed = st[q].keys
      BY <2>2, LeftByte
    <3>3. q = p
      BY <1>12, <3>1, <3>2
    <3>4. i = g
      BY <2>2, <3>1, <3>3, LeftByte
    <3>. QED BY <1>5, <2>2, <3>1, <3>3, <3>4 DEF Index
  <2>. QED BY <1>4, <2>5, <2>6, <2>7
<1>15. NoRepeat'
    BY <1>1, CopyNoRepeat
<1>. QED BY <1>7, <1>8, <1>9, <1>10, <1>13, <1>14, <1>15 DEF MutexInv

\* The wipe of what was copied, before the mutex lets anybody else at the pool.
LEMMA AdvanceStep ==
    ASSUME MutexInv, NEW t \in Thread, Advance(t)
    PROVE  MutexInv'
<1>. DEFINE new(p, k) == Advanced(Wiped(st[p], k), k)
<1>0. /\ TypeOK /\ BornInv /\ Exclusive /\ LoopInv /\ ContentInv
      /\ DeliveredInv /\ UndeliveredInv /\ NoRepeat
    BY DEF MutexInv
<1>1. pc[t] = "advance" /\ m[t] = Chunk(Struct_of(t), n[t])
    BY <1>0 DEF Advance, At, LoopInv
<1>2. PICK p \in Proc, k \in Nat : Takes(t, p, k)
    BY <1>1, TakesFrom
<1>3. /\ p = proc[t] /\ Struct_of(t) = st[p] /\ st[p] \in Struct /\ Shaped(st[p])
      /\ m[t] = k /\ k \in 0 .. st[p].rand_bytes_remaining /\ k <= n[t] /\ n[t] \in Nat
      /\ st[p].keys # 0 /\ Src(st[p]) \in Nat
      /\ \A u \in Inside : proc[u] = p => u = t
    BY <1>1, <1>2 DEF Takes
<1>4. /\ UNCHANGED <<born, proc, m, log, mutex, this_, seeds>>
      /\ pc' = [pc EXCEPT ![t] = "loop"]
      /\ n' = [n EXCEPT ![t] = n[t] - k]
      /\ st' = [st EXCEPT ![p] = new(p, k)]
    BY <1>3 DEF Advance, Goto, SetStruct
<1>5. /\ new(p, k) \in Struct /\ new(p, k).keys = st[p].keys
      /\ new(p, k).ctr = st[p].ctr
      /\ Src(new(p, k)) = Src(st[p]) + k /\ Shaped(new(p, k))
      /\ \A i \in Index : i >= Src(st[p]) + k => new(p, k).pool[i] = st[p].pool[i]
    BY <1>3, AdvancedShape
<1>. HIDE DEF new
<1>6. /\ st'[p] = new(p, k) /\ st' \in [Proc -> Struct]
      /\ \A q \in Proc \ {p} : st'[q] = st[q]
    BY <1>0, <1>4, <1>5 DEF TypeOK
<1>7. /\ pc'[t] = "loop" /\ n'[t] = n[t] - k /\ n[t] - k \in Nat
      /\ \A u \in Thread \ {t} : pc'[u] = pc[u] /\ n'[u] = n[u]
    BY <1>0, <1>3, <1>4 DEF TypeOK
<1>8. TypeOK'
  <2>1. /\ n' \in [Thread -> Nat]
        /\ pc' \in [Thread -> {"unborn", "idle", "lock", "allocate", "loop", "regen",
                              "copy", "advance", "exited"}]
    BY <1>0, <1>4, <1>7 DEF TypeOK
  <2>. QED BY <1>0, <1>4, <1>6, <2>1 DEF TypeOK
<1>9. BornInv' /\ Exclusive'
    BY <1>0, <1>1, <1>4, <1>7 DEF BornInv, Exclusive, Inside
<1>10. ASSUME NEW u \in Thread \ {t}, u \in Inside
       PROVE  proc[u] # p /\ Struct_of(u)' = Struct_of(u)
  <2>1. proc[u] # p
    BY <1>3, <1>10
  <2>. QED BY <1>0, <1>4, <1>6, <2>1 DEF Struct_of, TypeOK
<1>11. LoopInv'
    BY <1>0, <1>4, <1>7, <1>10 DEF LoopInv, Inside
<1>12. ContentInv'
  <2>1. \A q \in Proc : st'[q].keys = st[q].keys
    BY <1>5, <1>6
  <2>2. ASSUME NEW q \in Proc
        PROVE  /\ st'[q].keys <= seeds
               /\ st'[q].keys = 0 => st'[q] = ZeroPage
               /\ Shaped(st'[q])
    <3>1. CASE q = p
      BY <1>0, <1>3, <1>5, <1>6, <2>1, <3>1 DEF ContentInv
    <3>2. CASE q # p
      BY <1>0, <1>6, <3>2 DEF ContentInv
    <3>. QED BY <3>1, <3>2
  <2>. QED BY <1>0, <1>4, <2>1, <2>2 DEF ContentInv, Shaped
<1>13. DeliveredInv'
  <2>1. \A q \in Proc : st'[q].keys = st[q].keys /\ st'[q].ctr = st[q].ctr
    BY <1>5, <1>6
  <2>. QED BY <1>0, <1>4, <2>1 DEF DeliveredInv
<1>14. UndeliveredInv'
  <2>1. SUFFICES ASSUME NEW q \in Proc, NEW i \in Index, NEW u \in Thread, Left(q, i)'
                 PROVE  st'[q].pool[i] \notin Received(u)
    BY <1>4 DEF UndeliveredInv, Received
  <2>2. CASE q = p
    <3>1. i >= Src(st[p]) + k /\ i \in Nat
      BY <1>5, <1>6, <2>1, <2>2, IndexType DEF Left, Src
    <3>2. \A v \in Thread : pc[v] = "advance" /\ proc[v] = p => m[v] = k
      BY <1>3 DEF Inside
    <3>3. Left(p, i)
      BY <1>3, <3>1, <3>2 DEF Left
    <3>4. st'[p].pool[i] = st[p].pool[i]
      BY <1>5, <1>6, <3>1
    <3>. QED BY <1>0, <2>2, <3>3, <3>4 DEF UndeliveredInv
  <2>3. CASE q # p
    <3>1. st'[q] = st[q]
      BY <1>6, <2>3
    <3>2. \A v \in Thread : pc[v] = "advance" /\ proc[v] = q => pc'[v] = "advance"
      BY <1>3, <1>7, <2>3
    <3>3. Left(q, i)
      BY <1>4, <2>1, <3>1, <3>2 DEF Left, Src
    <3>. QED BY <1>0, <3>1, <3>3 DEF UndeliveredInv
  <2>. QED BY <2>2, <2>3
<1>15. NoRepeat'
    BY <1>0, <1>4 DEF NoRepeat
<1>. QED BY <1>8, <1>9, <1>11, <1>12, <1>13, <1>14, <1>15 DEF MutexInv

-----------------------------------------------------------------------------
(* The theorems.                                                           *)

LEMMA MutexStep == MutexInv /\ [Next]_vars => MutexInv'
<1>. SUFFICES ASSUME MutexInv, [Next]_vars PROVE MutexInv'
    OBVIOUS
<1>1. ASSUME NEW t \in Thread, Step(t) PROVE MutexInv'
    BY <1>1, LockStep, AllocateStep, FailsStep, TestStep, RegenStep, CopyStep,
       AdvanceStep, UnlockStep DEF Step
<1>2. ASSUME NEW t \in Thread, NEW k \in RequestSize, Call(t, k) PROVE MutexInv'
    BY <1>2, CallStep
<1>3. ASSUME NEW t \in Thread, NEW u \in Thread, Spawn(t, u) PROVE MutexInv'
    BY <1>3, SpawnStep
<1>4. ASSUME NEW t \in Thread, NEW u \in Thread, NEW q \in Proc, Fork(t, u, q)
      PROVE  MutexInv'
    BY <1>4, ForkStep
<1>5. CASE UNCHANGED vars
    BY <1>5, StutterStep
<1>. QED BY <1>1, <1>2, <1>3, <1>4, <1>5 DEF Next

\* The invariant of the shared pool is kept by every step of every thread, and
\* by a fork at any moment of another thread's call.
THEOREM MutexInvariance == Spec => []MutexInv
    BY MutexInit, MutexStep, PTL DEF Spec

\* At most one thread of a process is between the lock and the unlock, and it is
\* the one that the mutex says.
THEOREM MutexExcludes == Spec => []Exclusive
<1>1. MutexInv => Exclusive
    BY DEF MutexInv
<1>. QED BY <1>1, MutexInvariance, PTL

-----------------------------------------------------------------------------
(* The shared pool is a source of fresh bytes.                             *)

\* owed of the abstract specification, under the refinement mapping.
Debt == [t \in Thread |-> Owed(t)]

LEMMA SourceInit == Init => Source!Init
<1>. SUFFICES ASSUME Init PROVE Source!Init
    OBVIOUS
<1>1. \A t \in Thread : Owed(t) = 0
    BY DEF Init, Owed
<1>. QED BY <1>1 DEF Init, Source!Init

\* A step that changes neither what was delivered nor what is owed.
LEMMA SourceStutter ==
    ASSUME log' = log, \A t \in Thread : Owed(t)' = Owed(t)
    PROVE  UNCHANGED Source!vars
    BY DEF Source!vars

LEMMA SourceRequest ==
    ASSUME MutexInv, NEW t \in Thread, NEW k \in RequestSize, Call(t, k)
    PROVE  Source!Next
<1>0. LoopInv /\ TypeOK
    BY DEF MutexInv
<1>1. /\ pc[t] = "idle" /\ n[t] = 0
      /\ n' = [n EXCEPT ![t] = k] /\ pc' = [pc EXCEPT ![t] = "lock"]
      /\ m' = m /\ log' = log
    BY <1>0 DEF Call, At, Goto, LoopInv
<1>2. /\ n'[t] = k /\ pc'[t] = "lock"
      /\ \A u \in Thread \ {t} : n'[u] = n[u] /\ pc'[u] = pc[u]
    BY <1>0, <1>1 DEF TypeOK
<1>3. /\ Owed(t) = 0 /\ Owed(t)' = k
      /\ \A u \in Thread \ {t} : Owed(u)' = Owed(u)
    BY <1>1, <1>2 DEF Owed
<1>4. Debt' = [Debt EXCEPT ![t] = k] /\ Debt[t] = 0
    BY <1>3 DEF Debt
<1>5. Source!Request(t)
    BY <1>1, <1>4 DEF Source!Request, Debt
<1>. QED BY <1>5 DEF Source!Next

\* memcpy delivers bytes that are all different and new to all threads.
LEMMA SourceCopy ==
    ASSUME MutexInv, NEW t \in Thread, Copy(t)
    PROVE  Source!Next
<1>0. TypeOK
    BY DEF MutexInv
<1>1. PICK p \in Proc, k \in Nat : Takes(t, p, k)
    BY TakesFrom DEF Copy, At
<1>2. /\ pc[t] = "copy" /\ pc' = [pc EXCEPT ![t] = "advance"]
      /\ m' = [m EXCEPT ![t] = k] /\ n' = n
      /\ log' = [log EXCEPT ![t] = log[t] \o Copied(st[p], k)]
    BY <1>1 DEF Copy, At, Goto, Takes
<1>. DEFINE s == st[p]
            c == Copied(s, k)
<1>3. /\ s \in Struct /\ k \in 1 .. s.rand_bytes_remaining /\ k <= n[t]
      /\ k \in 0 .. s.rand_bytes_remaining /\ k > 0 /\ Src(s) \in Nat
    BY <1>1 DEF Takes
<1>4. /\ c \in Seq(Byte) /\ Len(c) = k
      /\ \A j \in 1 .. k : Src(s) + j - 1 \in Index
      /\ \A j \in 1 .. k : c[j] = s.pool[Src(s) + j - 1]
    BY <1>3, CopiedType DEF Copied
<1>5. n \in [Thread -> Nat] /\ log \in [Thread -> Seq(Byte)] /\ log[t] \in Seq(Byte)
    BY <1>0 DEF TypeOK
<1>6. /\ pc'[t] = "advance" /\ m'[t] = k
      /\ \A u \in Thread \ {t} : pc'[u] = pc[u] /\ m'[u] = m[u]
    BY <1>0, <1>2 DEF TypeOK
<1>7. /\ Owed(t) = n[t] /\ Owed(t)' = n[t] - k
      /\ \A u \in Thread \ {t} : Owed(u)' = Owed(u)
    BY <1>2, <1>6 DEF Owed
<1>8. /\ Len(log[t] \o Copied(s, k)) = Len(log[t]) + k
      /\ SubSeq(log[t] \o Copied(s, k), Len(log[t]) + 1, Len(log[t]) + k) = Copied(s, k)
    BY <1>3, <1>5, AppendedBytes
<1>9. log'[t] = log[t] \o c /\ log' = [log EXCEPT ![t] = log[t] \o c]
    BY <1>2, <1>5
<1>10. /\ Len(log'[t]) = Len(log[t]) + k
       /\ SubSeq(log'[t], Len(log[t]) + 1, Len(log'[t])) = c
    BY <1>8, <1>9
<1>. HIDE DEF c
<1>11. Source!NewBytes(t) = c
    BY <1>10 DEF Source!NewBytes
<1>12. ASSUME NEW i \in 1 .. k
       PROVE  /\ c[i] # Zero
              /\ c[i] \notin Source!Delivered
              /\ \A j \in 1 .. k : c[i] = c[j] => i = j
  <2>. DEFINE h == Src(s) + i - 1
  <2>1. h \in Index /\ h >= Src(s) /\ c[i] = s.pool[h]
    BY <1>3, <1>4
  <2>2. c[i] # Zero
    BY <2>1, LeftByte
  <2>3. c[i] \notin Source!Delivered
    <3>1. \A u \in Thread : c[i] \notin Received(u)
      BY <1>1, <1>2, <2>1, CopyFresh
    <3>. QED BY <3>1 DEF Source!Delivered, Received
  <2>4. ASSUME NEW j \in 1 .. k, c[i] = c[j] PROVE i = j
    <3>1. Src(s) + j - 1 \in Index /\ Src(s) + j - 1 >= Src(s)
      BY <1>3, <1>4
    <3>2. s.pool[Src(s) + j - 1] = s.pool[h]
      BY <1>4, <2>1, <2>4
    <3>3. h = Src(s) + j - 1
      BY <2>1, <3>1, <3>2, LeftByte
    <3>. QED BY <1>3, <3>3
  <2>. QED BY <2>2, <2>3, <2>4
<1>13. Source!Fresh(c)
  <2>1. DOMAIN c = 1 .. k
    BY <1>4
  <2>. QED BY <1>12, <2>1 DEF Source!Fresh
<1>14. Debt' = [Debt EXCEPT ![t] = Debt[t] - k] /\ Debt[t] = n[t]
    BY <1>7 DEF Debt
<1>15. /\ Len(log[t]) < Len(log'[t])
       /\ Len(Source!NewBytes(t)) = k
       /\ k <= Debt[t]
  <2>1. Len(log[t]) \in Nat /\ k \in Nat
    BY <1>5
  <2>. QED BY <1>3, <1>4, <1>10, <1>11, <1>14, <2>1
<1>16. Source!Deliver(t)
    BY <1>9, <1>11, <1>13, <1>14, <1>15 DEF Source!Deliver, Debt
<1>. QED BY <1>16 DEF Source!Next

LEMMA SourceStep == MutexInv /\ [Next]_vars => [Source!Next]_(Source!vars)
<1>. SUFFICES ASSUME MutexInv, [Next]_vars PROVE Source!Next \/ UNCHANGED Source!vars
    OBVIOUS
<1>0. TypeOK
    BY DEF MutexInv
<1>1. ASSUME NEW t \in Thread, NEW k \in RequestSize, Call(t, k) PROVE Source!Next
    BY <1>1, SourceRequest
<1>2. ASSUME NEW t \in Thread, Copy(t) PROVE Source!Next
    BY <1>2, SourceCopy
<1>3. ASSUME NEW t \in Thread, Advance(t) PROVE UNCHANGED Source!vars
  <2>1. /\ pc[t] = "advance" /\ pc' = [pc EXCEPT ![t] = "loop"]
        /\ n' = [n EXCEPT ![t] = n[t] - m[t]] /\ m' = m /\ log' = log
    BY <1>3 DEF Advance, At, Goto
  <2>2. /\ pc'[t] = "loop" /\ n'[t] = n[t] - m[t]
        /\ \A u \in Thread \ {t} : pc'[u] = pc[u] /\ n'[u] = n[u]
    BY <1>0, <2>1 DEF TypeOK
  <2>. QED BY <2>1, <2>2, SourceStutter DEF Owed
<1>4. ASSUME NEW t \in Thread, NEW label, pc' = [pc EXCEPT ![t] = label],
             label # "advance", pc[t] # "advance", UNCHANGED <<n, m, log>>
      PROVE  UNCHANGED Source!vars
  <2>1. pc'[t] = label /\ \A u \in Thread \ {t} : pc'[u] = pc[u]
    BY <1>0, <1>4 DEF TypeOK
  <2>. QED BY <1>4, <2>1, SourceStutter DEF Owed
<1>5. ASSUME NEW t \in Thread,
             Lock(t) \/ Allocate(t) \/ Test(t) \/ Regen(t) \/ Unlock(t)
      PROVE  UNCHANGED Source!vars
  <2>1. PICK label \in {"loop", "allocate", "regen", "copy", "idle"} :
           pc' = [pc EXCEPT ![t] = label]
    BY <1>5 DEF Lock, Allocate, Test, Regen, Unlock, Goto
  <2>2. pc[t] # "advance" /\ UNCHANGED <<n, m, log>>
    BY <1>5 DEF Lock, Allocate, Test, Regen, Unlock, At
  <2>. QED BY <1>4, <2>1, <2>2
<1>6. ASSUME NEW t \in Thread, Fails(t) PROVE UNCHANGED Source!vars
    BY <1>6, FailsEffect, SourceStutter DEF Owed
<1>7. ASSUME NEW t \in Thread, NEW u \in Thread, Spawn(t, u)
      PROVE  UNCHANGED Source!vars
  <2>1. pc' = [pc EXCEPT ![u] = "idle"] /\ pc[u] # "advance" /\ UNCHANGED <<n, m, log>>
    BY <1>7 DEF Spawn, Goto
  <2>. QED BY <1>4, <2>1
<1>8. ASSUME NEW t \in Thread, NEW u \in Thread, NEW q \in Proc, Fork(t, u, q)
      PROVE  UNCHANGED Source!vars
  <2>1. pc' = [pc EXCEPT ![u] = "idle"] /\ pc[u] # "advance" /\ UNCHANGED <<n, m, log>>
    BY <1>8 DEF Fork, Goto
  <2>. QED BY <1>4, <2>1
<1>9. CASE UNCHANGED vars
  <2>1. UNCHANGED <<pc, n, m, log>>
    BY <1>9 DEF vars
  <2>. QED BY <2>1, SourceStutter DEF Owed
<1>. QED BY <1>1, <1>2, <1>3, <1>5, <1>6, <1>7, <1>8, <1>9 DEF Next, Step

\* What threads that share a pool under the mutex deliver, in all processes, is
\* fresh bytes only, and as many as each caller asked for.
THEOREM MutexImplementsSource == Spec => SourceSpec
    BY SourceInit, SourceStep, MutexInvariance, PTL DEF Spec, SourceSpec, Source!Spec
=============================================================================
