-------------------------- MODULE RandpLibraryProofs ------------------------
(***************************************************************************)
(* Proofs about RandpThreads and about RandpLibrary, which extends it, for *)
(* every number of processes, threads and addresses, every pool size,      *)
(* block size, reseed interval and request size.                           *)
(*                                                                         *)
(* Part 1, RandpThreads.  OwnStructure, SecretsProtected, SeedUnshared and *)
(* SecretsOwned follow from one inductive invariant, IInv, which is proved *)
(* a conjunct at a time, each for every action.  They hold of a program in *)
(* which no other TSS destructor calls randp_bytes after randp_destroy     *)
(* (~LateCalls); TLC shows what happens when one does.  KeyKept needs no   *)
(* such assumption.  Nothing in this part uses the sizes of a structure.   *)
(*                                                                         *)
(* Part 2, RandpLibrary.  MemoryApart, MemoryOwned and the refinement of   *)
(* RandomSource follow from one inductive invariant, LibraryInv: IInv,     *)
(* which says whose page is whose, and what RandpPool knows of one         *)
(* structure, said of every page.  A step of RandpThreads is calm: it      *)
(* leaves the content of the pages that keep their seed, and does not      *)
(* disturb a thread that copies (CalmStep).  A step of the loop changes    *)
(* the structure of its own thread only (DrawPage).                        *)
(***************************************************************************)
EXTENDS RandpLibrary, RandpStructProofs

-----------------------------------------------------------------------------
(*                        Part 1: threads and pages                        *)


-----------------------------------------------------------------------------
(* Pages and threads.                                                      *)

\* What mmap, the calls on a new page, a seed and fork make of a page.
LEMMA PageTypes ==
    /\ Unmapped \in Page /\ Fresh \in Page
    /\ \A pg \in Page :
          /\ Inherited(pg) \in Page
          /\ [pg EXCEPT !.dontdump = TRUE] \in Page
          /\ [pg EXCEPT !.wipeonfork = TRUE] \in Page
          /\ \A ok \in BOOLEAN : [pg EXCEPT !.locked = ok, !.refused = ~ok] \in Page
          /\ \A seed \in Nat : [pg EXCEPT !.seed = seed] \in Page
    BY DEF Page, Unmapped, Fresh, Inherited

\* SetPage keeps the type of page, also when it sets no page at all.
LEMMA SetPageType ==
    ASSUME TypeOK, NEW p, NEW a, NEW pg, SetPage(p, a, pg),
           p \in Proc /\ a \in Addr => pg \in Page
    PROVE  page' \in [Proc -> [Addr -> Page]]
<1>1. CASE p \in Proc /\ a \in Addr
    BY <1>1 DEF TypeOK, SetPage
<1>2. CASE ~(p \in Proc /\ a \in Addr)
    BY <1>2 DEF TypeOK, SetPage
<1>. QED BY <1>1, <1>2

\* SetPage changes one page of one process.
LEMMA SetPageEffect ==
    ASSUME TypeOK, NEW p \in Proc, NEW a \in Addr, NEW pg, SetPage(p, a, pg)
    PROVE  /\ page'[p][a] = pg
           /\ \A q \in Proc, b \in Addr :
                 q # p \/ b # a => page'[q][b] = page[q][b]
    BY DEF TypeOK, SetPage

\* A child finds a page as protected as it was; a page that is zeroed on fork
\* has no seed there.
LEMMA InheritedFields ==
    \A pg \in Page :
        /\ Inherited(pg).mapped = pg.mapped
        /\ Inherited(pg).dontdump = pg.dontdump
        /\ Inherited(pg).wipeonfork = pg.wipeonfork
        /\ Inherited(pg).seed = IF pg.wipeonfork THEN 0 ELSE pg.seed
    BY DEF Inherited, Page

\* A thread at any label but two is in a process that has been started.
LEMMA LiveThread ==
    ASSUME TypeOK, BornInv, NEW t \in Thread, pc[t] \notin {"unborn", "dead"}
    PROVE  t \in Live /\ proc[t] \in born /\ proc[t] \in Proc
    BY DEF TypeOK, BornInv, Live

\* What mlock and the two madvise calls do to the new page, and to no other.
LEMMA PreparedPage ==
    ASSUME TypeOK, LabelInv, BornInv, NEW t \in Thread,
           Mlock(t) \/ DontDump(t) \/ WipeOnFork(t)
    PROVE  /\ t \in Live /\ proc[t] \in Proc /\ addr[t] \in Addr
           /\ \A q \in Proc, b \in Addr :
                 q # proc[t] \/ b # addr[t] => page'[q][b] = page[q][b]
           /\ page'[proc[t]][addr[t]].mapped = NewPage(t).mapped
           /\ page'[proc[t]][addr[t]].seed = NewPage(t).seed
           /\ DontDump(t) \/ NewPage(t).dontdump => page'[proc[t]][addr[t]].dontdump
           /\ WipeOnFork(t) \/ NewPage(t).wipeonfork => page'[proc[t]][addr[t]].wipeonfork
<1>1. pc[t] \in {"mlock", "dontdump", "wipeonfork"}
    BY DEF Mlock, DontDump, WipeOnFork, Prepare, Moves, At
<1>2. t \in Live /\ proc[t] \in Proc /\ addr[t] \in Addr
    BY <1>1, LiveThread DEF LabelInv, TypeOK
<1>3. NewPage(t) \in Page
    BY <1>2 DEF NewPage, TypeOK
<1>4. CASE Mlock(t)
  <2>1. PICK ok \in MlockResults :
            SetPage(proc[t], addr[t], [NewPage(t) EXCEPT !.locked = ok, !.refused = ~ok])
    BY <1>4 DEF Mlock, Prepare
  <2>. DEFINE new == [NewPage(t) EXCEPT !.locked = ok, !.refused = ~ok]
  <2>2. /\ new.mapped = NewPage(t).mapped /\ new.seed = NewPage(t).seed
        /\ new.dontdump = NewPage(t).dontdump /\ new.wipeonfork = NewPage(t).wipeonfork
    BY <1>3 DEF Page
  <2>. HIDE DEF new
  <2>3. SetPage(proc[t], addr[t], new)
    BY <2>1 DEF new
  <2>4. ~DontDump(t) /\ ~WipeOnFork(t)
    BY <1>4 DEF Mlock, DontDump, WipeOnFork, Prepare, Moves, At
  <2>. QED BY <1>2, <2>2, <2>3, <2>4, SetPageEffect
<1>5. CASE DontDump(t)
  <2>1. SetPage(proc[t], addr[t], [NewPage(t) EXCEPT !.dontdump = TRUE])
    BY <1>5 DEF DontDump, Prepare
  <2>2. ~WipeOnFork(t)
    BY <1>5 DEF DontDump, WipeOnFork, Prepare, Moves, At
  <2>. QED BY <1>2, <1>3, <2>1, <2>2, SetPageEffect DEF Page
<1>6. CASE WipeOnFork(t)
  <2>1. SetPage(proc[t], addr[t], [NewPage(t) EXCEPT !.wipeonfork = TRUE])
    BY <1>6 DEF WipeOnFork, Prepare
  <2>2. ~DontDump(t)
    BY <1>6 DEF DontDump, WipeOnFork, Prepare, Moves, At
  <2>. QED BY <1>2, <1>3, <2>1, <2>2, SetPageEffect DEF Page
<1>. QED BY <1>4, <1>5, <1>6

\* The page that a thread draws from is its own.
LEMMA DrawnPage ==
    ASSUME TypeOK, LabelInv, BornInv, NEW t \in Thread, Draw(t)
    PROVE  /\ t \in Live /\ proc[t] \in Proc /\ this_[t] \in Addr
           /\ tss[t] = this_[t] /\ pc'[t] = "idle"
           /\ \/ page' = page /\ seeds' = seeds
              \/ /\ seeds' = seeds + 1
                 /\ page[proc[t]][this_[t]].mapped
                 /\ \A q \in Proc, b \in Addr : page'[q][b] =
                       IF q = proc[t] /\ b = this_[t]
                       THEN [page[q][b] EXCEPT !.seed = seeds + 1] ELSE page[q][b]
<1>1. pc[t] = "draw"
    BY DEF Draw, Moves, At
<1>2. t \in Live /\ proc[t] \in Proc /\ this_[t] \in Addr /\ tss[t] = this_[t]
    BY <1>1, LiveThread DEF LabelInv, TypeOK
<1>3. pc'[t] = "idle"
    BY <1>1 DEF Draw, Moves, Goto, LabelInv, TypeOK
<1>4. CASE Seed(t)
    BY <1>2, <1>3, <1>4, SetPageEffect DEF Seed
<1>5. CASE UNCHANGED <<page, seeds>>
    BY <1>2, <1>3, <1>5
<1>. QED BY <1>4, <1>5 DEF Draw

-----------------------------------------------------------------------------
(* The conjuncts of the inductive invariant.                               *)

\* Types.  BornInv is needed as fork reads the key and the pages of the process
\* of its caller, which must be one.
LEMMA TypeStep == TypeOK /\ BornInv /\ [Next]_vars => TypeOK'
<1>. SUFFICES ASSUME TypeOK, BornInv, [Next]_vars PROVE TypeOK'
    OBVIOUS
<1>. USE DEF Moves, Goto, OnceStep, threadVars, processVars, TypeOK, Labels
<1>1. ASSUME NEW t \in Thread, Call(t) PROVE TypeOK'
    BY <1>1 DEF Call, Enter
<1>2. ASSUME NEW t \in Thread, Leave(t) PROVE TypeOK'
    BY <1>2 DEF Leave
<1>3. ASSUME NEW t \in Thread, LateCall(t) PROVE TypeOK'
    BY <1>3 DEF LateCall, Enter
<1>4. ASSUME NEW t \in Thread, Mmap(t) PROVE TypeOK'
    BY <1>4, SetPageType, PageTypes, ZenonT(30) DEF Mmap
<1>5. ASSUME NEW t \in Thread, Mlock(t) PROVE TypeOK'
  <2>1. page' \in [Proc -> [Addr -> Page]]
    <3>1. PICK ok \in MlockResults :
              SetPage(proc[t], addr[t], [NewPage(t) EXCEPT !.locked = ok, !.refused = ~ok])
      BY <1>5 DEF Mlock, Prepare
    <3>2. proc[t] \in Proc /\ addr[t] \in Addr => NewPage(t) \in Page
      BY DEF NewPage
    <3>. QED BY <3>1, <3>2, PageTypes, SetPageType, InitAssumption
  <2>. QED BY <1>5, <2>1 DEF Mlock, Prepare
<1>6. ASSUME NEW t \in Thread, DontDump(t) PROVE TypeOK'
  <2>1. page' \in [Proc -> [Addr -> Page]]
    <3>1. SetPage(proc[t], addr[t], [NewPage(t) EXCEPT !.dontdump = TRUE])
      BY <1>6 DEF DontDump, Prepare
    <3>2. proc[t] \in Proc /\ addr[t] \in Addr => NewPage(t) \in Page
      BY DEF NewPage
    <3>. QED BY <3>1, <3>2, PageTypes, SetPageType, InitAssumption
  <2>. QED BY <1>6, <2>1 DEF DontDump, Prepare
<1>7. ASSUME NEW t \in Thread, WipeOnFork(t) PROVE TypeOK'
  <2>1. page' \in [Proc -> [Addr -> Page]]
    <3>1. SetPage(proc[t], addr[t], [NewPage(t) EXCEPT !.wipeonfork = TRUE])
      BY <1>7 DEF WipeOnFork, Prepare
    <3>2. proc[t] \in Proc /\ addr[t] \in Addr => NewPage(t) \in Page
      BY DEF NewPage
    <3>. QED BY <3>1, <3>2, PageTypes, SetPageType, InitAssumption
  <2>. QED BY <1>7, <2>1 DEF WipeOnFork, Prepare
<1>8. ASSUME NEW t \in Thread, OnceBegin(t) PROVE TypeOK'
    BY <1>8 DEF OnceBegin
<1>9. ASSUME NEW t \in Thread, OncePass(t) PROVE TypeOK'
    BY <1>9 DEF OncePass
<1>10. ASSUME NEW t \in Thread, TssCreate(t) PROVE TypeOK'
  <2>1. proc[t] \in Proc
    BY <1>10, LiveThread DEF TssCreate, At
  <2>2. key' \in [Proc -> Nat]
    BY <1>10, <2>1 DEF TssCreate
  <2>. QED BY <1>10, <2>2 DEF TssCreate
<1>11. ASSUME NEW t \in Thread, OnceEnd(t) PROVE TypeOK'
    BY <1>11 DEF OnceEnd
<1>12. ASSUME NEW t \in Thread, TssSet(t) PROVE TypeOK'
    BY <1>12 DEF TssSet
<1>13. ASSUME NEW t \in Thread, Draw(t) PROVE TypeOK'
  <2>1. CASE Seed(t)
    <3>1. SetPage(proc[t], this_[t], [page[proc[t]][this_[t]] EXCEPT !.seed = seeds + 1])
      BY <2>1 DEF Seed
    <3>2. page' \in [Proc -> [Addr -> Page]] /\ seeds' \in Nat
      <4>1. seeds + 1 \in Nat
        OBVIOUS
      <4>2. proc[t] \in Proc /\ this_[t] \in Addr => page[proc[t]][this_[t]] \in Page
        OBVIOUS
      <4>. QED BY <2>1, <3>1, <4>1, <4>2, PageTypes, SetPageType DEF Seed
    <3>. QED BY <1>13, <3>2 DEF Draw
  <2>2. CASE UNCHANGED <<page, seeds>>
    BY <1>13, <2>2 DEF Draw
  <2>. QED BY <1>13, <2>1, <2>2 DEF Draw
<1>14. ASSUME NEW t \in Thread, BeginDestroy(t) PROVE TypeOK'
  <2>1. passes' \in [Thread -> 0 .. DtorRounds]
    BY <1>14, InitAssumption DEF BeginDestroy
  <2>2. /\ pc' \in [Thread -> Labels] /\ addr' \in [Thread -> Addr \cup {Null}]
        /\ tss' \in [Thread -> Addr \cup {Null}]
    BY <1>14, InitAssumption DEF BeginDestroy
  <2>. QED BY <1>14, <2>1, <2>2 DEF BeginDestroy
<1>15. ASSUME NEW t \in Thread, Destroy(t) PROVE TypeOK'
  <2>1. page' \in [Proc -> [Addr -> Page]]
    BY <1>15, PageTypes, SetPageType DEF Destroy, Prepare
  <2>. QED BY <1>15, <2>1 DEF Destroy, Prepare
<1>16. ASSUME NEW t \in Thread, Gone(t) PROVE TypeOK'
  <2>1. passes' \in [Thread -> 0 .. DtorRounds]
    BY <1>16, InitAssumption DEF Gone
  <2>. QED BY <1>16, <2>1 DEF Gone
<1>17. ASSUME NEW t \in Thread, Fails(t) PROVE TypeOK'
  <2>1. passes' \in [Thread -> 0 .. DtorRounds]
    BY <1>17, InitAssumption DEF Fails, Exit, Ended
  <2>. QED BY <1>17, <2>1, PageTypes DEF Fails, Exit, Ended
<1>18. ASSUME NEW t \in Thread, NEW u \in Thread, Spawn(t, u) PROVE TypeOK'
    BY <1>18 DEF Spawn
<1>19. ASSUME NEW t \in Thread, NEW u \in Thread, NEW q \in Proc, Fork(t, u, q)
       PROVE TypeOK'
  <2>1. page' \in [Proc -> [Addr -> Page]]
    <3>1. \A p, a : p \in Proc /\ a \in Addr => Inherited(page[p][a]) \in Page
      BY PageTypes
    <3>2. proc[t] \in Proc
      BY <1>19, LiveThread DEF Fork, At
    <3>. QED BY <1>19, <3>1, <3>2 DEF Fork
  <2>2. proc[t] \in Proc
    BY <1>19, LiveThread DEF Fork, At
  <2>3. key' \in [Proc -> Nat] /\ once' \in [Proc -> {"init", "busy", "done"}]
    BY <1>19, <2>2 DEF Fork, InheritedOnce
  <2>. QED BY <1>19, <2>1, <2>3 DEF Fork
<1>20. CASE UNCHANGED vars
    BY <1>20 DEF vars
<1>. QED
    BY <1>1, <1>2, <1>3, <1>4, <1>5, <1>6, <1>7, <1>8, <1>9, <1>10, <1>11,
       <1>12, <1>13, <1>14, <1>15, <1>16, <1>17, <1>18, <1>19, <1>20
       DEF Next, CallStep, ExitStep

\* What is known at each label.
LEMMA LabelStep ==
    ~LateCalls /\ TypeOK /\ LabelInv /\ [Next]_vars => LabelInv'
<1>. SUFFICES ASSUME ~LateCalls, TypeOK, LabelInv, [Next]_vars PROVE LabelInv'
    OBVIOUS
<1>. USE InitAssumption
     DEF At, Moves, Goto, Prepare, OnceStep, threadVars, processVars,
         TypeOK, LabelInv, Registering
<1>1. ASSUME NEW t \in Thread, Call(t) PROVE LabelInv'
    BY <1>1 DEF Call, Enter
<1>2. ASSUME NEW t \in Thread, Leave(t) PROVE LabelInv'
    BY <1>2 DEF Leave
<1>3. ASSUME NEW t \in Thread, LateCall(t) PROVE LabelInv'
    BY <1>3 DEF LateCall
<1>4. ASSUME NEW t \in Thread, Mmap(t) PROVE LabelInv'
    BY <1>4 DEF Mmap
<1>5. ASSUME NEW t \in Thread, Mlock(t) PROVE LabelInv'
    BY <1>5 DEF Mlock
<1>6. ASSUME NEW t \in Thread, DontDump(t) PROVE LabelInv'
    BY <1>6 DEF DontDump
<1>7. ASSUME NEW t \in Thread, WipeOnFork(t) PROVE LabelInv'
    BY <1>7 DEF WipeOnFork
<1>8. ASSUME NEW t \in Thread, OnceBegin(t) PROVE LabelInv'
    BY <1>8 DEF OnceBegin
<1>9. ASSUME NEW t \in Thread, OncePass(t) PROVE LabelInv'
    BY <1>9 DEF OncePass
<1>10. ASSUME NEW t \in Thread, TssCreate(t) PROVE LabelInv'
    BY <1>10 DEF TssCreate
<1>11. ASSUME NEW t \in Thread, OnceEnd(t) PROVE LabelInv'
    BY <1>11 DEF OnceEnd
<1>12. ASSUME NEW t \in Thread, TssSet(t) PROVE LabelInv'
    BY <1>12 DEF TssSet
<1>13. ASSUME NEW t \in Thread, Draw(t) PROVE LabelInv'
    BY <1>13 DEF Draw
<1>14. ASSUME NEW t \in Thread, BeginDestroy(t) PROVE LabelInv'
    BY <1>14 DEF BeginDestroy
<1>15. ASSUME NEW t \in Thread, Destroy(t) PROVE LabelInv'
    BY <1>15 DEF Destroy
<1>16. ASSUME NEW t \in Thread, Gone(t) PROVE LabelInv'
    BY <1>16 DEF Gone
<1>17. ASSUME NEW t \in Thread, Fails(t) PROVE LabelInv'
    BY <1>17 DEF Fails, Exit, Ended
<1>18. ASSUME NEW t \in Thread, NEW u \in Thread, Spawn(t, u) PROVE LabelInv'
    BY <1>18 DEF Spawn
<1>19. ASSUME NEW t \in Thread, NEW u \in Thread, NEW q \in Proc, Fork(t, u, q)
       PROVE LabelInv'
    BY <1>19 DEF Fork
<1>20. CASE UNCHANGED vars
    BY <1>20 DEF vars
<1>. QED
    BY <1>1, <1>2, <1>3, <1>4, <1>5, <1>6, <1>7, <1>8, <1>9, <1>10, <1>11,
       <1>12, <1>13, <1>14, <1>15, <1>16, <1>17, <1>18, <1>19, <1>20
       DEF Next, CallStep, ExitStep

\* Threads live in processes that have been started.
LEMMA BornStep == TypeOK /\ BornInv /\ [Next]_vars => BornInv'
<1>. SUFFICES ASSUME TypeOK, BornInv, [Next]_vars PROVE BornInv'
    OBVIOUS
<1>. USE DEF At, Moves, Goto, Prepare, OnceStep, threadVars, processVars,
         TypeOK, BornInv, Live
<1>1. ASSUME NEW t \in Thread, Call(t) PROVE BornInv'
    BY <1>1 DEF Call, Enter
<1>2. ASSUME NEW t \in Thread, Leave(t) PROVE BornInv'
    BY <1>2 DEF Leave
<1>3. ASSUME NEW t \in Thread, LateCall(t) PROVE BornInv'
    BY <1>3 DEF LateCall, Enter
<1>4. ASSUME NEW t \in Thread, Mmap(t) PROVE BornInv'
  <2>1. /\ born' = born /\ proc' = proc /\ tss' = tss
        /\ pc[t] = "mmap" /\ pc' = [pc EXCEPT ![t] = "mlock"]
    BY <1>4 DEF Mmap
  <2>. QED BY <2>1
<1>5. ASSUME NEW t \in Thread, Mlock(t) PROVE BornInv'
    BY <1>5 DEF Mlock
<1>6. ASSUME NEW t \in Thread, DontDump(t) PROVE BornInv'
    BY <1>6 DEF DontDump
<1>7. ASSUME NEW t \in Thread, WipeOnFork(t) PROVE BornInv'
    BY <1>7 DEF WipeOnFork
<1>8. ASSUME NEW t \in Thread, OnceBegin(t) PROVE BornInv'
    BY <1>8 DEF OnceBegin
<1>9. ASSUME NEW t \in Thread, OncePass(t) PROVE BornInv'
    BY <1>9 DEF OncePass
<1>10. ASSUME NEW t \in Thread, TssCreate(t) PROVE BornInv'
    BY <1>10 DEF TssCreate
<1>11. ASSUME NEW t \in Thread, OnceEnd(t) PROVE BornInv'
    BY <1>11 DEF OnceEnd
<1>12. ASSUME NEW t \in Thread, TssSet(t) PROVE BornInv'
    BY <1>12 DEF TssSet
<1>13. ASSUME NEW t \in Thread, Draw(t) PROVE BornInv'
    BY <1>13 DEF Draw
<1>14. ASSUME NEW t \in Thread, BeginDestroy(t) PROVE BornInv'
    BY <1>14 DEF BeginDestroy
<1>15. ASSUME NEW t \in Thread, Destroy(t) PROVE BornInv'
    BY <1>15 DEF Destroy
<1>16. ASSUME NEW t \in Thread, Gone(t) PROVE BornInv'
    BY <1>16 DEF Gone
<1>17. ASSUME NEW t \in Thread, Fails(t) PROVE BornInv'
    BY <1>17 DEF Fails, Exit, Ended
<1>18. ASSUME NEW t \in Thread, NEW u \in Thread, Spawn(t, u) PROVE BornInv'
    BY <1>18 DEF Spawn
<1>19. ASSUME NEW t \in Thread, NEW u \in Thread, NEW q \in Proc, Fork(t, u, q)
       PROVE BornInv'
    BY <1>19 DEF Fork
<1>20. CASE UNCHANGED vars
    BY <1>20 DEF vars
<1>. QED
    BY <1>1, <1>2, <1>3, <1>4, <1>5, <1>6, <1>7, <1>8, <1>9, <1>10, <1>11,
       <1>12, <1>13, <1>14, <1>15, <1>16, <1>17, <1>18, <1>19, <1>20
       DEF Next, CallStep, ExitStep

\* One thread at a time runs the initialiser, and none passes before it ends.
LEMMA OnceInvStep ==
    TypeOK /\ BornInv /\ OnceInv /\ [Next]_vars => OnceInv'
<1>. SUFFICES ASSUME TypeOK, BornInv, OnceInv, [Next]_vars PROVE OnceInv'
    OBVIOUS
<1>. USE DEF At, Moves, Goto, Prepare, OnceStep, threadVars, processVars,
         TypeOK, BornInv, OnceInv, Live, Initialising
<1>1. ASSUME NEW t \in Thread, Call(t) PROVE OnceInv'
    BY <1>1 DEF Call, Enter
<1>2. ASSUME NEW t \in Thread, Leave(t) PROVE OnceInv'
    BY <1>2 DEF Leave
<1>3. ASSUME NEW t \in Thread, LateCall(t) PROVE OnceInv'
    BY <1>3 DEF LateCall, Enter
<1>4. ASSUME NEW t \in Thread, Mmap(t) PROVE OnceInv'
    BY <1>4 DEF Mmap
<1>5. ASSUME NEW t \in Thread, Mlock(t) PROVE OnceInv'
    BY <1>5 DEF Mlock
<1>6. ASSUME NEW t \in Thread, DontDump(t) PROVE OnceInv'
    BY <1>6 DEF DontDump
<1>7. ASSUME NEW t \in Thread, WipeOnFork(t) PROVE OnceInv'
    BY <1>7 DEF WipeOnFork
<1>8. ASSUME NEW t \in Thread, OnceBegin(t) PROVE OnceInv'
    BY <1>8 DEF OnceBegin
<1>9. ASSUME NEW t \in Thread, OncePass(t) PROVE OnceInv'
    BY <1>9 DEF OncePass
<1>10. ASSUME NEW t \in Thread, TssCreate(t) PROVE OnceInv'
    BY <1>10 DEF TssCreate
<1>11. ASSUME NEW t \in Thread, OnceEnd(t) PROVE OnceInv'
    BY <1>11 DEF OnceEnd
<1>12. ASSUME NEW t \in Thread, TssSet(t) PROVE OnceInv'
    BY <1>12 DEF TssSet
<1>13. ASSUME NEW t \in Thread, Draw(t) PROVE OnceInv'
    BY <1>13 DEF Draw
<1>14. ASSUME NEW t \in Thread, BeginDestroy(t) PROVE OnceInv'
    BY <1>14 DEF BeginDestroy
<1>15. ASSUME NEW t \in Thread, Destroy(t) PROVE OnceInv'
    BY <1>15 DEF Destroy
<1>16. ASSUME NEW t \in Thread, Gone(t) PROVE OnceInv'
    BY <1>16 DEF Gone
<1>17. ASSUME NEW t \in Thread, Fails(t) PROVE OnceInv'
    BY <1>17 DEF Fails, Exit, Ended
<1>18. ASSUME NEW t \in Thread, NEW u \in Thread, Spawn(t, u) PROVE OnceInv'
    BY <1>18 DEF Spawn
<1>19. ASSUME NEW t \in Thread, NEW u \in Thread, NEW q \in Proc, Fork(t, u, q)
       PROVE OnceInv'
    BY <1>19 DEF Fork, InheritedOnce
<1>20. CASE UNCHANGED vars
    BY <1>20 DEF vars
<1>. QED
    BY <1>1, <1>2, <1>3, <1>4, <1>5, <1>6, <1>7, <1>8, <1>9, <1>10, <1>11,
       <1>12, <1>13, <1>14, <1>15, <1>16, <1>17, <1>18, <1>19, <1>20
       DEF Next, CallStep, ExitStep

\* The pages that threads are responsible for: mapped, protected, and apart.
LEMMA PageStep ==
    /\ ~LateCalls /\ TypeOK /\ LabelInv /\ BornInv /\ PageInv /\ [Next]_vars
    => PageInv'
<1>. SUFFICES ASSUME ~LateCalls, TypeOK, LabelInv, BornInv, PageInv, [Next]_vars
              PROVE  PageInv'
    OBVIOUS
<1>. USE InitAssumption
     DEF At, Moves, Goto, OnceStep, threadVars, processVars,
         Live, Has, Registering, LabelInv
<1>1. ASSUME NEW t \in Thread, Call(t) PROVE PageInv'
    BY <1>1 DEF Call, Enter, TypeOK, PageInv
<1>2. ASSUME NEW t \in Thread, Leave(t) PROVE PageInv'
    BY <1>2 DEF Leave, TypeOK, PageInv
<1>3. ASSUME NEW t \in Thread, LateCall(t) PROVE PageInv'
    BY <1>3 DEF LateCall, TypeOK, PageInv
<1>4. ASSUME NEW t \in Thread, Mmap(t) PROVE PageInv'
    BY <1>4 DEF Mmap, SetPage, BornInv, TypeOK, PageInv, Unmapped, Fresh
<1>5. ASSUME NEW t \in Thread, Mlock(t) PROVE PageInv'
  <2>1. \A u \in Thread, a \in Addr : Has(u, a)' <=> Has(u, a)
    BY <1>5 DEF Mlock, Prepare, TypeOK
  <2>2. /\ Live' = Live /\ proc' = proc
        /\ \A u \in Live : u \in Thread /\ proc[u] \in Proc
    BY <1>5 DEF Mlock, Prepare, TypeOK, BornInv
  <2>3. /\ t \in Live /\ pc[t] = "mlock" /\ pc'[t] = "dontdump"
        /\ \A u \in Live \ {t} : pc'[u] = pc[u]
    BY <1>5 DEF Mlock, Prepare, TypeOK
  <2>4. Has(t, addr[t]) /\ \A a \in Addr : Has(t, a) => a = addr[t]
    BY <2>3
  <2>. HIDE DEF Has, Live
  <2>5. SUFFICES ASSUME NEW u \in Live, NEW a \in Addr, Has(u, a)
        PROVE  /\ page'[proc[u]][a].mapped
               /\ page'[proc[u]][a].dontdump \/ pc'[u] \in {"mlock", "dontdump"}
               /\ \/ page'[proc[u]][a].wipeonfork
                  \/ pc'[u] \in {"mlock", "dontdump", "wipeonfork"}
    BY <2>1, <2>2 DEF PageInv
  <2>6. CASE u = t
    BY <1>5, <2>2, <2>3, <2>4, <2>5, <2>6, PreparedPage DEF PageInv, NewPage
  <2>7. CASE u # t
    <3>1. proc[u] # proc[t] \/ a # addr[t]
      BY <2>3, <2>4, <2>5, <2>7 DEF PageInv
    <3>2. page'[proc[u]][a] = page[proc[u]][a]
      BY <1>5, <2>2, <3>1, PreparedPage
    <3>. QED BY <2>3, <2>5, <2>7, <3>2 DEF PageInv
  <2>. QED BY <2>6, <2>7
<1>6. ASSUME NEW t \in Thread, DontDump(t) PROVE PageInv'
  <2>1. \A u \in Thread, a \in Addr : Has(u, a)' <=> Has(u, a)
    BY <1>6 DEF DontDump, Prepare, TypeOK
  <2>2. /\ Live' = Live /\ proc' = proc
        /\ \A u \in Live : u \in Thread /\ proc[u] \in Proc
    BY <1>6 DEF DontDump, Prepare, TypeOK, BornInv
  <2>3. /\ t \in Live /\ pc[t] = "dontdump" /\ pc'[t] = "wipeonfork"
        /\ \A u \in Live \ {t} : pc'[u] = pc[u]
    BY <1>6 DEF DontDump, Prepare, TypeOK
  <2>4. Has(t, addr[t]) /\ \A a \in Addr : Has(t, a) => a = addr[t]
    BY <2>3
  <2>. HIDE DEF Has, Live
  <2>5. SUFFICES ASSUME NEW u \in Live, NEW a \in Addr, Has(u, a)
        PROVE  /\ page'[proc[u]][a].mapped
               /\ page'[proc[u]][a].dontdump \/ pc'[u] \in {"mlock", "dontdump"}
               /\ \/ page'[proc[u]][a].wipeonfork
                  \/ pc'[u] \in {"mlock", "dontdump", "wipeonfork"}
    BY <2>1, <2>2 DEF PageInv
  <2>6. CASE u = t
    BY <1>6, <2>2, <2>3, <2>4, <2>5, <2>6, PreparedPage DEF PageInv, NewPage
  <2>7. CASE u # t
    <3>1. proc[u] # proc[t] \/ a # addr[t]
      BY <2>3, <2>4, <2>5, <2>7 DEF PageInv
    <3>2. page'[proc[u]][a] = page[proc[u]][a]
      BY <1>6, <2>2, <3>1, PreparedPage
    <3>. QED BY <2>3, <2>5, <2>7, <3>2 DEF PageInv
  <2>. QED BY <2>6, <2>7
<1>7. ASSUME NEW t \in Thread, WipeOnFork(t) PROVE PageInv'
  <2>1. \A u \in Thread, a \in Addr : Has(u, a)' <=> Has(u, a)
    BY <1>7 DEF WipeOnFork, Prepare, TypeOK
  <2>2. /\ Live' = Live /\ proc' = proc
        /\ \A u \in Live : u \in Thread /\ proc[u] \in Proc
    BY <1>7 DEF WipeOnFork, Prepare, TypeOK, BornInv
  <2>3. /\ t \in Live /\ pc[t] = "wipeonfork" /\ pc'[t] = "call_once"
        /\ \A u \in Live \ {t} : pc'[u] = pc[u]
    BY <1>7 DEF WipeOnFork, Prepare, TypeOK
  <2>4. Has(t, addr[t]) /\ \A a \in Addr : Has(t, a) => a = addr[t]
    BY <2>3
  <2>. HIDE DEF Has, Live
  <2>5. SUFFICES ASSUME NEW u \in Live, NEW a \in Addr, Has(u, a)
        PROVE  /\ page'[proc[u]][a].mapped
               /\ page'[proc[u]][a].dontdump \/ pc'[u] \in {"mlock", "dontdump"}
               /\ \/ page'[proc[u]][a].wipeonfork
                  \/ pc'[u] \in {"mlock", "dontdump", "wipeonfork"}
    BY <2>1, <2>2 DEF PageInv
  <2>6. CASE u = t
    BY <1>7, <2>2, <2>3, <2>4, <2>5, <2>6, PreparedPage DEF PageInv, NewPage
  <2>7. CASE u # t
    <3>1. proc[u] # proc[t] \/ a # addr[t]
      BY <2>3, <2>4, <2>5, <2>7 DEF PageInv
    <3>2. page'[proc[u]][a] = page[proc[u]][a]
      BY <1>7, <2>2, <3>1, PreparedPage
    <3>. QED BY <2>3, <2>5, <2>7, <3>2 DEF PageInv
  <2>. QED BY <2>6, <2>7
<1>8. ASSUME NEW t \in Thread, OnceBegin(t) PROVE PageInv'
    BY <1>8 DEF OnceBegin, TypeOK, PageInv
<1>9. ASSUME NEW t \in Thread, OncePass(t) PROVE PageInv'
    BY <1>9 DEF OncePass, TypeOK, PageInv
<1>10. ASSUME NEW t \in Thread, TssCreate(t) PROVE PageInv'
    BY <1>10 DEF TssCreate, TypeOK, PageInv
<1>11. ASSUME NEW t \in Thread, OnceEnd(t) PROVE PageInv'
    BY <1>11 DEF OnceEnd, TypeOK, PageInv
<1>12. ASSUME NEW t \in Thread, TssSet(t) PROVE PageInv'
    BY <1>12 DEF TssSet, TypeOK, PageInv
<1>13. ASSUME NEW t \in Thread, Draw(t) PROVE PageInv'
  <2>1. \A u \in Thread : \A a : Has(u, a)' <=> Has(u, a)
    BY <1>13, DrawnPage DEF Draw, TypeOK
  <2>2. Live' = Live /\ proc' = proc /\ pc[t] = "draw"
        /\ \A u \in Thread : pc'[u] = IF u = t THEN "idle" ELSE pc[u]
    BY <1>13, DrawnPage DEF Draw, TypeOK
  <2>3. ASSUME NEW p \in Proc, NEW a \in Addr
        PROVE  /\ page'[p][a].mapped = page[p][a].mapped
               /\ page'[p][a].dontdump = page[p][a].dontdump
               /\ page'[p][a].wipeonfork = page[p][a].wipeonfork
    <3>1. page[p][a] \in Page
      BY DEF TypeOK
    <3>2. \/ page'[p][a] = page[p][a]
          \/ page'[p][a] = [page[p][a] EXCEPT !.seed = seeds + 1]
      BY <1>13, DrawnPage
    <3>. QED BY <3>1, <3>2 DEF Page
  <2>4. \A u \in Live : u \in Thread /\ proc[u] \in Proc
    BY DEF TypeOK, BornInv
  <2>. HIDE DEF Has, Live
  <2>. QED BY <2>1, <2>2, <2>3, <2>4 DEF PageInv
<1>14. ASSUME NEW t \in Thread, BeginDestroy(t) PROVE PageInv'
    BY <1>14 DEF BeginDestroy, TypeOK, PageInv
<1>15. ASSUME NEW t \in Thread, Destroy(t) PROVE PageInv'
  <2>1. pc[t] = "munmap" /\ pc' = [pc EXCEPT ![t] = "exiting"]
        /\ t \in Live /\ proc[t] \in Proc /\ addr[t] \in Addr
    BY <1>15, LiveThread DEF Destroy, Prepare, TypeOK
  <2>2. \A a \in Addr : ~Has(t, a)'
    BY <1>15, <2>1 DEF Destroy, Prepare, TypeOK
  <2>3. \A u \in Thread \ {t} : \A a : Has(u, a)' <=> Has(u, a)
    BY <1>15, <2>1 DEF Destroy, Prepare, TypeOK
  <2>4. Live' = Live /\ proc' = proc /\ \A u \in Thread \ {t} : pc'[u] = pc[u]
    BY <1>15, <2>1 DEF Destroy, Prepare, TypeOK
  <2>5. Has(t, addr[t])
    OBVIOUS
  <2>6. \A q \in Proc, b \in Addr : q # proc[t] \/ b # addr[t] => page'[q][b] = page[q][b]
    BY <1>15, <2>1, SetPageEffect DEF Destroy, Prepare
  <2>7. \A u \in Live : u \in Thread /\ proc[u] \in Proc
    BY DEF TypeOK, BornInv
  <2>. HIDE DEF Has, Live
  <2>. QED BY <2>1, <2>2, <2>3, <2>4, <2>5, <2>6, <2>7 DEF PageInv
<1>16. ASSUME NEW t \in Thread, Gone(t) PROVE PageInv'
    BY <1>16 DEF Gone, TypeOK, PageInv
<1>17. ASSUME NEW t \in Thread, Fails(t) PROVE PageInv'
    BY <1>17 DEF Fails, Exit, Ended, TypeOK, PageInv
<1>18. ASSUME NEW t \in Thread, NEW u \in Thread, Spawn(t, u) PROVE PageInv'
    BY <1>18 DEF Spawn, TypeOK, BornInv, PageInv
<1>19. ASSUME NEW t \in Thread, NEW u \in Thread, NEW q \in Proc, Fork(t, u, q)
       PROVE PageInv'
  <2>1. /\ pc[t] = "idle" /\ pc[u] = "unborn" /\ q \notin born
        /\ pc' = [pc EXCEPT ![u] = "idle"] /\ proc' = [proc EXCEPT ![u] = q]
        /\ t \in Live /\ proc[t] \in Proc /\ u \notin Live /\ Live' = Live \cup {u}
    BY <1>19, LiveThread DEF Fork, TypeOK
  <2>2. \A v \in Live : /\ v \in Thread /\ v # u /\ proc[v] \in Proc /\ proc[v] # q
                        /\ proc'[v] = proc[v] /\ pc'[v] = pc[v]
    BY <2>1 DEF TypeOK, BornInv
  <2>3. \A v \in Live : \A a : Has(v, a)' <=> Has(v, a)
    BY <1>19, <2>1, <2>2 DEF Fork, TypeOK
  <2>4. \A a \in Addr : Has(u, a)' => Has(t, a)
    BY <1>19, <2>1 DEF Fork, TypeOK
  <2>5. proc'[u] = q /\ pc'[u] = "idle"
    BY <2>1 DEF TypeOK
  <2>6. /\ \A p \in Proc \ {q}, a \in Addr : page'[p][a] = page[p][a]
        /\ \A a \in Addr : page'[q][a] = Inherited(page[proc[t]][a])
    BY <1>19 DEF Fork, TypeOK
  <2>7. \A a \in Addr : /\ page'[q][a].mapped = page[proc[t]][a].mapped
                        /\ page'[q][a].dontdump = page[proc[t]][a].dontdump
                        /\ page'[q][a].wipeonfork = page[proc[t]][a].wipeonfork
    BY <2>1, <2>6, InheritedFields DEF TypeOK
  <2>. HIDE DEF Has, Live
  <2>8. ASSUME NEW v \in Live, NEW a \in Addr, Has(v, a)
        PROVE  /\ page'[proc'[v]][a] = page[proc[v]][a]
               /\ \A w \in Live' \ {v} : proc'[w] = proc'[v] => ~Has(w, a)'
    <3>1. \A w \in Live \ {v} : proc'[w] = proc'[v] => ~Has(w, a)'
      BY <2>2, <2>3, <2>8 DEF PageInv
    <3>. QED BY <2>1, <2>2, <2>5, <2>6, <3>1
  <2>9. ASSUME NEW a \in Addr, Has(t, a)
        PROVE  /\ page'[q][a].mapped /\ page'[q][a].dontdump /\ page'[q][a].wipeonfork
               /\ \A w \in Live : proc'[w] # q
    BY <2>1, <2>2, <2>7, <2>9 DEF PageInv
  <2>. QED BY <2>1, <2>2, <2>3, <2>4, <2>5, <2>8, <2>9 DEF PageInv
<1>20. CASE UNCHANGED vars
    BY <1>20 DEF vars, TypeOK, PageInv
<1>. QED
    BY <1>1, <1>2, <1>3, <1>4, <1>5, <1>6, <1>7, <1>8, <1>9, <1>10, <1>11,
       <1>12, <1>13, <1>14, <1>15, <1>16, <1>17, <1>18, <1>19, <1>20
       DEF Next, CallStep, ExitStep

\* Every seeded page is protected: fork leaves nothing of it to the child.
LEMMA SeededPage ==
    ASSUME TypeOK, LabelInv, PageInv, SecretsOwned,
           NEW p \in Proc, NEW a \in Addr, page[p][a].seed # 0
    PROVE  page[p][a].mapped /\ page[p][a].dontdump /\ page[p][a].wipeonfork
<1>1. PICK t \in Live : /\ proc[t] = p
                        /\ tss[t] = a \/ (pc[t] = "munmap" /\ addr[t] = a)
    BY DEF SecretsOwned, Owns
<1>2. Has(t, a)
    BY <1>1 DEF Has
<1>3. pc[t] \notin {"mlock", "dontdump", "wipeonfork"}
    BY <1>1, InitAssumption DEF LabelInv, Live
<1>4. /\ page[proc[t]][a].mapped
      /\ page[proc[t]][a].dontdump \/ pc[t] \in {"mlock", "dontdump"}
      /\ page[proc[t]][a].wipeonfork \/ pc[t] \in {"mlock", "dontdump", "wipeonfork"}
    BY <1>2 DEF PageInv
<1>. QED BY <1>1, <1>3, <1>4

\* A step keeps the seeds of all pages or clears some, or it is a draw that
\* seeds one page.
Kept == seeds' = seeds /\ \A p \in Proc, a \in Addr :
                             page'[p][a].seed \in {0, page[p][a].seed}
Seeded(t) ==
    /\ Draw(t)
    /\ seeds' = seeds + 1
    /\ page'[proc[t]][this_[t]].seed = seeds + 1
    /\ \A p \in Proc, a \in Addr :
          p # proc[t] \/ a # this_[t] => page'[p][a].seed = page[p][a].seed

LEMMA SeedEffect ==
    ASSUME ~LateCalls, TypeOK, LabelInv, BornInv, PageInv, SecretsOwned, [Next]_vars
    PROVE  Kept \/ \E t \in Thread : Seeded(t)
<1>. DEFINE Effect == Kept \/ \E t \in Thread : Seeded(t)
<1>1. page' = page /\ seeds' = seeds => Effect
    BY DEF Kept
<1>2. ASSUME NEW t \in Thread, NEW p \in Proc, NEW a \in Addr, NEW pg,
             SetPage(p, a, pg), pg.seed \in {0, page[p][a].seed}, seeds' = seeds
      PROVE  Effect
  <2>1. ASSUME NEW q \in Proc, NEW b \in Addr
        PROVE  page'[q][b].seed \in {0, page[q][b].seed}
    BY <1>2, SetPageEffect
  <2>. QED BY <1>2, <2>1 DEF Kept
<1>3. ASSUME NEW t \in Thread,
             \/ Call(t) \/ Leave(t) \/ LateCall(t)
             \/ OnceBegin(t) \/ OncePass(t) \/ TssCreate(t) \/ OnceEnd(t) \/ TssSet(t)
             \/ BeginDestroy(t) \/ Gone(t)
             \/ \E u \in Thread : Spawn(t, u)
      PROVE  Effect
  <2>1. page' = page /\ seeds' = seeds
    BY <1>3 DEF Call, LateCall, Enter, Leave, OnceBegin, OncePass, TssCreate, OnceEnd,
                OnceStep, TssSet, BeginDestroy, Gone, Spawn
  <2>. QED BY <1>1, <2>1
<1>4. ASSUME NEW t \in Thread, Mmap(t) PROVE Effect
  <2>1. proc[t] \in Proc
    BY <1>4, LiveThread DEF Mmap, Moves, At
  <2>2. PICK a \in Addr : SetPage(proc[t], a, Fresh)
    BY <1>4 DEF Mmap
  <2>3. Fresh.seed = 0 /\ seeds' = seeds
    BY <1>4 DEF Mmap, Fresh, Unmapped
  <2>. QED BY <1>2, <2>1, <2>2, <2>3
<1>5. ASSUME NEW t \in Thread, Mlock(t) \/ DontDump(t) \/ WipeOnFork(t) PROVE Effect
  <2>1. ASSUME NEW q \in Proc, NEW b \in Addr
        PROVE  page'[q][b].seed = page[q][b].seed
    BY <1>5, PreparedPage DEF NewPage
  <2>2. seeds' = seeds
    BY <1>5 DEF Mlock, DontDump, WipeOnFork, Prepare
  <2>. QED BY <2>1, <2>2 DEF Kept
<1>6. ASSUME NEW t \in Thread, Draw(t) PROVE Effect
  <2>1. CASE page' = page /\ seeds' = seeds
    BY <1>1, <2>1
  <2>2. CASE seeds' = seeds + 1
    <3>1. seeds \in Nat /\ page[proc[t]][this_[t]] \in Page
      BY <1>6, DrawnPage DEF TypeOK
    <3>2. /\ \A q \in Proc, b \in Addr : page'[q][b] =
                IF q = proc[t] /\ b = this_[t]
                THEN [page[q][b] EXCEPT !.seed = seeds + 1] ELSE page[q][b]
          /\ proc[t] \in Proc /\ this_[t] \in Addr
      BY <1>6, <2>2, <3>1, DrawnPage
    <3>3. page'[proc[t]][this_[t]].seed = seeds + 1
      BY <3>1, <3>2 DEF Page
    <3>4. Seeded(t)
      BY <1>6, <2>2, <3>2, <3>3 DEF Seeded
    <3>. QED BY <3>4
  <2>. QED BY <1>6, <2>1, <2>2, DrawnPage
<1>7. ASSUME NEW t \in Thread, Destroy(t) PROVE Effect
  <2>1. proc[t] \in Proc /\ addr[t] \in Addr
    BY <1>7, LiveThread DEF Destroy, Prepare, Moves, At, LabelInv, TypeOK
  <2>2. SetPage(proc[t], addr[t], Unmapped) /\ Unmapped.seed = 0 /\ seeds' = seeds
    BY <1>7 DEF Destroy, Prepare, Unmapped
  <2>. QED BY <1>2, <2>1, <2>2
<1>8. ASSUME NEW t \in Thread, Fails(t) PROVE Effect
  <2>1. ASSUME NEW q \in Proc, NEW b \in Addr
        PROVE  page'[q][b] = IF q = proc[t] THEN Unmapped ELSE page[q][b]
    BY <1>8 DEF Fails, Exit, TypeOK
  <2>2. seeds' = seeds /\ Unmapped.seed = 0
    BY <1>8 DEF Fails, Exit, Unmapped
  <2>. QED BY <2>1, <2>2 DEF Kept
<1>9. ASSUME NEW t \in Thread, NEW u \in Thread, NEW q \in Proc, Fork(t, u, q)
      PROVE  Effect
  <2>1. proc[t] \in Proc /\ seeds' = seeds
    BY <1>9, LiveThread DEF Fork, At
  <2>2. ASSUME NEW p \in Proc, NEW a \in Addr
        PROVE  page'[p][a] = IF p = q THEN Inherited(page[proc[t]][a]) ELSE page[p][a]
    BY <1>9 DEF Fork, TypeOK
  <2>3. ASSUME NEW a \in Addr PROVE Inherited(page[proc[t]][a]).seed = 0
    <3>1. page[proc[t]][a] \in Page
      BY <2>1 DEF TypeOK
    <3>2. page[proc[t]][a].seed # 0 => page[proc[t]][a].wipeonfork
      BY <2>1, SeededPage
    <3>. QED BY <3>1, <3>2, InheritedFields
  <2>. QED BY <2>1, <2>2, <2>3 DEF Kept
<1>10. CASE UNCHANGED vars
    BY <1>1, <1>10 DEF vars
<1>. QED
    BY <1>3, <1>4, <1>5, <1>6, <1>7, <1>8, <1>9, <1>10 DEF Next, CallStep, ExitStep

\* A seed is given once, and a page with a seed is the only one that has it.
LEMMA SeedStep ==
    /\ ~LateCalls /\ TypeOK /\ LabelInv /\ BornInv /\ PageInv /\ SecretsOwned
    /\ SeedInv /\ SeedUnshared /\ [Next]_vars
    => SeedInv' /\ SeedUnshared'
<1>. SUFFICES ASSUME ~LateCalls, TypeOK, LabelInv, BornInv, PageInv, SecretsOwned,
                     SeedInv, SeedUnshared, [Next]_vars
              PROVE  SeedInv' /\ SeedUnshared'
    OBVIOUS
<1>1. seeds \in Nat /\ \A p \in Proc, a \in Addr : page[p][a].seed \in Nat
    BY DEF TypeOK, Page
<1>2. CASE Kept
    BY <1>1, <1>2 DEF Kept, SeedInv, SeedUnshared
<1>3. ASSUME NEW t \in Thread, Seeded(t) PROVE SeedInv' /\ SeedUnshared'
    BY <1>1, <1>3 DEF Seeded, SeedInv, SeedUnshared
<1>. QED BY <1>2, <1>3, SeedEffect

\* A thread keeps a page as long as the page keeps its seed.
LEMMA OwnsStep ==
    ASSUME ~LateCalls, TypeOK, LabelInv, BornInv, [Next]_vars,
           NEW v \in Thread, NEW p \in Proc, NEW a \in Addr,
           Owns(v, p, a), page'[p][a].seed # 0
    PROVE  Owns(v, p, a)'
<1>. USE InitAssumption DEF Owns, Live, Moves, Goto, At, OnceStep, Prepare, threadVars,
                            processVars, LabelInv
<1>1. ASSUME NEW t \in Thread, Call(t) PROVE Owns(v, p, a)'
    BY <1>1 DEF Call, Enter, TypeOK
<1>2. ASSUME NEW t \in Thread, Leave(t) PROVE Owns(v, p, a)'
    BY <1>2 DEF Leave, TypeOK
<1>3. ASSUME NEW t \in Thread, LateCall(t) PROVE Owns(v, p, a)'
    BY <1>3 DEF LateCall, TypeOK
<1>4. ASSUME NEW t \in Thread, Mmap(t) PROVE Owns(v, p, a)'
    BY <1>4 DEF Mmap, TypeOK
<1>5. ASSUME NEW t \in Thread, Mlock(t) PROVE Owns(v, p, a)'
    BY <1>5 DEF Mlock, TypeOK
<1>6. ASSUME NEW t \in Thread, DontDump(t) PROVE Owns(v, p, a)'
    BY <1>6 DEF DontDump, TypeOK
<1>7. ASSUME NEW t \in Thread, WipeOnFork(t) PROVE Owns(v, p, a)'
    BY <1>7 DEF WipeOnFork, TypeOK
<1>8. ASSUME NEW t \in Thread, OnceBegin(t) PROVE Owns(v, p, a)'
    BY <1>8 DEF OnceBegin, TypeOK
<1>9. ASSUME NEW t \in Thread, OncePass(t) PROVE Owns(v, p, a)'
    BY <1>9 DEF OncePass, TypeOK
<1>10. ASSUME NEW t \in Thread, TssCreate(t) PROVE Owns(v, p, a)'
    BY <1>10 DEF TssCreate, TypeOK
<1>11. ASSUME NEW t \in Thread, OnceEnd(t) PROVE Owns(v, p, a)'
    BY <1>11 DEF OnceEnd, TypeOK
<1>12. ASSUME NEW t \in Thread, TssSet(t) PROVE Owns(v, p, a)'
    BY <1>12 DEF TssSet, TypeOK
<1>13. ASSUME NEW t \in Thread, Draw(t) PROVE Owns(v, p, a)'
    BY <1>13 DEF Draw, TypeOK
<1>14. ASSUME NEW t \in Thread, BeginDestroy(t) PROVE Owns(v, p, a)'
    BY <1>14 DEF BeginDestroy, TypeOK
<1>15. ASSUME NEW t \in Thread, Destroy(t) PROVE Owns(v, p, a)'
  <2>1. /\ pc[t] = "munmap" /\ t \in Live /\ tss[t] = Null
        /\ proc[t] \in Proc /\ addr[t] \in Addr
    BY <1>15, LiveThread DEF Destroy, TypeOK
  <2>2. page'[proc[t]][addr[t]].seed = 0
    BY <1>15, <2>1, SetPageEffect DEF Destroy, Unmapped
  <2>3. v # t
    BY <2>1, <2>2
  <2>. QED BY <1>15, <2>3 DEF Destroy, TypeOK
<1>16. ASSUME NEW t \in Thread, Gone(t) PROVE Owns(v, p, a)'
    BY <1>16 DEF Gone, TypeOK
<1>17. ASSUME NEW t \in Thread, Fails(t) PROVE Owns(v, p, a)'
  <2>1. proc[v] # proc[t]
    BY <1>17 DEF Fails, Exit, Unmapped, TypeOK
  <2>. QED BY <1>17, <2>1 DEF Fails, Exit, Ended, TypeOK
<1>18. ASSUME NEW t \in Thread, NEW u \in Thread, Spawn(t, u) PROVE Owns(v, p, a)'
    BY <1>18 DEF Spawn, TypeOK
<1>19. ASSUME NEW t \in Thread, NEW u \in Thread, NEW q \in Proc, Fork(t, u, q)
       PROVE Owns(v, p, a)'
    BY <1>19 DEF Fork, TypeOK
<1>20. CASE UNCHANGED vars
    BY <1>20 DEF vars
<1>. QED
    BY <1>1, <1>2, <1>3, <1>4, <1>5, <1>6, <1>7, <1>8, <1>9, <1>10, <1>11, <1>12,
     <1>13, <1>14, <1>15, <1>16, <1>17, <1>18, <1>19, <1>20
     DEF Next, CallStep, ExitStep
\* A seeded page keeps the thread that will unmap it, and a newly seeded one
\* has one: the thread registers its page before it draws from it.
LEMMA OwnedStep ==
    /\ ~LateCalls /\ TypeOK /\ LabelInv /\ BornInv /\ PageInv /\ SecretsOwned
    /\ [Next]_vars
    => SecretsOwned'
<1>. SUFFICES ASSUME ~LateCalls, TypeOK, LabelInv, BornInv, PageInv, SecretsOwned,
                     [Next]_vars
              PROVE  SecretsOwned'
    OBVIOUS
<1>1. SUFFICES ASSUME NEW p \in Proc, NEW a \in Addr, page'[p][a].seed # 0
               PROVE  \E v \in Thread : Owns(v, p, a)'
    BY DEF SecretsOwned, Owns
<1>2. CASE page[p][a].seed # 0
    BY <1>1, <1>2, OwnsStep DEF SecretsOwned
<1>3. CASE page[p][a].seed = 0
  <2>1. PICK t \in Thread : Seeded(t)
    BY <1>1, <1>3, SeedEffect DEF Kept
  <2>2. p = proc[t] /\ a = this_[t]
    BY <1>1, <1>3, <2>1 DEF Seeded
  <2>3. t \in Live' /\ proc'[t] = proc[t] /\ tss'[t] = this_[t]
    BY <2>1, DrawnPage DEF Seeded, Draw, threadVars, Live
  <2>. QED BY <2>2, <2>3 DEF Owns
<1>. QED BY <1>2, <1>3

\* The initial state satisfies the inductive invariant, and each step keeps it.
LEMMA IInvInit == Init => IInv
<1>. SUFFICES ASSUME Init PROVE IInv
    OBVIOUS
<1>. USE InitAssumption
<1>1. TypeOK
  <2>1. passes \in [Thread -> 0 .. DtorRounds]
    BY DEF Init
  <2>. QED BY <2>1, PageTypes DEF Init, TypeOK, Labels
<1>2. LabelInv /\ BornInv /\ OnceInv
    BY DEF Init, LabelInv, Registering, Initialising, BornInv, OnceInv, Live
<1>3. \A t \in Thread, a \in Addr : ~Has(t, a)
    BY DEF Init, Has, Registering
<1>4. \A p \in Proc, a \in Addr : page[p][a].seed = 0
    BY DEF Init, Unmapped
<1>. QED
    BY <1>1, <1>2, <1>3, <1>4
       DEF IInv, PageInv, SecretsOwned, SeedInv, SeedUnshared, Live, Init

LEMMA IInvStep == ~LateCalls /\ IInv /\ [Next]_vars => IInv'
    BY TypeStep, LabelStep, BornStep, OnceInvStep, PageStep, OwnedStep, SeedStep DEF IInv

-----------------------------------------------------------------------------
(* The theorems.                                                           *)

\* Every variable keeps its type, even if destructors call randp_bytes late.
THEOREM TypeCorrect == Spec => []TypeOK
<1>1. Init => TypeOK /\ BornInv
    BY IInvInit DEF IInv
<1>2. TypeOK /\ BornInv /\ [Next]_vars => TypeOK' /\ BornInv'
    BY TypeStep, BornStep
<1>. QED BY <1>1, <1>2, PTL DEF Spec

\* The inductive invariant, whatever the threads, forks, exits and failures.
THEOREM Invariance == ASSUME ~LateCalls PROVE Spec => []IInv
<1>1. IInv /\ [Next]_vars => IInv'
    BY IInvStep
<1>. QED BY <1>1, IInvInit, PTL DEF Spec

\* No thread draws from a page that another uses or is about to unmap.
THEOREM EachItsOwn == ASSUME ~LateCalls PROVE Spec => []OwnStructure
<1>1. ASSUME IInv PROVE OwnStructure
  <2>1. SUFFICES ASSUME NEW t \in Live, pc[t] = "draw"
                 PROVE  /\ page[proc[t]][this_[t]].mapped
                        /\ \A u \in Live \ {t} : proc[u] = proc[t] =>
                              /\ this_[u] = this_[t] => u \in leaving /\ pc[u] # "draw"
                              /\ pc[u] = "munmap" => addr[u] # this_[t]
    BY DEF OwnStructure
  <2>2. t \in Thread /\ this_[t] \in Addr /\ tss[t] = this_[t]
    BY <1>1, <2>1 DEF IInv, TypeOK, LabelInv, Live
  <2>3. Has(t, this_[t])
    BY <2>2 DEF Has
  <2>4. page[proc[t]][this_[t]].mapped
    BY <1>1, <2>2, <2>3 DEF IInv, PageInv
  <2>5. ASSUME NEW u \in Live \ {t}, proc[u] = proc[t] PROVE ~Has(u, this_[t])
    BY <1>1, <2>2, <2>3, <2>5 DEF IInv, PageInv
  <2>6. ASSUME NEW u \in Live \ {t}, proc[u] = proc[t], this_[u] = this_[t]
        PROVE  u \in leaving /\ pc[u] # "draw"
    <3>1. tss[u] # this_[u] /\ pc[u] \notin Registering
      BY <2>5, <2>6 DEF Has
    <3>2. pc[u] \in {"exiting", "munmap"}
      BY <1>1, <2>2, <2>6, <3>1, InitAssumption
         DEF IInv, TypeOK, Labels, LabelInv, Live, Registering
    <3>. QED BY <1>1, <3>2 DEF IInv, LabelInv, Live
  <2>7. ASSUME NEW u \in Live \ {t}, proc[u] = proc[t] PROVE addr[u] # this_[t]
    BY <2>5, <2>7 DEF Has
  <2>. QED BY <2>4, <2>6, <2>7
<1>. QED BY <1>1, Invariance, PTL

\* No page holds a seed that core dumps or fork would copy.
THEOREM SecretsAreProtected == ASSUME ~LateCalls PROVE Spec => []SecretsProtected
<1>1. IInv => SecretsProtected
    BY SeededPage DEF IInv, SecretsProtected
<1>. QED BY <1>1, Invariance, PTL

\* No seed is in two pages, of one process or two.
THEOREM SeedsAreUnshared == ASSUME ~LateCalls PROVE Spec => []SeedUnshared
<1>1. IInv => SeedUnshared
    BY DEF IInv
<1>. QED BY <1>1, Invariance, PTL

\* A seed is always in the hands of a thread whose destructor will unmap it.
THEOREM SecretsAreOwned == ASSUME ~LateCalls PROVE Spec => []SecretsOwned
<1>1. IInv => SecretsOwned
    BY DEF IInv
<1>. QED BY <1>1, Invariance, PTL

\* The key under which a thread registered its page is never replaced.
THEOREM KeyIsKept == Spec => KeyKept
<1>. DEFINE Inv == TypeOK /\ BornInv /\ OnceInv
            A == \A t \in Live : tss[t] # Null => key'[proc[t]] = key[proc[t]]
<1>1. Init => Inv
    BY IInvInit DEF IInv
<1>2. Inv /\ [Next]_vars => Inv'
    BY TypeStep, BornStep, OnceInvStep
<1>3. Inv /\ [Next]_vars => [A]_vars
  <2>. SUFFICES ASSUME Inv, [Next]_vars, NEW t \in Live, tss[t] # Null
                PROVE  key'[proc[t]] = key[proc[t]]
    OBVIOUS
  <2>1. t \in Thread /\ proc[t] \in born /\ proc[t] \in Proc /\ once[proc[t]] = "done"
    BY DEF Live, TypeOK, BornInv, OnceInv
  <2>2. CASE key' = key
    BY <2>2
  <2>3. ASSUME NEW u \in Thread, TssCreate(u) PROVE key'[proc[t]] = key[proc[t]]
    <3>1. pc[u] = "tss_create" /\ key' = [key EXCEPT ![proc[u]] = key[proc[u]] + 1]
      BY <2>3 DEF TssCreate, OnceStep, Moves, At
    <3>2. u \in Live /\ once[proc[u]] = "busy"
      BY <3>1, LiveThread DEF OnceInv, Initialising
    <3>. QED BY <2>1, <3>1, <3>2 DEF TypeOK
  <2>4. ASSUME NEW u \in Thread, NEW v \in Thread, NEW q \in Proc, Fork(u, v, q)
        PROVE  key'[proc[t]] = key[proc[t]]
    BY <2>1, <2>4 DEF Fork, TypeOK
  <2>5. CASE \A u \in Thread : /\ ~TssCreate(u)
                               /\ \A v \in Thread, q \in Proc : ~Fork(u, v, q)
    <3>1. key' = key
      BY <2>5 DEF Next, CallStep, ExitStep, vars, Call, Leave, LateCall, Enter, Mmap,
                  Mlock, DontDump, WipeOnFork, Prepare, OnceBegin, OncePass, OnceEnd,
                  OnceStep, TssSet, Draw, BeginDestroy, Destroy, Gone, Fails, Exit, Spawn,
                  processVars
    <3>. QED BY <3>1
  <2>. QED BY <2>2, <2>3, <2>4, <2>5
<1>. HIDE DEF A
<1>4. Spec => [][A]_vars
    BY <1>1, <1>2, <1>3, PTL DEF Spec
<1>. QED BY <1>4 DEF A, KeyKept

-----------------------------------------------------------------------------
(*                       Part 2: the library as a whole                    *)

-----------------------------------------------------------------------------
(* Pages and their owners.                                                 *)

\* The threads keep their own invariant in every step that is one of theirs.
LEMMA ThreadsStep == IInv /\ [Next]_vars => IInv'
    BY IInvStep, RequestAssumption

\* SeededPage for all pages, to be read after a step as well.
SeedsMapped ==
    \A p \in Proc, a \in Addr : page[p][a].seed # 0 =>
        page[p][a].mapped /\ page[p][a].dontdump /\ page[p][a].wipeonfork
LEMMA SeededPages == IInv => SeedsMapped
    BY SeededPage DEF IInv, SeedsMapped

\* A thread in the loop of randp_bytes owns the page it draws from, alone.
LEMMA DrawPage ==
    ASSUME IInv, NEW t \in Thread, pc[t] = "draw"
    PROVE  /\ t \in Live /\ proc[t] \in Proc /\ this_[t] \in Addr
           /\ Owns(t, proc[t], this_[t])
           /\ \A u \in Thread : Owns(u, proc[t], this_[t]) => u = t
<1>1. /\ t \in Live /\ proc[t] \in Proc /\ this_[t] \in Addr
      /\ tss[t] = this_[t]
    BY LiveThread DEF IInv, LabelInv, TypeOK
<1>2. Has(t, this_[t])
    BY <1>1 DEF Has
<1>3. ASSUME NEW u \in Thread, Owns(u, proc[t], this_[t]) PROVE u = t
    BY <1>1, <1>2, <1>3 DEF Owns, Has, IInv, PageInv
<1>. QED BY <1>1, <1>3 DEF Owns

\* A page loses its seed when its owner unmaps it, or its process ends.
LEMMA SeedCleared ==
    ASSUME IInv, [Next]_vars, NEW p \in Proc, NEW a \in Addr,
           page[p][a].seed # 0, page'[p][a].seed = 0
    PROVE  \E t \in Thread :
              /\ page'[p][a] = Unmapped
              /\ proc[t] = p
              /\ \/ Destroy(t) /\ addr[t] = a
                 \/ Fails(t)
<1>. DEFINE Goal == \E t \in Thread :
              /\ page'[p][a] = Unmapped
              /\ proc[t] = p
              /\ \/ Destroy(t) /\ addr[t] = a
                 \/ Fails(t)
<1>0. /\ TypeOK /\ LabelInv /\ BornInv /\ PageInv /\ SecretsOwned
      /\ ~LateCalls
    BY RequestAssumption DEF IInv
<1>1. page' # page
    OBVIOUS
<1>2. ASSUME NEW t \in Thread,
             \/ Call(t) \/ Leave(t) \/ LateCall(t)
             \/ OnceBegin(t) \/ OncePass(t) \/ TssCreate(t) \/ OnceEnd(t) \/ TssSet(t)
             \/ BeginDestroy(t) \/ Gone(t)
             \/ \E u \in Thread : Spawn(t, u)
      PROVE  FALSE
    BY <1>1, <1>2 DEF Call, LateCall, Enter, Leave, OnceBegin, OncePass, TssCreate,
                      OnceEnd, OnceStep, TssSet, BeginDestroy, Gone, Spawn
<1>3. ASSUME NEW t \in Thread, Mmap(t) PROVE FALSE
  <2>1. proc[t] \in Proc
    BY <1>0, <1>3, LiveThread DEF Mmap, Moves, At
  <2>2. PICK b \in Addr : ~page[proc[t]][b].mapped /\ SetPage(proc[t], b, Fresh)
    BY <1>3 DEF Mmap
  <2>3. p = proc[t] /\ a = b
    BY <1>0, <2>1, <2>2, SetPageEffect
  <2>. QED BY <1>0, <2>2, <2>3, SeededPage
<1>4. ASSUME NEW t \in Thread, Mlock(t) \/ DontDump(t) \/ WipeOnFork(t) PROVE FALSE
    BY <1>0, <1>4, PreparedPage DEF NewPage
<1>5. ASSUME NEW t \in Thread, Draw(t) PROVE FALSE
  <2>1. seeds \in Nat /\ page[p][a] \in Page
    BY <1>0 DEF TypeOK
  <2>2. page'[p][a] = [page[p][a] EXCEPT !.seed = seeds + 1]
    BY <1>0, <1>1, <1>5, <2>1, DrawnPage
  <2>. QED BY <2>1, <2>2 DEF Page
<1>6. ASSUME NEW t \in Thread, Destroy(t) PROVE Goal
  <2>1. proc[t] \in Proc /\ addr[t] \in Addr
    BY <1>0, <1>6, LiveThread DEF Destroy, Prepare, Moves, At, LabelInv, TypeOK
  <2>2. SetPage(proc[t], addr[t], Unmapped)
    BY <1>6 DEF Destroy, Prepare
  <2>. QED BY <1>0, <1>6, <2>1, <2>2, SetPageEffect
<1>7. ASSUME NEW t \in Thread, Fails(t) PROVE Goal
  <2>1. page'[p][a] = IF p = proc[t] THEN Unmapped ELSE page[p][a]
    BY <1>0, <1>7 DEF Fails, Exit, TypeOK
  <2>. QED BY <1>7, <2>1
<1>8. ASSUME NEW t \in Thread, NEW u \in Thread, NEW q \in Proc, Fork(t, u, q)
      PROVE  FALSE
  <2>1. page'[p][a] = IF p = q THEN Inherited(page[proc[t]][a]) ELSE page[p][a]
    BY <1>0, <1>8 DEF Fork, TypeOK
  <2>2. PICK v \in Thread : Owns(v, p, a)
    BY <1>0 DEF SecretsOwned
  <2>3. p \in born
    BY <1>0, <2>2 DEF Owns, BornInv
  <2>. QED BY <1>8, <2>1, <2>3 DEF Fork
<1>9. CASE UNCHANGED vars
    BY <1>1, <1>9 DEF vars
<1>. QED
    BY <1>2, <1>3, <1>4, <1>5, <1>6, <1>7, <1>8, <1>9 DEF Next, CallStep, ExitStep

-----------------------------------------------------------------------------
(* Calm steps.                                                             *)

\* What a step of RandpThreads does to memory: a page loses its content with
\* its seed, or keeps both.
MemKept ==
    \A p \in Proc, a \in Addr :
        \/ mem'[p][a] = ZeroPage /\ page'[p][a].seed = 0
        \/ mem'[p][a] = mem[p][a] /\ page'[p][a].seed = page[p][a].seed

\* The threads that may be outside a call, or in the middle of a copy.
LabelsKept ==
    \A u \in Thread :
        /\ pc[u] = "dead" => pc'[u] = "dead"
        /\ pc[u] = "draw" => pc'[u] \in {"draw", "dead"}
        /\ pc'[u] \in {"unborn", "idle"} => pc[u] \in {"unborn", "idle"}

\* A thread that copies goes on copying from the same structure, or ends with
\* its process and the pages of the process.
ReaderKept ==
    \A u \in Thread : Reading(u) =>
        \/ /\ pc'[u] = "draw" /\ proc'[u] = proc[u] /\ this_'[u] = this_[u]
           /\ mem'[proc[u]][this_[u]] = Content(u)
        \/ pc'[u] = "dead" /\ \A a \in Addr : page'[proc[u]][a].seed = 0

\* What n and the labels have to do with each other after the step.
CallsKept ==
    \A u \in Thread :
        /\ pc'[u] \in {"unborn", "idle"} => n'[u] = 0
        /\ at[u] = "advance" =>
              /\ n'[u] = n[u]
              /\ pc[u] = "dead" => pc'[u] = "dead"
              /\ pc[u] = "draw" => pc'[u] \in {"draw", "dead"}

\* A step of RandpThreads that draws no bytes.
Calm ==
    /\ [Next]_vars /\ IInv' /\ MemKept /\ mem' \in [Proc -> [Addr -> Struct]]
    /\ seeds' = seeds /\ CallsKept /\ n' \in [Thread -> Nat]
    /\ UNCHANGED <<at, m, log>>

\* The steps of other threads, and of this one outside the loop.
Around(t) ==
    \/ Manage(t) \/ Abort(t)
    \/ \E u \in Thread, q \in Proc : ForkMemory(t, u, q)

LEMMA AroundEffect ==
    ASSUME TypeOK, NEW t \in Thread, Around(t)
    PROVE  Next /\ seeds' = seeds /\ LabelsKept /\ UNCHANGED <<at, n, m, log>>
<1>. DEFINE Goal == Next /\ seeds' = seeds /\ LabelsKept
<1>. USE DEF Moves, Goto, At, Prepare, OnceStep, threadVars, processVars, LabelsKept, TypeOK
<1>1. ASSUME Mmap(t) PROVE Goal
  <2>1. seeds' = seeds /\ LabelsKept
    BY <1>1 DEF Mmap
  <2>. QED BY <1>1, <2>1 DEF Next, CallStep
<1>2. ASSUME Mlock(t) PROVE Goal
  <2>1. seeds' = seeds /\ LabelsKept
    BY <1>2 DEF Mlock
  <2>. QED BY <1>2, <2>1 DEF Next, CallStep
<1>3. ASSUME DontDump(t) PROVE Goal
  <2>1. seeds' = seeds /\ LabelsKept
    BY <1>3 DEF DontDump
  <2>. QED BY <1>3, <2>1 DEF Next, CallStep
<1>4. ASSUME WipeOnFork(t) PROVE Goal
  <2>1. seeds' = seeds /\ LabelsKept
    BY <1>4 DEF WipeOnFork
  <2>. QED BY <1>4, <2>1 DEF Next, CallStep
<1>5. ASSUME OnceBegin(t) \/ OncePass(t) \/ TssCreate(t) \/ OnceEnd(t) PROVE Goal
  <2>1. seeds' = seeds /\ LabelsKept
    BY <1>5 DEF OnceBegin, OncePass, TssCreate, OnceEnd
  <2>. QED BY <1>5, <2>1 DEF Next, CallStep
<1>6. ASSUME TssSet(t) PROVE Goal
  <2>1. seeds' = seeds /\ LabelsKept
    BY <1>6 DEF TssSet
  <2>. QED BY <1>6, <2>1 DEF Next, CallStep
<1>7. ASSUME Leave(t) PROVE Goal
  <2>1. seeds' = seeds /\ LabelsKept
    BY <1>7 DEF Leave
  <2>. QED BY <1>7, <2>1 DEF Next
<1>8. ASSUME ExitStep(t) PROVE Goal
  <2>1. seeds' = seeds /\ LabelsKept
    BY <1>8 DEF ExitStep, BeginDestroy, Destroy, Gone
  <2>. QED BY <1>8, <2>1 DEF Next
<1>9. ASSUME NEW u \in Thread, Spawn(t, u) PROVE Goal
  <2>1. seeds' = seeds /\ LabelsKept
    BY <1>9 DEF Spawn
  <2>. QED BY <1>9, <2>1 DEF Next
<1>10. ASSUME Fails(t) PROVE Goal
  <2>1. seeds' = seeds /\ LabelsKept
    BY <1>10 DEF Fails, Exit, Ended
  <2>. QED BY <1>10, <2>1 DEF Next
<1>11. ASSUME NEW u \in Thread, NEW q \in Proc, Fork(t, u, q) PROVE Goal
  <2>1. seeds' = seeds /\ LabelsKept
    BY <1>11 DEF Fork
  <2>. QED BY <1>11, <2>1 DEF Next
<1>12. UNCHANGED <<at, n, m, log>>
    BY DEF Around, Manage, Abort, ForkMemory
<1>. HIDE DEF Goal
<1>13. Goal
    BY <1>1, <1>2, <1>3, <1>4, <1>5, <1>6, <1>7, <1>8, <1>9, <1>10, <1>11
       DEF Around, Manage, Abort, ForkMemory
<1>. QED BY <1>12, <1>13 DEF Goal

\* Remapped, for a step of RandpThreads that gives no seed.
LEMMA RemappedKeeps ==
    ASSUME LibraryInv, IInv', [Next]_vars, seeds' = seeds, mem' = Remapped
    PROVE  MemKept /\ mem' \in [Proc -> [Addr -> Struct]]
<1>0. /\ IInv /\ TypeOK /\ LabelInv /\ BornInv /\ PageInv /\ SecretsOwned
      /\ ~LateCalls /\ seeds \in Nat
    BY RequestAssumption DEF LibraryInv, IInv, TypeOK
<1>1. Kept
    BY <1>0, SeedEffect DEF Seeded
<1>2. /\ mem \in [Proc -> [Addr -> Struct]]
      /\ \A p \in Proc, a \in Addr : mem'[p][a] =
            IF page[p][a].mapped /\ page'[p][a].mapped THEN mem[p][a] ELSE ZeroPage
    BY DEF LibraryInv, LibraryTypeOK, Remapped
<1>3. mem' \in [Proc -> [Addr -> Struct]]
    BY <1>2, ZeroPageType DEF Remapped
<1>4. ASSUME NEW p \in Proc, NEW a \in Addr,
             page[p][a].mapped, page'[p][a].mapped
      PROVE  page'[p][a].seed = page[p][a].seed
  <2>1. SUFFICES ASSUME page[p][a].seed # 0, page'[p][a].seed = 0 PROVE FALSE
    BY <1>1 DEF Kept
  <2>2. page'[p][a] = Unmapped
    BY <1>0, <2>1, SeedCleared
  <2>. QED BY <1>4, <2>2 DEF Unmapped
<1>5. ASSUME NEW p \in Proc, NEW a \in Addr,
             ~(page[p][a].mapped /\ page'[p][a].mapped)
      PROVE  page'[p][a].seed = 0
  <2>1. CASE ~page[p][a].mapped
    BY <1>0, <1>1, <2>1, SeededPage DEF Kept
  <2>2. CASE ~page'[p][a].mapped
    <3>1. SeedsMapped'
      BY SeededPages, PTL
    <3>. QED BY <2>2, <3>1 DEF SeedsMapped
  <2>. QED BY <1>5, <2>1, <2>2
<1>. QED BY <1>2, <1>3, <1>4, <1>5 DEF MemKept

\* A child of a fork finds no seed, and nothing in its memory.
LEMMA ForkKeeps ==
    ASSUME LibraryInv, NEW t \in Thread, NEW u \in Thread, NEW q \in Proc,
           ForkMemory(t, u, q)
    PROVE  MemKept /\ mem' \in [Proc -> [Addr -> Struct]]
<1>0. /\ TypeOK /\ LabelInv /\ BornInv /\ PageInv /\ SecretsOwned /\ SeedsMapped
      /\ ContentInv /\ mem \in [Proc -> [Addr -> Struct]]
    BY SeededPages DEF LibraryInv, IInv, LibraryTypeOK
<1>1. pc[t] = "idle" /\ q \notin born /\ proc[t] \in Proc
    BY <1>0, LiveThread DEF ForkMemory, Fork, At
<1>. DEFINE child == [a \in Addr |->
                  IF page[proc[t]][a].wipeonfork THEN ForkImage(mem[proc[t]][a])
                  ELSE mem[proc[t]][a]]
<1>2. mem' = [mem EXCEPT ![q] = child]
    BY DEF ForkMemory
<1>3. ASSUME NEW a \in Addr PROVE child[a] = ZeroPage
  <2>1. CASE page[proc[t]][a].wipeonfork
    BY <2>1 DEF ForkImage
  <2>2. CASE ~page[proc[t]][a].wipeonfork
    BY <1>0, <1>1, <2>2 DEF ContentInv, SeedsMapped
  <2>. QED BY <2>1, <2>2
<1>4. child = [a \in Addr |-> ZeroPage]
    BY <1>3
<1>. HIDE DEF child
<1>5. mem' \in [Proc -> [Addr -> Struct]]
    BY <1>0, <1>2, <1>4, ZeroPageType
<1>6. ASSUME NEW a \in Addr
      PROVE  mem'[q][a] = ZeroPage /\ page'[q][a].seed = 0
  <2>1. page'[q][a] = Inherited(page[proc[t]][a]) /\ page[proc[t]][a] \in Page
    BY <1>0, <1>1 DEF ForkMemory, Fork, TypeOK
  <2>2. page'[q][a].seed = 0
    BY <1>0, <1>1, <2>1, InheritedFields DEF SeedsMapped
  <2>. QED BY <1>0, <1>2, <1>4, <2>2
<1>7. ASSUME NEW p \in Proc \ {q}, NEW a \in Addr
      PROVE  mem'[p][a] = mem[p][a] /\ page'[p][a].seed = page[p][a].seed
    BY <1>0, <1>2 DEF ForkMemory, Fork, TypeOK
<1>. QED BY <1>5, <1>6, <1>7 DEF MemKept

LEMMA AroundMemory ==
    ASSUME LibraryInv, NEW t \in Thread, Around(t)
    PROVE  /\ [Next]_vars /\ IInv' /\ MemKept /\ mem' \in [Proc -> [Addr -> Struct]]
           /\ seeds' = seeds /\ LabelsKept /\ UNCHANGED <<at, n, m, log>>
<1>0. IInv /\ TypeOK
    BY DEF LibraryInv, IInv
<1>1. [Next]_vars /\ seeds' = seeds /\ LabelsKept /\ UNCHANGED <<at, n, m, log>>
    BY <1>0, AroundEffect
<1>2. IInv'
    BY <1>0, <1>1, ThreadsStep
<1>3. CASE Manage(t) \/ Abort(t)
  <2>1. mem' = Remapped
    BY <1>3 DEF Manage, Abort
  <2>. QED BY <1>1, <1>2, <2>1, RemappedKeeps
<1>4. CASE \E u \in Thread, q \in Proc : ForkMemory(t, u, q)
    BY <1>1, <1>2, <1>4, ForkKeeps
<1>. QED BY <1>3, <1>4 DEF Around

\* What a thread copies from has a seed, and the thread owns it.
LEMMA ReadPage ==
    ASSUME LibraryInv, NEW t \in Thread, pc[t] = "draw",
           Content(t).rand_bytes_remaining > 0
    PROVE  page[proc[t]][this_[t]].seed # 0
<1>1. proc[t] \in Proc /\ this_[t] \in Addr /\ ContentInv
    BY DrawPage DEF LibraryInv
<1>2. page[proc[t]][this_[t]].seed = 0 => Content(t) = ZeroPage
    BY <1>1 DEF ContentInv, Content
<1>. QED BY <1>2 DEF ZeroPage

LEMMA ReaderStep ==
    ASSUME LibraryInv, Calm
    PROVE  ReaderKept
<1>0. /\ IInv /\ TypeOK /\ LabelInv /\ BornInv /\ LoopInv /\ ~LateCalls /\ [Next]_vars
      /\ LabelInv'
    BY RequestAssumption DEF LibraryInv, IInv, Calm
<1>1. SUFFICES ASSUME NEW u \in Thread, Reading(u)
      PROVE  \/ /\ pc'[u] = "draw" /\ proc'[u] = proc[u] /\ this_'[u] = this_[u]
                /\ mem'[proc[u]][this_[u]] = Content(u)
             \/ pc'[u] = "dead" /\ \A a \in Addr : page'[proc[u]][a].seed = 0
    BY DEF ReaderKept
<1>2. pc[u] = "draw" /\ pc'[u] \in {"draw", "dead"}
    BY <1>1 DEF Reading, At, Calm, CallsKept
<1>3. page[proc[u]][this_[u]].seed # 0
    BY <1>0, <1>1, <1>2, ReadPage DEF LoopInv
<1>4. PICK p \in Proc, a \in Addr :
         /\ p = proc[u] /\ a = this_[u] /\ Owns(u, p, a) /\ u \in Live
         /\ \A v \in Thread : Owns(v, p, a) => v = u
    BY <1>0, <1>2, DrawPage
<1>5. CASE page'[p][a].seed # 0
  <2>1. Owns(u, p, a)'
    BY <1>0, <1>4, <1>5, OwnsStep
  <2>2. pc'[u] = "draw" /\ proc'[u] = p /\ tss'[u] = a
    BY <1>2, <2>1 DEF Owns, Live
  <2>3. this_'[u] = a
    BY <1>0, <2>2 DEF LabelInv
  <2>4. mem'[p][a] = mem[p][a]
    BY <1>4, <1>5 DEF Calm, MemKept
  <2>. QED BY <1>4, <2>2, <2>3, <2>4 DEF Content
<1>6. CASE page'[p][a].seed = 0
  <2>1. PICK v \in Thread :
           /\ proc[v] = p
           /\ \/ Destroy(v) /\ addr[v] = a
              \/ Fails(v)
    BY <1>0, <1>3, <1>4, <1>6, SeedCleared
  <2>2. CASE Destroy(v) /\ addr[v] = a
    <3>1. pc[v] = "munmap"
      BY <2>2 DEF Destroy, Prepare, Moves, At
    <3>2. Owns(v, p, a)
      BY <2>1, <2>2, <3>1 DEF Owns, Live
    <3>. QED BY <1>2, <1>4, <3>1, <3>2
  <2>3. CASE Fails(v)
    <3>1. pc'[u] = "dead"
      BY <1>4, <2>1, <2>3 DEF Fails, Exit, Ended
    <3>2. \A b \in Addr : page'[p][b] = Unmapped
      BY <1>0, <1>4, <2>1, <2>3 DEF Fails, Exit, TypeOK
    <3>. QED BY <1>4, <3>1, <3>2 DEF Unmapped
  <2>. QED BY <2>1, <2>2, <2>3
<1>. QED BY <1>5, <1>6

\* Types, the loop, and the content of the pages.
LEMMA CalmControl ==
    ASSUME LibraryInv, Calm
    PROVE  IInv' /\ LibraryTypeOK' /\ LoopInv' /\ ContentInv'
<1>0. /\ LibraryTypeOK /\ LoopInv /\ ContentInv /\ ReaderKept /\ CallsKept /\ MemKept
      /\ at' = at /\ m' = m /\ log' = log
    BY ReaderStep DEF LibraryInv, Calm
<1>1. IInv' /\ LibraryTypeOK'
    BY <1>0 DEF Calm, LibraryTypeOK
<1>2. LoopInv'
  <2>1. ASSUME NEW t \in Thread PROVE at'[t] = "advance" => pc'[t] \in {"draw", "dead"}
    BY <1>0 DEF LoopInv, CallsKept
  <2>2. ASSUME NEW t \in Thread, Reading(t)'
        PROVE  /\ n'[t] > 0 /\ Content(t)'.rand_bytes_remaining > 0
               /\ m'[t] = Chunk(Content(t)', n'[t])
    <3>1. Reading(t) /\ pc'[t] = "draw" /\ n'[t] = n[t]
      BY <1>0, <2>2 DEF Reading, At, LoopInv, CallsKept
    <3>2. Content(t)' = Content(t)
      BY <1>0, <3>1 DEF ReaderKept, Content
    <3>. QED BY <1>0, <3>1, <3>2 DEF LoopInv
  <2>. QED BY <1>0, <2>1, <2>2 DEF LoopInv, CallsKept
<1>3. ContentInv'
  <2>1. SUFFICES ASSUME NEW p \in Proc, NEW a \in Addr
                 PROVE  /\ mem'[p][a].keys = page'[p][a].seed
                        /\ page'[p][a].seed = 0 => mem'[p][a] = ZeroPage
                        /\ Shaped(mem[p][a])'
    BY DEF ContentInv
  <2>2. CASE mem'[p][a] = ZeroPage /\ page'[p][a].seed = 0
    <3>1. Shaped(mem'[p][a])
      BY <2>2, ZeroPageShaped
    <3>2. mem'[p][a].keys = 0
      BY <2>2 DEF ZeroPage
    <3>. QED BY <2>2, <3>1, <3>2 DEF Shaped
  <2>3. CASE mem'[p][a] = mem[p][a] /\ page'[p][a].seed = page[p][a].seed
    BY <1>0, <2>3 DEF ContentInv, Shaped
  <2>. QED BY <1>0, <2>2, <2>3 DEF MemKept
<1>. QED BY <1>1, <1>2, <1>3

\* Nothing is delivered, and what is left in the pools is what was there.
LEMMA CalmStep ==
    ASSUME LibraryInv, Calm
    PROVE  LibraryInv'
<1>0. /\ IInv /\ LibraryTypeOK /\ ContentInv /\ DeliveredInv /\ UndeliveredInv /\ NoRepeat
      /\ ReaderKept /\ MemKept /\ m' = m /\ at' = at /\ log' = log /\ seeds' = seeds
      /\ TypeOK /\ LabelInv /\ BornInv /\ ~LateCalls /\ [Next]_vars
    BY ReaderStep, RequestAssumption DEF LibraryInv, IInv, Calm
<1>1. IInv' /\ LibraryTypeOK' /\ LoopInv' /\ ContentInv'
    BY CalmControl
<1>2. DeliveredInv'
  <2>1. SUFFICES ASSUME NEW t \in Thread, NEW j \in DOMAIN log[t]
                 PROVE  /\ log[t][j].seed \in 1 .. seeds
                        /\ \A p \in Proc, a \in Addr :
                              log[t][j].seed = mem'[p][a].keys =>
                                  Owns(t, p, a)' /\ log[t][j].ctr < mem'[p][a].ctr
    BY <1>0 DEF DeliveredInv
  <2>2. log[t][j].seed \in 1 .. seeds /\ log[t][j].seed # 0
    BY <1>0 DEF DeliveredInv
  <2>3. ASSUME NEW p \in Proc, NEW a \in Addr, log[t][j].seed = mem'[p][a].keys
        PROVE  Owns(t, p, a)' /\ log[t][j].ctr < mem'[p][a].ctr
    <3>1. mem'[p][a] = mem[p][a] /\ page'[p][a].seed # 0
      BY <1>0, <1>1, <2>2, <2>3 DEF MemKept, ContentInv
    <3>2. Owns(t, p, a) /\ log[t][j].ctr < mem'[p][a].ctr
      BY <1>0, <2>3, <3>1 DEF DeliveredInv
    <3>3. Owns(t, p, a)'
      BY <1>0, <3>1, <3>2, OwnsStep
    <3>. QED BY <3>2, <3>3
  <2>. QED BY <2>2, <2>3
<1>3. UndeliveredInv'
  <2>1. SUFFICES ASSUME NEW t \in Thread, NEW p \in Proc, NEW a \in Addr, NEW i \in Index,
                        i >= Src(mem'[p][a]) + Taken(t, p, a)'
                 PROVE  mem'[p][a].pool[i] \notin Received(t)
    BY <1>0 DEF UndeliveredInv, Received, Src
  <2>2. m[t] \in Nat /\ Taken(t, p, a) \in Nat /\ Taken(t, p, a)' \in Nat
    BY <1>0, SizesAssumption DEF LibraryTypeOK, Taken
  <2>3. CASE mem'[p][a] = ZeroPage
    <3>1. Src(mem'[p][a]) = PoolSize
      BY <2>3, ZeroPageShaped
    <3>. QED BY <2>1, <2>2, <3>1, SizesAssumption DEF Index
  <2>4. CASE mem'[p][a] # ZeroPage
    <3>1. mem'[p][a] = mem[p][a] /\ page'[p][a].seed # 0
      BY <1>1, <2>4, <1>0 DEF MemKept, ContentInv
    <3>2. CASE Reading(t) /\ proc[t] = p /\ this_[t] = a
      <4>1. pc'[t] = "draw" /\ proc'[t] = p /\ this_'[t] = a
        BY <1>0, <3>1, <3>2 DEF ReaderKept
      <4>2. Taken(t, p, a)' = Taken(t, p, a)
        BY <1>0, <3>2, <4>1 DEF Taken, Reading, At
      <4>. QED BY <1>0, <2>1, <3>1, <4>2 DEF UndeliveredInv
    <3>3. CASE ~(Reading(t) /\ proc[t] = p /\ this_[t] = a)
      <4>1. Taken(t, p, a) = 0
        BY <3>3 DEF Taken
      <4>2. mem[p][a] \in Struct
        BY <1>0 DEF LibraryTypeOK
      <4>3. Src(mem[p][a]) \in Nat
        BY <4>2, SizesAssumption DEF Struct, Src
      <4>4. i >= Src(mem[p][a]) + Taken(t, p, a)
        BY <2>1, <2>2, <3>1, <4>1, <4>3 DEF Index
      <4>. QED BY <1>0, <3>1, <4>4 DEF UndeliveredInv
    <3>. QED BY <3>2, <3>3
  <2>. QED BY <2>3, <2>4
<1>4. NoRepeat'
    BY <1>0 DEF NoRepeat
<1>. QED BY <1>1, <1>2, <1>3, <1>4 DEF LibraryInv

\* The calm steps: those of other code, a call and a return, and stuttering.
LEMMA AroundCalm ==
    ASSUME LibraryInv, NEW t \in Thread, Around(t)
    PROVE  Calm
<1>1. /\ [Next]_vars /\ IInv' /\ MemKept /\ mem' \in [Proc -> [Addr -> Struct]]
      /\ seeds' = seeds /\ LabelsKept /\ UNCHANGED <<at, n, m, log>>
    BY AroundMemory
<1>2. n' \in [Thread -> Nat] /\ LoopInv
    BY <1>1 DEF LibraryInv, LibraryTypeOK
<1>3. CallsKept
    BY <1>1, <1>2 DEF LabelsKept, CallsKept, LoopInv
<1>. QED BY <1>1, <1>2, <1>3 DEF Calm

\* Pages and their content stay.
LEMMA MemSame ==
    ASSUME LibraryInv, page' = page, mem' = mem
    PROVE  MemKept /\ mem' \in [Proc -> [Addr -> Struct]]
    BY DEF MemKept, LibraryInv, LibraryTypeOK

LEMMA RequestCalm ==
    ASSUME LibraryInv, NEW t \in Thread, NEW k \in RequestSize, Request(t, k)
    PROVE  Calm
<1>0. IInv /\ TypeOK /\ LibraryTypeOK /\ LoopInv
    BY DEF LibraryInv, IInv
<1>1. [Next]_vars /\ IInv'
  <2>1. Next
    BY DEF Request, Next
  <2>. QED BY <1>0, <2>1, ThreadsStep
<1>2. /\ pc[t] = "idle" /\ pc'[t] \in {"mmap", "draw"}
      /\ \A u \in Thread \ {t} : pc'[u] = pc[u] /\ n'[u] = n[u]
      /\ page' = page /\ mem' = mem /\ seeds' = seeds
      /\ UNCHANGED <<at, m, log>>
    BY <1>0 DEF Request, Call, Enter, At, Goto, TypeOK, LibraryTypeOK
<1>3. n' \in [Thread -> Nat]
    BY <1>0, RequestAssumption DEF Request, LibraryTypeOK
<1>4. CallsKept
    BY <1>0, <1>2 DEF CallsKept, LoopInv
<1>. QED BY <1>1, <1>2, <1>3, <1>4, MemSame DEF Calm

LEMMA ReturnCalm ==
    ASSUME LibraryInv, NEW t \in Thread, Return(t)
    PROVE  Calm
<1>0. IInv /\ TypeOK /\ LabelInv /\ LibraryTypeOK /\ LoopInv
    BY DEF LibraryInv, IInv
<1>1. [Next]_vars /\ IInv'
  <2>1. t \notin leaving
    BY <1>0 DEF Return, Moves, At, LabelInv
  <2>2. Draw(t)
    BY <2>1 DEF Return, Draw
  <2>3. Next
    BY <2>2 DEF Next, CallStep
  <2>. QED BY <1>0, <2>3, ThreadsStep
<1>2. /\ n[t] = 0 /\ at[t] = "loop" /\ pc[t] = "draw"
      /\ \A u \in Thread \ {t} : pc'[u] = pc[u]
      /\ page' = page /\ mem' = mem /\ seeds' = seeds
      /\ UNCHANGED <<at, n, m, log>>
    BY <1>0 DEF Return, Moves, At, Goto, TypeOK, loopVars
<1>3. n' \in [Thread -> Nat]
    BY <1>0, <1>2 DEF LibraryTypeOK
<1>4. CallsKept
    BY <1>0, <1>2 DEF CallsKept, LoopInv
<1>. QED BY <1>1, <1>2, <1>3, <1>4, MemSame DEF Calm

LEMMA StutterCalm ==
    ASSUME LibraryInv, UNCHANGED libraryVars
    PROVE  Calm
<1>0. IInv /\ LibraryTypeOK /\ LoopInv
    BY DEF LibraryInv
<1>1. [Next]_vars /\ UNCHANGED vars /\ UNCHANGED loopVars
    BY DEF libraryVars
<1>2. IInv'
    BY <1>0, <1>1, ThreadsStep
<1>3. pc' = pc /\ page' = page /\ seeds' = seeds /\ UNCHANGED <<mem, at, n, m, log>>
    BY <1>1 DEF vars, loopVars
<1>4. n' \in [Thread -> Nat] /\ CallsKept
    BY <1>0, <1>3 DEF CallsKept, LoopInv, LibraryTypeOK
<1>. QED BY <1>1, <1>2, <1>3, <1>4, MemSame DEF Calm

-----------------------------------------------------------------------------
(* The steps of the loop.                                                  *)

LEMMA LogByte ==
    ASSUME LibraryTypeOK, NEW t \in Thread, NEW j \in DOMAIN log[t]
    PROVE  log[t][j] \in Byte /\ log[t][j].ctr \in Nat
<1>1. log[t] \in Seq(Byte)
    BY DEF LibraryTypeOK
<1>2. log[t][j] \in Byte
    BY <1>1
<1>. QED BY <1>2 DEF Byte

\* What a refill does: the page of t gets a full pool of keystream, under the
\* keys it had or under a seed that is new.
Refilled(t, p, a) ==
    /\ UNCHANGED <<pc, threadVars, processVars, addr, at, n, m, log>>
    /\ at[t] = "loop"
    /\ \A q \in Proc, b \in Addr : q # p \/ b # a =>
           mem'[q][b] = mem[q][b] /\ page'[q][b] = page[q][b]
    /\ mem' \in [Proc -> [Addr -> Struct]]
    /\ Src(mem'[p][a]) = 0 /\ NumBlocks <= mem'[p][a].ctr
    /\ \A i \in Index : /\ mem'[p][a].pool[i] = KeyByte(mem'[p][a], i)
                       /\ mem'[p][a].pool[i].seed = mem'[p][a].keys
    /\ mem'[p][a].keys # 0
    /\ \/ /\ seeds' = seeds /\ page' = page
          /\ mem'[p][a].keys = mem[p][a].keys /\ mem[p][a].ctr <= mem'[p][a].ctr
          /\ \A i \in Index : mem[p][a].ctr <= mem'[p][a].pool[i].ctr
       \/ /\ seeds' = seeds + 1 /\ mem'[p][a].keys = seeds + 1
          /\ page' = [page EXCEPT ![p][a] = [page[p][a] EXCEPT !.seed = seeds + 1]]

LEMMA RegenEffect ==
    ASSUME LibraryInv, NEW t \in Thread, Regen(t)
    PROVE  \E p \in Proc, a \in Addr :
              /\ p = proc[t] /\ a = this_[t] /\ pc[t] = "draw"
              /\ Refilled(t, p, a)
<1>0. /\ IInv /\ TypeOK /\ LibraryTypeOK /\ ContentInv
    BY DEF LibraryInv, IInv
<1>1. pc[t] = "draw" /\ at[t] = "loop" /\ Content(t).rand_bytes_remaining = 0
    BY DEF Regen, Empty, At
<1>2. PICK p \in Proc, a \in Addr : p = proc[t] /\ a = this_[t]
    BY <1>0, <1>1, DrawPage
<1>. DEFINE s == mem[p][a]
<1>3. s \in Struct /\ s = Content(t) /\ mem \in [Proc -> [Addr -> Struct]]
      /\ s.rand_bytes_remaining = 0
    BY <1>0, <1>1, <1>2 DEF LibraryTypeOK, Content
<1>4. seeds \in Nat /\ page \in [Proc -> [Addr -> Page]]
    BY <1>0 DEF TypeOK
<1>5. UNCHANGED <<pc, threadVars, processVars, addr, at, n, m, log>>
    BY DEF Regen
<1>. HIDE DEF s
<1>6. ASSUME NEW new \in Struct, mem' = [mem EXCEPT ![p][a] = new]
      PROVE  /\ mem'[p][a] = new /\ mem' \in [Proc -> [Addr -> Struct]]
             /\ \A q \in Proc, b \in Addr : q # p \/ b # a => mem'[q][b] = mem[q][b]
    BY <1>3, <1>6
<1>7. CASE s.reseed_countdown = 0
  <2>. DEFINE r == Reseeded(s, seeds + 1)
  <2>1. /\ r \in Struct /\ r.keys = seeds + 1 /\ r.reseed_countdown > 0
        /\ Filled(r) \in Struct
    <3>1. r \in Struct
      BY <1>3, <1>4, ReseededType
    <3>2. r.keys = seeds + 1 /\ r.reseed_countdown > 0
      BY SizesAssumption DEF Reseeded
    <3>. QED BY <3>1, <3>2, FilledType
  <2>2. /\ seeds' = seeds + 1 /\ mem' = [mem EXCEPT ![p][a] = Filled(r)]
        /\ page' = [page EXCEPT ![p][a] = [page[p][a] EXCEPT !.seed = seeds + 1]]
    BY <1>2, <1>3, <1>7 DEF Regen, SetContent, SetPage
  <2>. HIDE DEF r
  <2>3. mem'[p][a] = Filled(r) /\ mem' \in [Proc -> [Addr -> Struct]]
        /\ \A q \in Proc, b \in Addr : q # p \/ b # a =>
              mem'[q][b] = mem[q][b] /\ page'[q][b] = page[q][b]
    <3>1. mem'[p][a] = Filled(r) /\ mem' \in [Proc -> [Addr -> Struct]]
          /\ \A q \in Proc, b \in Addr : q # p \/ b # a => mem'[q][b] = mem[q][b]
      BY <1>6, <2>1, <2>2
    <3>2. \A q \in Proc, b \in Addr : q # p \/ b # a => page'[q][b] = page[q][b]
      BY <1>4, <2>2
    <3>. QED BY <3>1, <3>2
  <2>4. /\ Filled(r).keys = r.keys /\ Src(Filled(r)) = 0
        /\ NumBlocks <= Filled(r).ctr
        /\ \A i \in Index : /\ Filled(r).pool[i] = KeyByte(Filled(r), i)
                           /\ Filled(r).pool[i].seed = r.keys
    BY <2>1, FilledFields
  <2>5. seeds + 1 # 0
    BY <1>4
  <2>6. Refilled(t, p, a)
    BY <1>1, <1>5, <2>1, <2>2, <2>3, <2>4, <2>5 DEF Refilled
  <2>. QED BY <1>1, <1>2, <2>6
<1>8. CASE s.reseed_countdown # 0
  <2>1. Filled(s) \in Struct /\ s.keys # 0
    <3>1. s.reseed_countdown > 0
      BY <1>3, <1>8 DEF Struct
    <3>2. s # ZeroPage
      BY <1>8 DEF ZeroPage
    <3>. QED BY <1>0, <1>3, <3>1, <3>2, FilledType DEF ContentInv, s
  <2>2. /\ seeds' = seeds /\ page' = page /\ mem' = [mem EXCEPT ![p][a] = Filled(s)]
    BY <1>2, <1>3, <1>8 DEF Regen, SetContent
  <2>3. mem'[p][a] = Filled(s) /\ mem' \in [Proc -> [Addr -> Struct]]
        /\ \A q \in Proc, b \in Addr : q # p \/ b # a => mem'[q][b] = mem[q][b]
    BY <1>6, <2>1, <2>2
  <2>4. /\ Filled(s).keys = s.keys /\ Src(Filled(s)) = 0
        /\ s.ctr <= Filled(s).ctr /\ NumBlocks <= Filled(s).ctr
        /\ \A i \in Index : /\ Filled(s).pool[i] = KeyByte(Filled(s), i)
                           /\ Filled(s).pool[i].seed = s.keys
                           /\ s.ctr <= Filled(s).pool[i].ctr
    BY <1>3, FilledFields
  <2>5. Refilled(t, p, a)
    BY <1>1, <1>5, <2>1, <2>2, <2>3, <2>4 DEF Refilled, s
  <2>. QED BY <1>1, <1>2, <2>5
<1>. QED BY <1>7, <1>8

\* The threads' own invariant, which knows of a first seed only, survives the
\* replacement of a seed by a new one: the page is protected and has its owner.
LEMMA RegenThreads ==
    ASSUME LibraryInv, NEW t \in Thread, NEW p \in Proc, NEW a \in Addr,
           p = proc[t], a = this_[t], pc[t] = "draw", Refilled(t, p, a)
    PROVE  IInv'
<1>0. /\ TypeOK /\ LabelInv /\ BornInv /\ OnceInv /\ PageInv /\ SecretsOwned
      /\ SeedInv /\ SeedUnshared /\ IInv
    BY DEF LibraryInv, IInv
<1>1. CASE page' = page /\ seeds' = seeds
  <2>1. UNCHANGED vars
    BY <1>1 DEF Refilled, vars, threadVars, processVars
  <2>. QED BY <1>0, <2>1, ThreadsStep
<1>2. CASE /\ seeds' = seeds + 1
           /\ page' = [page EXCEPT ![p][a] = [page[p][a] EXCEPT !.seed = seeds + 1]]
  <2>1. /\ born' = born /\ proc' = proc /\ pc' = pc /\ leaving' = leaving
        /\ passes' = passes /\ this_' = this_ /\ addr' = addr /\ tss' = tss
        /\ once' = once /\ key' = key /\ Live' = Live
    BY DEF Refilled, threadVars, processVars, Live
  <2>2. /\ seeds \in Nat /\ page \in [Proc -> [Addr -> Page]]
        /\ \A q \in Proc, b \in Addr : page[q][b].seed \in Nat
    BY <1>0 DEF TypeOK, Page
  <2>3. page' \in [Proc -> [Addr -> Page]]
    <3>1. SetPage(p, a, [page[p][a] EXCEPT !.seed = seeds + 1])
      BY <1>2 DEF SetPage
    <3>2. page[p][a] \in Page /\ seeds + 1 \in Nat
      BY <2>2
    <3>3. [page[p][a] EXCEPT !.seed = seeds + 1] \in Page
      BY <3>2, PageTypes
    <3>. QED BY <1>0, <3>1, <3>3, SetPageType
  <2>4. \A q \in Proc, b \in Addr :
           /\ page'[q][b].mapped = page[q][b].mapped
           /\ page'[q][b].dontdump = page[q][b].dontdump
           /\ page'[q][b].wipeonfork = page[q][b].wipeonfork
           /\ page'[q][b].seed = IF q = p /\ b = a THEN seeds + 1 ELSE page[q][b].seed
    BY <1>2, <2>2 DEF Page
  <2>5. TypeOK' /\ LabelInv' /\ BornInv' /\ OnceInv'
    BY <1>0, <1>2, <2>1, <2>2, <2>3 DEF TypeOK, LabelInv, BornInv, OnceInv
  <2>6. PageInv'
    <3>1. \A u \in Live, b \in Addr : Has(u, b) => proc[u] \in Proc
      BY <1>0, LiveThread DEF Live
    <3>2. ASSUME NEW u \in Thread, NEW b PROVE Has(u, b)' <=> Has(u, b)
      BY <2>1 DEF Has
    <3>. QED BY <1>0, <2>1, <2>4, <3>1, <3>2 DEF PageInv, Live
  <2>7. SecretsOwned'
    <3>1. ASSUME NEW u \in Thread, NEW q \in Proc, NEW b \in Addr, Owns(u, q, b)
          PROVE  Owns(u, q, b)'
      BY <2>1, <3>1 DEF Owns
    <3>2. Owns(t, p, a)
      BY <1>0, DrawPage
    <3>. QED BY <1>0, <2>4, <3>1, <3>2 DEF SecretsOwned
  <2>8. SeedInv' /\ SeedUnshared'
    BY <1>0, <1>2, <2>2, <2>4 DEF SeedInv, SeedUnshared
  <2>. QED BY <2>5, <2>6, <2>7, <2>8 DEF IInv
<1>. QED BY <1>1, <1>2 DEF Refilled

LEMMA RegenStep ==
    ASSUME LibraryInv, NEW t \in Thread, Regen(t)
    PROVE  LibraryInv'
<1>1. PICK p \in Proc, a \in Addr :
         p = proc[t] /\ a = this_[t] /\ pc[t] = "draw" /\ Refilled(t, p, a)
    BY RegenEffect
<1>0. /\ IInv /\ TypeOK /\ LibraryTypeOK /\ LoopInv /\ ContentInv /\ DeliveredInv
      /\ UndeliveredInv /\ NoRepeat /\ seeds \in Nat
    BY DEF LibraryInv, IInv, TypeOK
<1>2. IInv'
    BY <1>1, RegenThreads
<1>3. /\ pc' = pc /\ proc' = proc /\ this_' = this_ /\ tss' = tss /\ addr' = addr
      /\ at' = at /\ n' = n /\ m' = m /\ log' = log /\ at[t] = "loop" /\ Live' = Live
    BY <1>1 DEF Refilled, threadVars, Live
<1>4. /\ \A q \in Proc, b \in Addr : q # p \/ b # a =>
             mem'[q][b] = mem[q][b] /\ page'[q][b] = page[q][b]
      /\ mem' \in [Proc -> [Addr -> Struct]]
      /\ mem'[p][a].keys # 0
    BY <1>1 DEF Refilled
<1>5. /\ Owns(t, p, a) /\ \A u \in Thread : Owns(u, p, a) => u = t
    BY <1>0, <1>1, DrawPage
<1>6. LibraryTypeOK'
    BY <1>0, <1>3, <1>4 DEF LibraryTypeOK
<1>7. ASSUME NEW u \in Thread, Reading(u)'
      PROVE  Reading(u) /\ Content(u)' = Content(u)
  <2>1. Reading(u) /\ u # t /\ pc[u] = "draw"
    BY <1>3, <1>7 DEF Reading, At
  <2>2. Owns(u, proc[u], this_[u]) /\ proc[u] \in Proc /\ this_[u] \in Addr
    BY <1>0, <2>1, DrawPage
  <2>3. proc[u] # p \/ this_[u] # a
    BY <1>5, <2>1, <2>2
  <2>. QED BY <1>3, <1>4, <2>1, <2>2, <2>3 DEF Content
<1>8. LoopInv'
    BY <1>0, <1>3, <1>7 DEF LoopInv
<1>9. ContentInv'
  <2>1. mem'[p][a].keys = page'[p][a].seed
    <3>1. CASE page' = page /\ mem'[p][a].keys = mem[p][a].keys
      BY <1>0, <3>1 DEF ContentInv
    <3>2. CASE /\ page' = [page EXCEPT ![p][a] = [page[p][a] EXCEPT !.seed = seeds + 1]]
               /\ mem'[p][a].keys = seeds + 1
      <4>1. page \in [Proc -> [Addr -> Page]] /\ page[p][a] \in Page
        BY <1>0 DEF TypeOK
      <4>. QED BY <3>2, <4>1 DEF Page
    <3>. QED BY <1>1, <3>1, <3>2 DEF Refilled
  <2>2. Shaped(mem[p][a])'
    <3>1. \A i \in Index : ~(i < 0)
      BY SizesAssumption DEF Index
    <3>2. Shaped(mem'[p][a])
      BY <1>1, <3>1 DEF Refilled, Shaped
    <3>. QED BY <3>2 DEF Shaped
  <2>3. ASSUME NEW q \in Proc, NEW b \in Addr
        PROVE  /\ mem'[q][b].keys = page'[q][b].seed
               /\ page'[q][b].seed = 0 => mem'[q][b] = ZeroPage
               /\ Shaped(mem[q][b])'
    <3>1. CASE q = p /\ b = a
      BY <1>4, <2>1, <2>2, <3>1
    <3>2. CASE q # p \/ b # a
      BY <1>0, <1>4, <3>2 DEF ContentInv, Shaped
    <3>. QED BY <3>1, <3>2
  <2>. QED BY <2>3 DEF ContentInv
<1>10. ASSUME NEW u \in Thread, NEW j \in DOMAIN log[u], log[u][j].seed = mem'[p][a].keys
       PROVE  /\ seeds' = seeds /\ mem[p][a].keys = mem'[p][a].keys
              /\ Owns(u, p, a) /\ log[u][j].ctr < mem[p][a].ctr
              /\ mem[p][a].ctr <= mem'[p][a].ctr
              /\ \A i \in Index : mem[p][a].ctr <= mem'[p][a].pool[i].ctr
  <2>1. log[u][j].seed \in 1 .. seeds
    BY <1>0 DEF DeliveredInv
  <2>2. mem'[p][a].keys # seeds + 1
    BY <1>0, <1>10, <2>1
  <2>. QED BY <1>0, <1>1, <1>10, <2>2 DEF Refilled, DeliveredInv
<1>11. /\ log \in [Thread -> Seq(Byte)]
       /\ mem \in [Proc -> [Addr -> Struct]]
    BY <1>0 DEF LibraryTypeOK
<1>12. DeliveredInv'
  <2>1. SUFFICES ASSUME NEW u \in Thread, NEW j \in DOMAIN log[u]
                 PROVE  /\ log[u][j].seed \in 1 .. seeds'
                        /\ \A q \in Proc, b \in Addr :
                              log[u][j].seed = mem'[q][b].keys =>
                                  Owns(u, q, b)' /\ log[u][j].ctr < mem'[q][b].ctr
    BY <1>3 DEF DeliveredInv
  <2>2. log[u][j].seed \in 1 .. seeds'
    <3>1. log[u][j].seed \in 1 .. seeds
      BY <1>0 DEF DeliveredInv
    <3>2. seeds' = seeds \/ seeds' = seeds + 1
      BY <1>1 DEF Refilled
    <3>. QED BY <1>0, <3>1, <3>2
  <2>3. ASSUME NEW q \in Proc, NEW b \in Addr, log[u][j].seed = mem'[q][b].keys
        PROVE  Owns(u, q, b)' /\ log[u][j].ctr < mem'[q][b].ctr
    <3>1. Owns(u, q, b)' <=> Owns(u, q, b)
      BY <1>3 DEF Owns
    <3>2. CASE q = p /\ b = a
      <4>1. /\ Owns(u, p, a) /\ log[u][j].ctr < mem[p][a].ctr
            /\ mem[p][a].ctr <= mem'[p][a].ctr
        BY <1>10, <2>3, <3>2
      <4>2. log[u][j].ctr \in Nat /\ mem[p][a].ctr \in Nat /\ mem'[p][a].ctr \in Nat
        BY <1>0, <1>4, <1>11, LogByte DEF Struct
      <4>. QED BY <3>1, <3>2, <4>1, <4>2
    <3>3. CASE q # p \/ b # a
      BY <1>0, <1>4, <2>3, <3>1, <3>3 DEF DeliveredInv
    <3>. QED BY <3>2, <3>3
  <2>. QED BY <2>2, <2>3
<1>13. UndeliveredInv'
  <2>1. SUFFICES ASSUME NEW u \in Thread, NEW q \in Proc, NEW b \in Addr, NEW i \in Index,
                        i >= Src(mem'[q][b]) + Taken(u, q, b)'
                 PROVE  mem'[q][b].pool[i] \notin Received(u)
    BY <1>3 DEF UndeliveredInv, Received, Src
  <2>2. CASE q = p /\ b = a
    <3>1. SUFFICES ASSUME NEW j \in DOMAIN log[u], log[u][j] = mem'[p][a].pool[i] PROVE FALSE
      BY <2>2 DEF Received
    <3>2. log[u][j].seed = mem'[p][a].keys
      BY <1>1, <3>1 DEF Refilled
    <3>3. log[u][j].ctr < mem[p][a].ctr /\ mem[p][a].ctr <= mem'[p][a].pool[i].ctr
      BY <1>10, <3>2
    <3>4. log[u][j].ctr \in Nat /\ mem[p][a].ctr \in Nat
      BY <1>0, <1>11, <3>1, LogByte DEF Struct
    <3>. QED BY <3>1, <3>3, <3>4
  <2>3. CASE q # p \/ b # a
    <3>1. Taken(u, q, b)' = Taken(u, q, b)
      BY <1>3 DEF Taken, Reading, At
    <3>. QED BY <1>0, <1>4, <2>1, <2>3, <3>1 DEF UndeliveredInv
  <2>. QED BY <2>2, <2>3
<1>14. NoRepeat'
    BY <1>0, <1>3 DEF NoRepeat
<1>. QED BY <1>2, <1>6, <1>8, <1>9, <1>12, <1>13, <1>14 DEF LibraryInv

\* The thread that copies, its page, and how much it takes.
Copies(t, p, a, k) ==
    /\ p = proc[t] /\ a = this_[t] /\ pc[t] = "draw"
    /\ Content(t) = mem[p][a] /\ mem[p][a] \in Struct /\ n[t] \in Nat /\ n[t] > 0
    /\ mem[p][a].rand_bytes_remaining > 0
    /\ k = Chunk(mem[p][a], n[t]) /\ k \in 1 .. mem[p][a].rand_bytes_remaining
    /\ k \in 0 .. PoolSize /\ k <= n[t]
    /\ Owns(t, p, a) /\ \A u \in Thread : Owns(u, p, a) => u = t
    /\ page[p][a].seed # 0

LEMMA CopiesFrom ==
    ASSUME LibraryInv, NEW t \in Thread, pc[t] = "draw", n[t] > 0,
           Content(t).rand_bytes_remaining > 0
    PROVE  \E p \in Proc, a \in Addr, k \in Nat : Copies(t, p, a, k)
<1>0. IInv /\ LibraryTypeOK
    BY DEF LibraryInv
<1>1. PICK p \in Proc, a \in Addr :
         /\ p = proc[t] /\ a = this_[t] /\ Owns(t, p, a)
         /\ \A u \in Thread : Owns(u, p, a) => u = t
    BY <1>0, DrawPage
<1>2. /\ Content(t) = mem[p][a] /\ mem[p][a] \in Struct /\ n[t] \in Nat
      /\ page[p][a].seed # 0
    BY <1>0, <1>1, ReadPage DEF Content, LibraryTypeOK
<1>. DEFINE k == Chunk(mem[p][a], n[t])
<1>3. /\ k \in 0 .. PoolSize /\ k \in 0 .. mem[p][a].rand_bytes_remaining
      /\ k <= n[t] /\ k > 0
    BY <1>2, ChunkType
<1>4. k \in Nat /\ k \in 1 .. mem[p][a].rand_bytes_remaining
    BY <1>3
<1>5. Copies(t, p, a, k)
    BY <1>1, <1>2, <1>3, <1>4 DEF Copies
<1>. QED BY <1>4, <1>5

\* A byte of a pool that is still to be delivered names the keys of the pool, and
\* is in no other place of memory.
LEMMA PoolByte ==
    ASSUME LibraryInv, NEW p \in Proc, NEW a \in Addr, NEW i \in Index, i >= Src(mem[p][a])
    PROVE  /\ mem[p][a].pool[i] = KeyByte(mem[p][a], i)
           /\ mem[p][a].pool[i].seed = mem[p][a].keys
           /\ mem[p][a].pool[i].ctr < mem[p][a].ctr
           /\ mem[p][a].keys = page[p][a].seed
           /\ mem[p][a].keys \in 1 .. seeds
           /\ mem[p][a].rand_bytes_remaining > 0
           /\ mem[p][a].pool[i] # Zero
           /\ \A j \in Index : /\ j >= Src(mem[p][a])
                              /\ mem[p][a].pool[j] = mem[p][a].pool[i]
                             => j = i
<1>. DEFINE s == mem[p][a]
<1>0. IInv /\ TypeOK /\ SeedInv /\ LibraryTypeOK /\ ContentInv /\ seeds \in Nat
    BY DEF LibraryInv, IInv, TypeOK
<1>1. s \in Struct /\ s.rand_bytes_remaining \in 0 .. PoolSize /\ i \in Nat /\ i < PoolSize
    BY <1>0, SizesAssumption DEF LibraryTypeOK, Struct, Index
<1>2. s.rand_bytes_remaining > 0
    BY <1>1, SizesAssumption DEF Src
<1>3. s.keys = page[p][a].seed /\ Shaped(s) /\ page[p][a].seed # 0
    BY <1>0, <1>2 DEF ContentInv, ZeroPage
<1>4. s.keys \in 1 .. seeds
    BY <1>0, <1>1, <1>3 DEF SeedInv, Struct
<1>5. s.pool[i] = KeyByte(s, i)
  <2>1. ~(i < Src(s))
    BY <1>1, SizesAssumption DEF Src
  <2>. QED BY <1>3, <2>1 DEF Shaped
<1>. QED BY <1>1, <1>3, <1>4, <1>5, ShapedByte

\* What a thread copies was delivered to nobody.
LEMMA CopyFresh ==
    ASSUME LibraryInv, NEW t \in Thread, NEW p \in Proc, NEW a \in Addr, NEW k,
           Copies(t, p, a, k), at[t] = "loop",
           NEW i \in Index, i >= Src(mem[p][a]), NEW u \in Thread
    PROVE  mem[p][a].pool[i] \notin Received(u)
<1>1. Taken(u, p, a) = 0
  <2>1. SUFFICES ASSUME Reading(u), proc[u] = p, this_[u] = a PROVE FALSE
    BY DEF Taken
  <2>2. Owns(u, p, a)
    BY <2>1, DrawPage DEF LibraryInv, Reading, At
  <2>3. u = t
    BY <2>2 DEF Copies
  <2>. QED BY <2>1, <2>3 DEF Reading
<1>2. Src(mem[p][a]) \in Nat
    BY SizesAssumption DEF Copies, Src, Struct
<1>3. i >= Src(mem[p][a]) + Taken(u, p, a)
    BY <1>1, <1>2
<1>. QED BY <1>3 DEF LibraryInv, UndeliveredInv

\* The j-th byte that t has after it copied is one it had, or the i-th of the pool.
OldByte(t, j) == j \in DOMAIN log[t] /\ log'[t][j] = log[t][j]
NewByte(t, p, a, k, j, i) ==
    /\ Src(mem[p][a]) <= i
    /\ i < Src(mem[p][a]) + k
    /\ j = Len(log[t]) + 1 + (i - Src(mem[p][a]))
    /\ log'[t][j] = mem[p][a].pool[i]

LEMMA CopyLog ==
    ASSUME LibraryInv, NEW t \in Thread, NEW p \in Proc, NEW a \in Addr, NEW k \in Nat,
           Copies(t, p, a, k), Copy(t)
    PROVE  /\ UNCHANGED <<vars, mem, n>>
           /\ at[t] = "loop" /\ at' = [at EXCEPT ![t] = "advance"]
           /\ m' = [m EXCEPT ![t] = k]
           /\ log' = [log EXCEPT ![t] = log[t] \o Copied(mem[p][a], k)]
           /\ log' \in [Thread -> Seq(Byte)]
           /\ \A u \in Thread \ {t} : log'[u] = log[u]
           /\ \A j \in DOMAIN log'[t] :
                 OldByte(t, j) \/ \E i \in Index : NewByte(t, p, a, k, j, i)
<1>. DEFINE s == mem[p][a]
<1>0. s \in Struct /\ log \in [Thread -> Seq(Byte)] /\ log[t] \in Seq(Byte)
      /\ k \in 1 .. s.rand_bytes_remaining
    BY DEF LibraryInv, LibraryTypeOK, Copies
<1>1. /\ UNCHANGED <<vars, mem, n>> /\ at[t] = "loop" /\ at' = [at EXCEPT ![t] = "advance"]
      /\ m' = [m EXCEPT ![t] = k] /\ log' = [log EXCEPT ![t] = log[t] \o Copied(s, k)]
    BY DEF Copy, Loops, Copies
<1>. HIDE DEF s
<1>2. /\ log[t] \o Copied(s, k) \in Seq(Byte)
      /\ Len(log[t] \o Copied(s, k)) = Len(log[t]) + k
    BY <1>0, AppendedBytes
<1>3. log'[t] = log[t] \o Copied(s, k) /\ \A u \in Thread \ {t} : log'[u] = log[u]
    BY <1>0, <1>1
<1>4. log' \in [Thread -> Seq(Byte)]
    BY <1>0, <1>1, <1>2
<1>5. ASSUME NEW j \in 1 .. Len(log[t]) PROVE OldByte(t, j)
  <2>1. (log[t] \o Copied(s, k))[j] = log[t][j]
    BY <1>0, KeptByte
  <2>. QED BY <1>0, <1>3, <2>1 DEF OldByte
<1>6. ASSUME NEW j \in Len(log[t]) + 1 .. Len(log[t]) + k
      PROVE  \E i \in Index : NewByte(t, p, a, k, j, i)
  <2>. DEFINE i == Origin(s, log[t], j)
  <2>1. /\ i \in Index /\ Src(s) <= i /\ i < Src(s) + k
        /\ j = Len(log[t]) + 1 + (i - Src(s))
        /\ (log[t] \o Copied(s, k))[j] = s.pool[i]
    BY <1>0, AppendedByte
  <2>2. NewByte(t, p, a, k, j, i)
    BY <1>3, <2>1 DEF NewByte, s
  <2>. QED BY <2>1, <2>2
<1>7. ASSUME NEW j \in DOMAIN log'[t]
      PROVE  j \in 1 .. Len(log[t]) \/ j \in Len(log[t]) + 1 .. Len(log[t]) + k
  <2>1. DOMAIN log'[t] = 1 .. Len(log[t]) + k
    BY <1>2, <1>3
  <2>2. k \in Nat /\ Len(log[t]) \in Nat
    BY <1>0
  <2>. QED BY <2>1, <2>2
<1>8. \A j \in DOMAIN log'[t] :
         OldByte(t, j) \/ \E i \in Index : NewByte(t, p, a, k, j, i)
    BY <1>5, <1>6, <1>7, Zenon
<1>. QED BY <1>1, <1>3, <1>4, <1>8 DEF s

LEMMA CopyNoRepeat ==
    ASSUME LibraryInv, NEW t \in Thread, NEW p \in Proc, NEW a \in Addr, NEW k \in Nat,
           Copies(t, p, a, k), Copy(t)
    PROVE  NoRepeat'
<1>0. NoRepeat /\ log \in [Thread -> Seq(Byte)] /\ Src(mem[p][a]) \in Nat
  <2>1. NoRepeat /\ log \in [Thread -> Seq(Byte)] /\ mem \in [Proc -> [Addr -> Struct]]
    BY DEF LibraryInv, LibraryTypeOK
  <2>2. mem[p][a].rand_bytes_remaining \in 0 .. PoolSize
    BY <2>1 DEF Struct
  <2>. QED BY <2>1, <2>2, SizesAssumption DEF Src
<1>1. /\ at[t] = "loop" /\ \A u \in Thread \ {t} : log'[u] = log[u]
      /\ \A j \in DOMAIN log'[t] :
            OldByte(t, j) \/ \E i \in Index : NewByte(t, p, a, k, j, i)
    BY CopyLog
<1>2. ASSUME NEW j \in DOMAIN log'[t], NEW i \in Index, NewByte(t, p, a, k, j, i),
             NEW u \in Thread, NEW h \in DOMAIN log[u]
      PROVE  log[u][h] # log'[t][j]
  <2>1. i >= Src(mem[p][a]) /\ log'[t][j] = mem[p][a].pool[i]
    BY <1>0, <1>2 DEF NewByte, Index
  <2>2. mem[p][a].pool[i] \notin Received(u)
    BY <1>1, <2>1, CopyFresh
  <2>. QED BY <1>2, <2>1, <2>2 DEF Received
<1>3. ASSUME NEW j \in DOMAIN log'[t], NEW u \in Thread \ {t}, NEW h \in DOMAIN log'[u]
      PROVE  log'[t][j] # log'[u][h]
  <2>1. CASE OldByte(t, j)
    BY <1>0, <1>1, <1>3, <2>1 DEF NoRepeat, OldByte
  <2>2. CASE \E i \in Index : NewByte(t, p, a, k, j, i)
    BY <1>1, <1>2, <1>3, <2>2
  <2>. QED BY <1>1, <2>1, <2>2
<1>4. ASSUME NEW j \in DOMAIN log'[t], NEW h \in DOMAIN log'[t], log'[t][j] = log'[t][h]
      PROVE  j = h
  <2>1. ASSUME OldByte(t, j), OldByte(t, h) PROVE j = h
    <3>1. log[t][j] = log[t][h] /\ j \in DOMAIN log[t] /\ h \in DOMAIN log[t]
      BY <1>4, <2>1 DEF OldByte
    <3>. QED BY <1>0, <3>1 DEF NoRepeat
  <2>2. ASSUME NEW i \in Index, NewByte(t, p, a, k, j, i), OldByte(t, h) PROVE FALSE
    <3>1. h \in DOMAIN log[t] /\ log'[t][h] = log[t][h]
      BY <2>2 DEF OldByte
    <3>. QED BY <1>2, <1>4, <2>2, <3>1
  <2>3. ASSUME NEW i \in Index, NewByte(t, p, a, k, h, i), OldByte(t, j) PROVE FALSE
    <3>1. j \in DOMAIN log[t] /\ log'[t][j] = log[t][j]
      BY <2>3 DEF OldByte
    <3>. QED BY <1>2, <1>4, <2>3, <3>1
  <2>4. ASSUME NEW i \in Index, NewByte(t, p, a, k, j, i),
               NEW g \in Index, NewByte(t, p, a, k, h, g)
        PROVE  j = h
    <3>1. /\ i >= Src(mem[p][a]) /\ g >= Src(mem[p][a])
          /\ mem[p][a].pool[i] = mem[p][a].pool[g]
      BY <1>0, <1>4, <2>4 DEF NewByte, Index
    <3>2. g = i
      BY <3>1, PoolByte
    <3>. QED BY <2>4, <3>2 DEF NewByte
  <2>. QED BY <1>1, <2>1, <2>2, <2>3, <2>4
<1>5. SUFFICES ASSUME NEW u \in Thread, NEW v \in Thread,
                      NEW j \in DOMAIN log'[u], NEW h \in DOMAIN log'[v],
                      log'[u][j] = log'[v][h]
               PROVE  u = v /\ j = h
    BY DEF NoRepeat
<1>6. CASE u # t /\ v # t
    BY <1>0, <1>1, <1>5, <1>6 DEF NoRepeat
<1>7. CASE u = t \/ v = t
    BY <1>3, <1>4, <1>5, <1>7
<1>. QED BY <1>6, <1>7

LEMMA CopyStep ==
    ASSUME LibraryInv, NEW t \in Thread, Copy(t)
    PROVE  LibraryInv'
<1>0. /\ IInv /\ TypeOK /\ SeedUnshared /\ LibraryTypeOK /\ LoopInv /\ ContentInv
      /\ DeliveredInv /\ UndeliveredInv
    BY DEF LibraryInv, IInv
<1>1. PICK p \in Proc, a \in Addr, k \in Nat : Copies(t, p, a, k)
    BY CopiesFrom DEF Copy, Loops, At
<1>2. /\ UNCHANGED <<vars, mem, n>>
      /\ at[t] = "loop" /\ at' = [at EXCEPT ![t] = "advance"]
      /\ m' = [m EXCEPT ![t] = k]
      /\ log' = [log EXCEPT ![t] = log[t] \o Copied(mem[p][a], k)]
      /\ log' \in [Thread -> Seq(Byte)]
      /\ \A u \in Thread \ {t} : log'[u] = log[u]
      /\ \A j \in DOMAIN log'[t] :
            OldByte(t, j) \/ \E i \in Index : NewByte(t, p, a, k, j, i)
    BY <1>1, CopyLog
<1>3. /\ pc' = pc /\ proc' = proc /\ this_' = this_ /\ tss' = tss /\ addr' = addr
      /\ seeds' = seeds /\ page' = page /\ mem' = mem /\ n' = n /\ Live' = Live
    BY <1>2 DEF vars, Live
<1>4. /\ p = proc[t] /\ a = this_[t] /\ pc[t] = "draw" /\ Content(t) = mem[p][a]
      /\ mem[p][a] \in Struct /\ n[t] > 0 /\ mem[p][a].rand_bytes_remaining > 0
      /\ k = Chunk(mem[p][a], n[t]) /\ k \in 0 .. PoolSize /\ Owns(t, p, a)
      /\ page[p][a].seed # 0 /\ Src(mem[p][a]) \in Nat
      /\ \A u \in Thread : Owns(u, p, a) => u = t
    BY <1>1, SizesAssumption DEF Copies, Struct, Src
<1>5. IInv'
    BY <1>0, <1>2, ThreadsStep
<1>6. LibraryTypeOK'
    BY <1>0, <1>2, <1>3, <1>4 DEF LibraryTypeOK
<1>7. at'[t] = "advance" /\ m'[t] = k
      /\ \A u \in Thread \ {t} : at'[u] = at[u] /\ m'[u] = m[u]
    BY <1>0, <1>2 DEF LibraryTypeOK
<1>8. ASSUME NEW u \in Thread PROVE Content(u)' = Content(u)
    BY <1>3 DEF Content
<1>9. LoopInv'
  <2>1. ASSUME NEW u \in Thread, Reading(u)'
        PROVE  /\ n'[u] > 0 /\ Content(u)'.rand_bytes_remaining > 0
               /\ m'[u] = Chunk(Content(u)', n'[u])
    <3>1. CASE u = t
      BY <1>3, <1>4, <1>7, <1>8, <3>1
    <3>2. CASE u # t
      BY <1>0, <1>3, <1>7, <1>8, <2>1, <3>2 DEF LoopInv, Reading, At
    <3>. QED BY <3>1, <3>2
  <2>2. ASSUME NEW u \in Thread
        PROVE  /\ pc'[u] \in {"unborn", "idle"} => n'[u] = 0
               /\ at'[u] = "advance" => pc'[u] \in {"draw", "dead"}
    BY <1>0, <1>3, <1>4, <1>7 DEF LoopInv
  <2>. QED BY <2>1, <2>2 DEF LoopInv
<1>10. ContentInv'
    BY <1>0, <1>3 DEF ContentInv, Shaped
<1>11. ASSUME NEW j \in DOMAIN log'[t], NEW i \in Index, NewByte(t, p, a, k, j, i)
       PROVE  /\ i >= Src(mem[p][a]) /\ i < Src(mem[p][a]) + k
              /\ log'[t][j] = mem[p][a].pool[i]
              /\ log'[t][j].seed \in 1 .. seeds
              /\ log'[t][j].seed = mem[p][a].keys
              /\ log'[t][j].ctr < mem[p][a].ctr
  <2>1. i >= Src(mem[p][a]) /\ i < Src(mem[p][a]) + k /\ log'[t][j] = mem[p][a].pool[i]
    BY <1>4, <1>11 DEF NewByte, Index
  <2>. QED BY <2>1, PoolByte
<1>12. ASSUME NEW q \in Proc, NEW b \in Addr, mem[q][b].keys = mem[p][a].keys
       PROVE  q = p /\ b = a
    BY <1>0, <1>4, <1>12 DEF ContentInv, SeedUnshared
<1>13. DeliveredInv'
  <2>1. SUFFICES ASSUME NEW u \in Thread, NEW j \in DOMAIN log'[u]
                 PROVE  /\ log'[u][j].seed \in 1 .. seeds
                        /\ \A q \in Proc, b \in Addr :
                              log'[u][j].seed = mem[q][b].keys =>
                                  Owns(u, q, b) /\ log'[u][j].ctr < mem[q][b].ctr
    BY <1>3 DEF DeliveredInv, Owns
  <2>2. CASE u # t
    BY <1>0, <1>2, <2>1, <2>2 DEF DeliveredInv
  <2>3. CASE u = t /\ OldByte(t, j)
    BY <1>0, <2>1, <2>3 DEF DeliveredInv, OldByte
  <2>4. ASSUME u = t, NEW i \in Index, NewByte(t, p, a, k, j, i)
        PROVE  /\ log'[u][j].seed \in 1 .. seeds
               /\ \A q \in Proc, b \in Addr :
                     log'[u][j].seed = mem[q][b].keys =>
                         Owns(u, q, b) /\ log'[u][j].ctr < mem[q][b].ctr
    <3>1. /\ log'[t][j].seed \in 1 .. seeds
          /\ log'[t][j].seed = mem[p][a].keys /\ log'[t][j].ctr < mem[p][a].ctr
      BY <1>11, <2>1, <2>4
    <3>. QED BY <1>4, <1>12, <2>4, <3>1
  <2>. QED BY <1>2, <2>1, <2>2, <2>3, <2>4
<1>14. UndeliveredInv'
  <2>1. SUFFICES ASSUME NEW u \in Thread, NEW q \in Proc, NEW b \in Addr, NEW i \in Index,
                        i >= Src(mem[q][b]) + Taken(u, q, b)'
                 PROVE  \A j \in DOMAIN log'[u] : log'[u][j] # mem[q][b].pool[i]
    BY <1>3 DEF UndeliveredInv, Received, Src
  <2>2. CASE u # t
    <3>1. Taken(u, q, b)' = Taken(u, q, b)
      BY <1>3, <1>7, <2>2 DEF Taken, Reading, At
    <3>2. mem[q][b].pool[i] \notin Received(u)
      BY <1>0, <2>1, <3>1 DEF UndeliveredInv
    <3>. QED BY <1>2, <2>2, <3>2 DEF Received
  <2>3. CASE u = t
    <3>1. Src(mem[q][b]) \in Nat
      <4>1. mem[q][b] \in Struct
        BY <1>0 DEF LibraryTypeOK
      <4>. QED BY <4>1, SizesAssumption DEF Struct, Src
    <3>2. Taken(t, q, b) = 0 /\ Taken(t, q, b)' = IF q = p /\ b = a THEN k ELSE 0
      BY <1>2, <1>3, <1>4, <1>7 DEF Taken, Reading, At
    <3>3. i >= Src(mem[q][b]) /\ (q = p /\ b = a => i >= Src(mem[p][a]) + k)
      BY <2>1, <2>3, <3>1, <3>2 DEF Index
    <3>4. mem[q][b].pool[i] \notin Received(t)
      BY <1>0, <3>1, <3>2, <3>3 DEF UndeliveredInv
    <3>5. ASSUME NEW j \in DOMAIN log'[t], OldByte(t, j)
          PROVE  log'[t][j] # mem[q][b].pool[i]
      BY <3>4, <3>5 DEF OldByte, Received
    <3>6. ASSUME NEW j \in DOMAIN log'[t], NEW g \in Index, NewByte(t, p, a, k, j, g),
                 log'[t][j] = mem[q][b].pool[i]
          PROVE  FALSE
      <4>1. /\ g >= Src(mem[p][a]) /\ g < Src(mem[p][a]) + k
            /\ mem[p][a].pool[g] = mem[q][b].pool[i]
            /\ mem[q][b].pool[i].seed = mem[p][a].keys
        BY <1>11, <3>6
      <4>2. mem[q][b].pool[i].seed = mem[q][b].keys
        BY <3>3, PoolByte
      <4>3. q = p /\ b = a
        BY <1>12, <4>1, <4>2
      <4>4. i = g
        BY <3>3, <4>1, <4>3, PoolByte
      <4>. QED BY <1>4, <3>3, <4>1, <4>3, <4>4 DEF Index
    <3>. QED BY <1>2, <2>3, <3>5, <3>6
  <2>. QED BY <2>2, <2>3
<1>15. NoRepeat'
    BY <1>1, CopyNoRepeat
<1>. QED BY <1>5, <1>6, <1>9, <1>10, <1>13, <1>14, <1>15 DEF LibraryInv

LEMMA AdvanceStep ==
    ASSUME LibraryInv, NEW t \in Thread, Advance(t)
    PROVE  LibraryInv'
<1>. DEFINE new(p, a, k) == Advanced(Wiped(mem[p][a], k), k)
<1>0. /\ IInv /\ TypeOK /\ LibraryTypeOK /\ LoopInv /\ ContentInv
      /\ DeliveredInv /\ UndeliveredInv /\ NoRepeat
    BY DEF LibraryInv, IInv
<1>1. pc[t] = "draw" /\ at[t] = "advance" /\ Reading(t)
    BY DEF Advance, Loops, At, Reading
<1>2. n[t] > 0 /\ Content(t).rand_bytes_remaining > 0 /\ m[t] = Chunk(Content(t), n[t])
    BY <1>0, <1>1 DEF LoopInv
<1>3. PICK p \in Proc, a \in Addr, k \in Nat : Copies(t, p, a, k)
    BY <1>1, <1>2, CopiesFrom
<1>4. /\ p = proc[t] /\ a = this_[t] /\ Content(t) = mem[p][a] /\ mem[p][a] \in Struct
      /\ m[t] = k /\ k \in 0 .. mem[p][a].rand_bytes_remaining /\ k <= n[t] /\ n[t] \in Nat
      /\ page[p][a].seed # 0 /\ Src(mem[p][a]) \in Nat
      /\ Owns(t, p, a) /\ \A u \in Thread : Owns(u, p, a) => u = t
    BY <1>2, <1>3, SizesAssumption DEF Copies, Struct, Src
<1>5. /\ UNCHANGED <<vars, m, log>> /\ at' = [at EXCEPT ![t] = "loop"]
      /\ n' = [n EXCEPT ![t] = n[t] - k]
      /\ mem' = [mem EXCEPT ![p][a] = new(p, a, k)]
    BY <1>4 DEF Advance, Loops, SetContent
<1>6. /\ new(p, a, k) \in Struct /\ new(p, a, k).keys = mem[p][a].keys
      /\ new(p, a, k).ctr = mem[p][a].ctr
      /\ Src(new(p, a, k)) = Src(mem[p][a]) + k /\ Shaped(new(p, a, k))
      /\ \A i \in Index : i >= Src(mem[p][a]) + k =>
            new(p, a, k).pool[i] = mem[p][a].pool[i]
    BY <1>0, <1>4, AdvancedShape DEF ContentInv
<1>. HIDE DEF new
<1>7. /\ pc' = pc /\ proc' = proc /\ this_' = this_ /\ tss' = tss /\ addr' = addr
      /\ seeds' = seeds /\ page' = page /\ m' = m /\ log' = log /\ Live' = Live
    BY <1>5 DEF vars, Live
<1>8. /\ mem \in [Proc -> [Addr -> Struct]] /\ at \in [Thread -> {"loop", "advance"}]
      /\ n \in [Thread -> Nat]
    BY <1>0 DEF LibraryTypeOK
<1>9. /\ mem'[p][a] = new(p, a, k) /\ mem' \in [Proc -> [Addr -> Struct]]
      /\ \A q \in Proc, b \in Addr : q # p \/ b # a => mem'[q][b] = mem[q][b]
    BY <1>5, <1>6, <1>8
<1>10. /\ at'[t] = "loop" /\ n'[t] = n[t] - k /\ n[t] - k \in Nat
       /\ \A u \in Thread \ {t} : at'[u] = at[u] /\ n'[u] = n[u]
    BY <1>4, <1>5, <1>8
<1>11. IInv'
    BY <1>0, <1>5, ThreadsStep
<1>12. LibraryTypeOK'
  <2>1. n' \in [Thread -> Nat] /\ at' \in [Thread -> {"loop", "advance"}]
    BY <1>5, <1>8, <1>10
  <2>. QED BY <1>0, <1>7, <1>9, <2>1 DEF LibraryTypeOK
<1>13. ASSUME NEW u \in Thread, Reading(u)'
       PROVE  Reading(u) /\ u # t /\ Content(u)' = Content(u)
  <2>1. u # t /\ Reading(u) /\ pc[u] = "draw"
    BY <1>7, <1>10, <1>13 DEF Reading, At
  <2>2. Owns(u, proc[u], this_[u]) /\ proc[u] \in Proc /\ this_[u] \in Addr
    BY <1>0, <2>1, DrawPage
  <2>3. proc[u] # p \/ this_[u] # a
    BY <1>4, <2>1, <2>2
  <2>. QED BY <1>7, <1>9, <2>1, <2>2, <2>3 DEF Content
<1>14. LoopInv'
  <2>1. ASSUME NEW u \in Thread, Reading(u)'
        PROVE  /\ n'[u] > 0 /\ Content(u)'.rand_bytes_remaining > 0
               /\ m'[u] = Chunk(Content(u)', n'[u])
    BY <1>0, <1>7, <1>10, <1>13, <2>1 DEF LoopInv
  <2>2. ASSUME NEW u \in Thread
        PROVE  /\ pc'[u] \in {"unborn", "idle"} => n'[u] = 0
               /\ at'[u] = "advance" => pc'[u] \in {"draw", "dead"}
    BY <1>0, <1>1, <1>7, <1>10 DEF LoopInv
  <2>. QED BY <2>1, <2>2 DEF LoopInv
<1>15. ContentInv'
  <2>1. SUFFICES ASSUME NEW q \in Proc, NEW b \in Addr
                 PROVE  /\ mem'[q][b].keys = page[q][b].seed
                        /\ page[q][b].seed = 0 => mem'[q][b] = ZeroPage
                        /\ Shaped(mem'[q][b])
    BY <1>7 DEF ContentInv, Shaped
  <2>2. CASE q = p /\ b = a
    BY <1>0, <1>4, <1>6, <1>9, <2>2 DEF ContentInv
  <2>3. CASE q # p \/ b # a
    BY <1>0, <1>9, <2>3 DEF ContentInv
  <2>. QED BY <2>2, <2>3
<1>16. \A q \in Proc, b \in Addr :
          mem'[q][b].keys = mem[q][b].keys /\ mem'[q][b].ctr = mem[q][b].ctr
    BY <1>6, <1>9
<1>17. DeliveredInv'
    BY <1>0, <1>7, <1>16 DEF DeliveredInv, Owns
<1>18. UndeliveredInv'
  <2>1. SUFFICES ASSUME NEW u \in Thread, NEW q \in Proc, NEW b \in Addr, NEW i \in Index,
                        i >= Src(mem'[q][b]) + Taken(u, q, b)'
                 PROVE  mem'[q][b].pool[i] \notin Received(u)
    BY <1>7 DEF UndeliveredInv, Received, Src
  <2>2. CASE q = p /\ b = a
    <3>1. Taken(u, p, a)' = 0
      <4>1. SUFFICES ASSUME Reading(u)', proc[u] = p, this_[u] = a PROVE FALSE
        BY <1>7 DEF Taken
      <4>2. u # t /\ Reading(u)
        BY <1>13, <4>1
      <4>3. Owns(u, p, a)
        BY <1>0, <4>1, <4>2, DrawPage DEF Reading, At
      <4>. QED BY <1>4, <4>2, <4>3
    <3>2. i \in Nat /\ i >= Src(mem[p][a]) + k
      BY <1>4, <1>6, <1>9, <2>1, <2>2, <3>1, IndexType
    <3>3. Taken(u, p, a) \in {0, k}
      <4>1. CASE u = t
        BY <1>4, <4>1 DEF Taken
      <4>2. CASE u # t
        <5>1. SUFFICES ASSUME Reading(u), proc[u] = p, this_[u] = a PROVE FALSE
          BY DEF Taken
        <5>2. Owns(u, p, a)
          BY <1>0, <5>1, DrawPage DEF Reading, At
        <5>. QED BY <1>4, <4>2, <5>2
      <4>. QED BY <4>1, <4>2
    <3>4. i >= Src(mem[p][a]) + Taken(u, p, a)
      BY <1>4, <3>2, <3>3
    <3>5. mem[p][a].pool[i] \notin Received(u)
      BY <1>0, <3>4 DEF UndeliveredInv
    <3>. QED BY <1>6, <1>9, <2>2, <3>2, <3>5
  <2>3. CASE q # p \/ b # a
    <3>1. Taken(u, q, b)' = Taken(u, q, b)
      BY <1>4, <1>7, <1>10, <2>3 DEF Taken, Reading, At
    <3>. QED BY <1>0, <1>9, <2>1, <2>3, <3>1 DEF UndeliveredInv
  <2>. QED BY <2>2, <2>3
<1>19. NoRepeat'
    BY <1>0, <1>7 DEF NoRepeat
<1>. QED BY <1>11, <1>12, <1>14, <1>15, <1>17, <1>18, <1>19 DEF LibraryInv

-----------------------------------------------------------------------------
(* The theorems.                                                           *)

LEMMA LibraryInitInv == LibraryInit => LibraryInv
<1>. SUFFICES ASSUME LibraryInit PROVE LibraryInv
    OBVIOUS
<1>. USE DEF LibraryInit
<1>1. IInv
    BY IInvInit
<1>2. LibraryTypeOK
  <2>1. 0 \in 0 .. PoolSize /\ <<>> \in Seq(Byte)
    BY SizesAssumption
  <2>. QED BY <2>1, ZeroPageType DEF LibraryTypeOK
<1>3. LoopInv
    BY DEF LoopInv, Reading
<1>4. \A p \in Proc, a \in Addr : mem[p][a] = ZeroPage /\ page[p][a].seed = 0
    BY DEF Init, Unmapped
<1>5. ContentInv
    BY <1>4, ZeroPageShaped DEF ContentInv, ZeroPage
<1>6. \A t \in Thread : DOMAIN log[t] = {}
    OBVIOUS
<1>7. DeliveredInv /\ UndeliveredInv /\ NoRepeat
    BY <1>6 DEF DeliveredInv, UndeliveredInv, NoRepeat, Received
<1>. QED BY <1>1, <1>2, <1>3, <1>5, <1>7 DEF LibraryInv

LEMMA LibraryStep == LibraryInv /\ [LibraryNext]_libraryVars => LibraryInv'
<1>. SUFFICES ASSUME LibraryInv, [LibraryNext]_libraryVars PROVE LibraryInv'
    OBVIOUS
<1>1. ASSUME NEW t \in Thread, NEW k \in RequestSize, Request(t, k) PROVE LibraryInv'
    BY <1>1, RequestCalm, CalmStep
<1>2. ASSUME NEW t \in Thread, Around(t) PROVE LibraryInv'
    BY <1>2, AroundCalm, CalmStep
<1>3. ASSUME NEW t \in Thread, Regen(t) PROVE LibraryInv'
    BY <1>3, RegenStep
<1>4. ASSUME NEW t \in Thread, Copy(t) PROVE LibraryInv'
    BY <1>4, CopyStep
<1>5. ASSUME NEW t \in Thread, Advance(t) PROVE LibraryInv'
    BY <1>5, AdvanceStep
<1>6. ASSUME NEW t \in Thread, Return(t) PROVE LibraryInv'
    BY <1>6, ReturnCalm, CalmStep
<1>7. CASE UNCHANGED libraryVars
    BY <1>7, StutterCalm, CalmStep
<1>. QED BY <1>1, <1>2, <1>3, <1>4, <1>5, <1>6, <1>7 DEF LibraryNext, Around

\* The threads, their pages and what is in them keep the inductive invariant of
\* the library, in particular no byte is delivered twice.
THEOREM LibraryInvariance == LibrarySpec => []LibraryInv
    BY LibraryInitInv, LibraryStep, PTL DEF LibrarySpec

\* No secret is in memory twice, nor in memory and in a buffer a caller received.
THEOREM SecretsAreApart == LibrarySpec => []MemoryApart
<1>1. ASSUME LibraryInv PROVE MemoryApart
  <2>0. IInv /\ SeedUnshared /\ LibraryTypeOK /\ ContentInv /\ UndeliveredInv
    BY <1>1 DEF LibraryInv, IInv
  <2>1. SUFFICES ASSUME NEW p \in Proc, NEW a \in Addr
                 PROVE  /\ \A q \in Proc, b \in Addr : <<p, a>> # <<q, b>> =>
                             /\ mem[p][a].keys # 0 => mem[p][a].keys # mem[q][b].keys
                             /\ Bytes(mem[p][a]) \cap Bytes(mem[q][b]) = {}
                        /\ \A t \in Thread :
                             ~(at[t] = "advance" /\ proc[t] = p /\ this_[t] = a) =>
                                 Bytes(mem[p][a]) \cap Received(t) = {}
    BY DEF MemoryApart
  <2>2. ASSUME NEW q \in Proc, NEW b \in Addr,
               mem[p][a].keys # 0, mem[p][a].keys = mem[q][b].keys
        PROVE  p = q /\ a = b
    BY <2>0, <2>2 DEF ContentInv, SeedUnshared
  <2>3. ASSUME NEW q \in Proc, NEW b \in Addr, NEW x \in Bytes(mem[q][b])
        PROVE  \E i \in Index : i >= Src(mem[q][b]) /\ x = mem[q][b].pool[i]
    <3>1. PICK i \in Index : x = mem[q][b].pool[i] /\ x # Zero
      BY <2>3 DEF Bytes
    <3>2. ~(i < Src(mem[q][b]))
      BY <2>0, <3>1 DEF ContentInv, Shaped
    <3>3. mem[q][b] \in Struct
      BY <2>0 DEF LibraryTypeOK
    <3>4. i \in Nat /\ Src(mem[q][b]) \in Nat
      BY <3>3, IndexType, SizesAssumption DEF Struct, Src
    <3>. QED BY <3>1, <3>2, <3>4
  <2>4. ASSUME NEW q \in Proc, NEW b \in Addr, NEW x \in Bytes(mem[q][b])
        PROVE  x.seed = mem[q][b].keys /\ x.seed # 0
    <3>1. PICK i \in Index : i >= Src(mem[q][b]) /\ x = mem[q][b].pool[i]
      BY <2>3, <2>4
    <3>2. mem[q][b].pool[i].seed = mem[q][b].keys /\ mem[q][b].keys \in 1 .. seeds
      BY <1>1, <3>1, PoolByte
    <3>. QED BY <3>1, <3>2
  <2>5. ASSUME NEW q \in Proc, NEW b \in Addr, <<p, a>> # <<q, b>>
        PROVE  /\ mem[p][a].keys # 0 => mem[p][a].keys # mem[q][b].keys
               /\ Bytes(mem[p][a]) \cap Bytes(mem[q][b]) = {}
    <3>1. mem[p][a].keys # 0 => mem[p][a].keys # mem[q][b].keys
      BY <2>2, <2>5
    <3>2. ASSUME NEW x \in Bytes(mem[p][a]), x \in Bytes(mem[q][b]) PROVE FALSE
      BY <2>4, <3>1, <3>2
    <3>. QED BY <3>1, <3>2
  <2>6. ASSUME NEW t \in Thread, ~(at[t] = "advance" /\ proc[t] = p /\ this_[t] = a),
               NEW x \in Bytes(mem[p][a])
        PROVE  x \notin Received(t)
    <3>1. PICK i \in Index : i >= Src(mem[p][a]) /\ x = mem[p][a].pool[i]
      BY <2>3, <2>6
    <3>2. Taken(t, p, a) = 0
      BY <2>6 DEF Taken, Reading
    <3>3. mem[p][a] \in Struct
      BY <2>0 DEF LibraryTypeOK
    <3>4. i >= Src(mem[p][a]) + Taken(t, p, a)
      BY <3>1, <3>2, <3>3, SizesAssumption DEF Struct, Src
    <3>. QED BY <2>0, <3>1, <3>4 DEF UndeliveredInv
  <2>. QED BY <2>5, <2>6
<1>. QED BY <1>1, LibraryInvariance, PTL

\* Whatever is in a page is in the hands of a thread that will unmap it, and out
\* of reach of a core dump and of a child.
THEOREM ContentIsOwned == LibrarySpec => []MemoryOwned
<1>1. ASSUME LibraryInv PROVE MemoryOwned
  <2>1. SecretsOwned /\ SeedsMapped /\ ContentInv
    BY <1>1, SeededPages DEF LibraryInv, IInv
  <2>. QED BY <2>1 DEF MemoryOwned, ContentInv, SecretsOwned, SeedsMapped
<1>. QED BY <1>1, LibraryInvariance, PTL

-----------------------------------------------------------------------------
(* The library is a source of fresh bytes to all threads of all processes. *)

\* owed of the abstract specification, under the refinement mapping.
Debt == [t \in Thread |-> Owed(t)]

LEMMA LibrarySourceInit == LibraryInit => Source!Init
<1>. SUFFICES ASSUME LibraryInit PROVE Source!Init
    OBVIOUS
<1>1. \A t \in Thread : Owed(t) = 0
    BY DEF LibraryInit, Owed
<1>. QED BY <1>1 DEF LibraryInit, Source!Init

\* A step that changes neither what was delivered nor what is owed.
LEMMA LibrarySourceStutter ==
    ASSUME log' = log, \A t \in Thread : Owed(t)' = Owed(t)
    PROVE  UNCHANGED Source!vars
    BY DEF Source!vars

LEMMA LibrarySourceRequest ==
    ASSUME LibraryInv, NEW t \in Thread, NEW k \in RequestSize, Request(t, k)
    PROVE  Source!Next
<1>0. LoopInv /\ LibraryTypeOK
    BY DEF LibraryInv
<1>1. /\ pc[t] = "idle" /\ n[t] = 0 /\ at[t] # "advance"
      /\ n' = [n EXCEPT ![t] = k] /\ at' = at /\ m' = m /\ log' = log
    BY <1>0 DEF Request, Call, At, LoopInv
<1>2. Owed(t) = 0 /\ Owed(t)' = k
    BY <1>0, <1>1 DEF Owed, LibraryTypeOK
<1>3. \A u \in Thread \ {t} : Owed(u)' = Owed(u)
    BY <1>0, <1>1 DEF Owed, LibraryTypeOK
<1>4. Debt' = [Debt EXCEPT ![t] = k] /\ Debt[t] = 0
    BY <1>2, <1>3 DEF Debt
<1>5. Source!Request(t)
    BY <1>1, <1>4 DEF Source!Request, Debt
<1>. QED BY <1>5 DEF Source!Next

\* memcpy delivers bytes that are all different and new to all threads.
LEMMA LibrarySourceCopy ==
    ASSUME LibraryInv, NEW t \in Thread, Copy(t)
    PROVE  Source!Next
<1>0. LibraryTypeOK
    BY DEF LibraryInv
<1>1. PICK p \in Proc, a \in Addr, k \in Nat : Copies(t, p, a, k)
    BY CopiesFrom DEF Copy, Loops, At
<1>. DEFINE s == mem[p][a]
            c == Copied(s, k)
<1>2. /\ UNCHANGED <<vars, mem, n>>
      /\ at[t] = "loop" /\ at' = [at EXCEPT ![t] = "advance"]
      /\ m' = [m EXCEPT ![t] = k]
      /\ log' = [log EXCEPT ![t] = log[t] \o Copied(mem[p][a], k)]
      /\ log' \in [Thread -> Seq(Byte)]
      /\ \A u \in Thread \ {t} : log'[u] = log[u]
      /\ \A j \in DOMAIN log'[t] :
            OldByte(t, j) \/ \E i \in Index : NewByte(t, p, a, k, j, i)
    BY <1>1, CopyLog
<1>3. /\ s \in Struct /\ k \in 1 .. s.rand_bytes_remaining /\ k <= n[t]
      /\ k \in 0 .. s.rand_bytes_remaining /\ k > 0 /\ Src(s) \in Nat
    BY <1>1, SizesAssumption DEF Copies, Struct, Src
<1>4. /\ c \in Seq(Byte) /\ Len(c) = k
      /\ \A j \in 1 .. k : Src(s) + j - 1 \in Index
      /\ \A j \in 1 .. k : c[j] = s.pool[Src(s) + j - 1]
    BY <1>3, CopiedType DEF Copied
<1>5. n \in [Thread -> Nat] /\ log \in [Thread -> Seq(Byte)] /\ log[t] \in Seq(Byte)
      /\ m \in [Thread -> 0 .. PoolSize] /\ at \in [Thread -> {"loop", "advance"}]
    BY <1>0 DEF LibraryTypeOK
<1>6. /\ Owed(t) = n[t] /\ Owed(t)' = n[t] - k
      /\ \A u \in Thread \ {t} : Owed(u)' = Owed(u)
    BY <1>2, <1>5 DEF Owed
<1>7. /\ Len(log[t] \o Copied(s, k)) = Len(log[t]) + k
      /\ SubSeq(log[t] \o Copied(s, k), Len(log[t]) + 1, Len(log[t]) + k) = Copied(s, k)
    BY <1>3, <1>5, AppendedBytes
<1>8. log'[t] = log[t] \o c /\ log' = [log EXCEPT ![t] = log[t] \o c]
    BY <1>2, <1>5
<1>9. /\ Len(log'[t]) = Len(log[t]) + k
      /\ SubSeq(log'[t], Len(log[t]) + 1, Len(log'[t])) = c
    BY <1>7, <1>8
<1>. HIDE DEF c
<1>10. Source!NewBytes(t) = c
    BY <1>9 DEF Source!NewBytes
<1>11. ASSUME NEW i \in 1 .. k
       PROVE  /\ c[i] # Zero
              /\ c[i] \notin Source!Delivered
              /\ \A j \in 1 .. k : c[i] = c[j] => i = j
  <2>. DEFINE h == Src(s) + i - 1
  <2>1. h \in Index /\ h >= Src(s) /\ c[i] = s.pool[h]
    BY <1>3, <1>4
  <2>2. c[i] # Zero
    BY <2>1, PoolByte
  <2>3. c[i] \notin Source!Delivered
    <3>1. \A u \in Thread : c[i] \notin Received(u)
      BY <1>1, <1>2, <2>1, CopyFresh
    <3>. QED BY <3>1 DEF Source!Delivered, Received
  <2>4. ASSUME NEW j \in 1 .. k, c[i] = c[j] PROVE i = j
    <3>1. Src(s) + j - 1 \in Index /\ Src(s) + j - 1 >= Src(s)
      BY <1>3, <1>4
    <3>2. s.pool[Src(s) + j - 1] = s.pool[h]
      BY <1>4, <2>1, <2>4
    <3>3. h = Src(s) + j - 1
      BY <2>1, <3>1, <3>2, PoolByte
    <3>. QED BY <1>3, <3>3
  <2>. QED BY <2>2, <2>3, <2>4
<1>12. Source!Fresh(c)
  <2>1. DOMAIN c = 1 .. k
    BY <1>4
  <2>. QED BY <1>11, <2>1 DEF Source!Fresh
<1>13. Debt' = [Debt EXCEPT ![t] = Debt[t] - k] /\ Debt[t] = n[t]
    BY <1>6 DEF Debt
<1>14. /\ Len(log[t]) < Len(log'[t])
       /\ Len(Source!NewBytes(t)) = k
       /\ k <= Debt[t]
  <2>1. Len(log[t]) \in Nat /\ k \in Nat
    BY <1>5
  <2>. QED BY <1>3, <1>4, <1>9, <1>10, <1>13, <2>1
<1>15. Source!Deliver(t)
    BY <1>8, <1>10, <1>12, <1>13, <1>14 DEF Source!Deliver, Debt
<1>. QED BY <1>15 DEF Source!Next

LEMMA LibrarySourceStep ==
    LibraryInv /\ [LibraryNext]_libraryVars => [Source!Next]_(Source!vars)
<1>. SUFFICES ASSUME LibraryInv, [LibraryNext]_libraryVars
              PROVE  Source!Next \/ UNCHANGED Source!vars
    OBVIOUS
<1>0. LibraryTypeOK
    BY DEF LibraryInv
<1>1. ASSUME NEW t \in Thread, NEW k \in RequestSize, Request(t, k) PROVE Source!Next
    BY <1>1, LibrarySourceRequest
<1>2. ASSUME NEW t \in Thread, Copy(t) PROVE Source!Next
    BY <1>2, LibrarySourceCopy
<1>3. ASSUME NEW t \in Thread, Around(t) \/ Regen(t) \/ Return(t)
      PROVE  UNCHANGED Source!vars
  <2>1. UNCHANGED <<at, n, m, log>>
    BY <1>3 DEF Around, Manage, Abort, ForkMemory, Regen, Return, loopVars
  <2>. QED BY <2>1, LibrarySourceStutter DEF Owed
<1>4. ASSUME NEW t \in Thread, Advance(t) PROVE UNCHANGED Source!vars
  <2>1. /\ log' = log /\ m' = m /\ at[t] = "advance" /\ at'[t] = "loop"
        /\ n'[t] = n[t] - m[t]
        /\ \A u \in Thread \ {t} : at'[u] = at[u] /\ n'[u] = n[u]
    BY <1>0, <1>4 DEF Advance, Loops, LibraryTypeOK
  <2>. QED BY <2>1, LibrarySourceStutter DEF Owed
<1>5. CASE UNCHANGED libraryVars
  <2>1. UNCHANGED <<at, n, m, log>>
    BY <1>5 DEF libraryVars, loopVars
  <2>. QED BY <2>1, LibrarySourceStutter DEF Owed
<1>. QED BY <1>1, <1>2, <1>3, <1>4, <1>5 DEF LibraryNext, Around

\* The library as a whole, whatever its threads do between the steps of one of
\* them, delivers fresh bytes only, and as many as each caller asked for.
THEOREM LibraryImplementsSource == LibrarySpec => SourceSpec
    BY LibrarySourceInit, LibrarySourceStep, LibraryInvariance, PTL
       DEF LibrarySpec, SourceSpec, Source!Spec
=============================================================================
