--------------------------- MODULE AmalgamateProofs -------------------------
(***************************************************************************)
(* Proofs about Amalgamate, for every tree of files, every list of search  *)
(* paths and every root.                                                   *)
(*                                                                         *)
(* The traversal keeps Inv, of which ExactlyOnce, DependencyFirst and      *)
(* AllOrNothing are parts.  Each action moves at most one file: from what  *)
(* was not seen to the stack, or from the stack to the order; the tree     *)
(* stays as it is, and so do its translation units.                        *)
(***************************************************************************)
EXTENDS Amalgamate, SequenceTheorems, FiniteSetTheorems, WellFoundedInduction,
        TLAPS

-----------------------------------------------------------------------------
(* find_file finds the file that a preprocessor opens.                     *)

\* A set of numbers that is not empty has a smallest one.
LEMMA Smallest ==
    ASSUME NEW S \in SUBSET Nat, S # {}
    PROVE  \E i \in S : \A j \in S : i <= j
<1>. DEFINE R == OpToRel(<, Nat)
<1>1. IsWellFoundedOn(R, Nat)
    BY NatLessThanWellFounded
<1>2. \A i, j \in Nat : j < i => <<j, i>> \in R
    BY DEF OpToRel
<1>. HIDE DEF R
<1>3. PICK i \in S : \A j \in S : ~ (<<j, i>> \in R)
    BY <1>1, WFMin
<1>4. ASSUME NEW j \in S PROVE i <= j
  <2>1. i \in Nat /\ j \in Nat /\ <<j, i>> \notin R
      BY <1>3
  <2>2. ~(j < i)
      BY <1>2, <2>1, Zenon
  <2>. QED BY <2>1, <2>2
<1>. QED BY <1>4

\* Place is the smallest number of a candidate, or 0 if there is none.
LEMMA PlaceFirst ==
    ASSUME NEW path, NEW name
    PROVE  LET there == {i \in 1 .. Len(Search(path)) :
                            <<Search(path)[i], name>> \in DOMAIN tree}
           IN  \/ there = {} /\ Place(path, name) = 0
               \/ /\ Place(path, name) \in there
                  /\ \A i \in there : Place(path, name) <= i
<1>. DEFINE there == {i \in 1 .. Len(Search(path)) :
                         <<Search(path)[i], name>> \in DOMAIN tree}
<1>1. Place(path, name) = IF there # {} THEN Min(there) ELSE 0
    BY DEF Place, SelectInSeq
<1>2. there # {} => \E i \in there : \A j \in there : i <= j
  <2>1. there \in SUBSET Nat
      OBVIOUS
  <2>. QED BY <2>1, Smallest
<1>3. there # {} => Min(there) \in there /\ \A i \in there : Min(there) <= i
    BY <1>2 DEF Min
<1>. QED BY <1>1, <1>3

\* The directory of the includer, and then the search paths.
LEMMA SearchElements ==
    ASSUME NEW path
    PROVE  /\ Len(SearchPaths) \in Nat
           /\ DOMAIN SearchPaths = 1 .. Len(SearchPaths)
           /\ Len(Search(path)) = Len(SearchPaths) + 1
           /\ Search(path)[1] = Parent(path)
           /\ \A i \in 1 .. Len(SearchPaths) : Search(path)[i + 1] = SearchPaths[i]
<1>. DEFINE Dirs == ToSet(SearchPaths) \cup {Parent(path)}
<1>1. SearchPaths \in Seq(Dirs) /\ <<Parent(path)>> \in Seq(Dirs)
    BY PathsAssumption, SeqMonotonic
<1>2. /\ Len(SearchPaths) \in Nat
      /\ DOMAIN SearchPaths = 1 .. Len(SearchPaths)
    BY <1>1
<1>3. Search(path) = <<Parent(path)>> \o SearchPaths
    BY DEF Search
<1>4. /\ Len(<<Parent(path)>>) = 1
      /\ <<Parent(path)>>[1] = Parent(path)
    OBVIOUS
<1>5. /\ Len(Search(path)) = 1 + Len(SearchPaths)
      /\ \A i \in 1 .. 1 + Len(SearchPaths) : Search(path)[i] =
             IF i <= 1 THEN <<Parent(path)>>[i] ELSE SearchPaths[i - 1]
  <2>. HIDE DEF Dirs
  <2>. QED BY <1>1, <1>3, <1>4, ConcatProperties
<1>. QED BY <1>2, <1>4, <1>5

\* What find_file finds is what the preprocessor opens, and it fails when there
\* is nothing to open.
LEMMA FindFile ==
    ASSUME NEW path, NEW name
    PROVE  Opened(path, name) =
               IF Missing(path, name) THEN {} ELSE {find_file(path, name)}
<1>. DEFINE there == {i \in 1 .. Len(Search(path)) :
                         <<Search(path)[i], name>> \in DOMAIN tree}
            listed == {i \in DOMAIN SearchPaths :
                          <<SearchPaths[i], name>> \in DOMAIN tree}
            n == Len(SearchPaths)
<1>1. \/ there = {} /\ Place(path, name) = 0
      \/ /\ Place(path, name) \in there
         /\ \A i \in there : Place(path, name) <= i
    BY PlaceFirst
<1>2. /\ n \in Nat
      /\ 1 \in there <=> <<Parent(path), name>> \in DOMAIN tree
      /\ \A i \in 1 .. n : i + 1 \in there <=> i \in listed
      /\ \A i \in listed : i \in 1 .. n
      /\ \A i \in there : i \in Nat /\ i >= 1 /\ (i = 1 \/ i - 1 \in 1 .. n)
    BY SearchElements
<1>. HIDE DEF there, listed
<1>3. CASE there = {}
  <2>1. listed = {} /\ <<Parent(path), name>> \notin DOMAIN tree
      BY <1>2, <1>3
  <2>2. Missing(path, name)
      BY <1>1, <1>3 DEF Missing
  <2>. QED BY <2>1, <2>2 DEF Opened, listed
<1>4. CASE 1 \in there
  <2>1. Place(path, name) = 1
      BY <1>1, <1>2, <1>4
  <2>2. /\ ~Missing(path, name)
        /\ find_file(path, name) = <<Parent(path), name>>
      BY <2>1, SearchElements DEF Missing, find_file
  <2>. QED BY <1>2, <1>4, <2>2 DEF Opened
<1>5. CASE there # {} /\ 1 \notin there
  <2>. DEFINE m == Place(path, name)
  <2>1. /\ m \in there /\ m # 1 /\ m - 1 \in 1 .. n /\ m - 1 \in listed
        /\ \A i \in there : m <= i
    <3>1. m \in there /\ m # 1 /\ \A i \in there : m <= i
        BY <1>1, <1>5
    <3>2. m - 1 \in 1 .. n /\ m = (m - 1) + 1
        BY <1>2, <3>1
    <3>. QED BY <1>2, <3>1, <3>2
  <2>2. \A i \in listed : m - 1 <= i
    <3>1. ASSUME NEW i \in listed PROVE m - 1 <= i
      <4>1. i \in 1 .. n /\ i + 1 \in there
          BY <1>2
      <4>2. m <= i + 1 /\ m \in Nat /\ i \in Nat
          BY <1>2, <2>1, <4>1
      <4>. QED BY <4>2
    <3>. QED BY <3>1
  <2>3. {j \in listed : \A k \in listed : j <= k} = {m - 1}
      BY <1>2, <2>1, <2>2
  <2>4. /\ ~Missing(path, name)
        /\ find_file(path, name) = <<SearchPaths[m - 1], name>>
    <3>1. m = (m - 1) + 1 /\ m # 0
        BY <1>2, <2>1
    <3>2. Search(path)[m] = SearchPaths[m - 1]
        BY <2>1, <3>1, SearchElements
    <3>. QED BY <3>1, <3>2 DEF Missing, find_file
  <2>5. <<Parent(path), name>> \notin DOMAIN tree
      BY <1>2, <1>5
  <2>6. Opened(path, name) =
            {<<SearchPaths[i], name>> : i \in {j \in listed : \A k \in listed : j <= k}}
      BY <2>5 DEF Opened, listed
  <2>. QED BY <2>3, <2>4, <2>6
<1>. QED BY <1>3, <1>4, <1>5

\* find_file finds files.
LEMMA FoundIsFile ==
    ASSUME NEW path, NEW name, ~Missing(path, name)
    PROVE  find_file(path, name) \in DOMAIN tree
    BY PlaceFirst DEF find_file, Missing

\* What is opened is a file of the tree.
LEMMA OpenedType ==
    ASSUME NEW path, NEW name
    PROVE  Opened(path, name) \subseteq DOMAIN tree
    BY FindFile, FoundIsFile

-----------------------------------------------------------------------------
(* Translation units.                                                      *)

LEMMA IncludesType ==
    ASSUME NEW path
    PROVE  Includes(path) \subseteq DOMAIN tree
    BY OpenedType DEF Includes

\* A file is in the unit it is the root of.
LEMMA UnitRoot ==
    ASSUME NEW path \in DOMAIN tree
    PROVE  path \in Unit(path)
    BY DEF Unit

\* With a file, what it includes is in the unit.
LEMMA UnitClosed ==
    ASSUME NEW path, NEW q \in Unit(path)
    PROVE  Includes(q) \subseteq Unit(path)
    BY IncludesType DEF Unit, Closed

\* The unit of a file of a unit is part of it.
LEMMA UnitLeast ==
    ASSUME NEW path, NEW files \in SUBSET DOMAIN tree,
           path \in files, Closed(files)
    PROVE  Unit(path) \subseteq files
    BY DEF Unit

\* A step that leaves the tree leaves what is opened and the units.
LEMMA TreeKept ==
    ASSUME tree' = tree
    PROVE  /\ \A path, name : Opened(path, name)' = Opened(path, name)
           /\ \A path : Includes(path)' = Includes(path)
           /\ \A path : Unit(path)' = Unit(path)
           /\ Complete' = Complete
<1>1. \A path, name : Opened(path, name)' = Opened(path, name)
    BY DEF Opened
<1>2. \A path : Includes(path)' = Includes(path)
    BY DEF Includes, Opened
<1>3. \A path : Unit(path)' = Unit(path)
    BY DEF Unit, Closed, Includes, Opened
<1>4. Complete' = Complete
    BY DEF Complete, Unit, Closed, Includes, Opened
<1>. QED BY <1>1, <1>2, <1>3, <1>4

-----------------------------------------------------------------------------
(* Sequences.                                                              *)

\* The beginning of a sequence, element by element.
LEMMA PrefixElements ==
    ASSUME NEW S, NEW s \in Seq(S), NEW t \in Seq(S)
    PROVE  IsPrefix(s, t) <=>
               Len(s) <= Len(t) /\ \A i \in 1 .. Len(s) : s[i] = t[i]
<1>. SUFFICES ASSUME Len(s) <= Len(t)
              PROVE  SubSeq(s, 1, Len(s)) = SubSeq(t, 1, Len(s)) <=>
                         \A i \in 1 .. Len(s) : s[i] = t[i]
    BY DEF IsPrefix
<1>. DEFINE u == SubSeq(t, 1, Len(s))
<1>1. SubSeq(s, 1, Len(s)) = s /\ Len(s) \in Nat
    BY SubSeqFull
<1>2. /\ u \in Seq(S) /\ Len(u) = Len(s)
      /\ \A i \in 1 .. Len(s) : u[i] = t[i]
  <2>1. \A i \in 1 .. Len(s) : t[i] \in S
      OBVIOUS
  <2>2. /\ u \in Seq(S)
        /\ Len(u) = IF 1 <= Len(s) THEN Len(s) - 1 + 1 ELSE 0
        /\ \A i \in 1 .. Len(s) - 1 + 1 : u[i] = t[1 + i - 1]
      BY <1>1, <2>1, SubSeqProperties
  <2>. HIDE DEF u
  <2>. QED BY <1>1, <2>2
<1>. HIDE DEF u
<1>3. (\A i \in 1 .. Len(s) : s[i] = t[i]) => s = u
    BY <1>2, SeqEqual
<1>. QED BY <1>1, <1>2, <1>3 DEF u

\* A sequence without its last element.
LEMMA FrontElements ==
    ASSUME NEW S, NEW s \in Seq(S), s # <<>>
    PROVE  /\ Len(s) \in Nat \ {0}
           /\ Front(s) \in Seq(S)
           /\ Len(Front(s)) = Len(s) - 1
           /\ \A i \in 1 .. Len(s) - 1 : Front(s)[i] = s[i]
<1>. DEFINE n == Len(s)
            u == Front(s)
<1>1. n \in Nat \ {0} /\ \A i \in 1 .. n - 1 : s[i] \in S
    BY EmptySeq
<1>2. /\ u \in Seq(S)
      /\ Len(u) = IF 1 <= n - 1 THEN (n - 1) - 1 + 1 ELSE 0
      /\ \A i \in 1 .. (n - 1) - 1 + 1 : u[i] = s[1 + i - 1]
    BY <1>1, SubSeqProperties DEF Front
<1>. HIDE DEF n, u
<1>3. Len(u) = n - 1
    BY <1>1, <1>2
<1>4. ASSUME NEW i \in 1 .. n - 1 PROVE u[i] = s[i]
    BY <1>1, <1>2
<1>5. /\ n \in Nat \ {0} /\ u \in Seq(S) /\ Len(u) = n - 1
      /\ \A i \in 1 .. n - 1 : u[i] = s[i]
    BY <1>1, <1>2, <1>3, <1>4
<1>. QED BY <1>5 DEF n, u

\* A sequence of calls for different files has no more of them than there are.
LEMMA StackBound ==
    ASSUME NEW Files \in SUBSET Path,
           NEW s \in Seq([path : Files, line : Nat]),
           \A i, j \in DOMAIN s : s[i].path = s[j].path => i = j
    PROVE  Len(s) <= Cardinality(Path)
<1>. DEFINE f == [i \in 1 .. Len(s) |-> s[i].path]
<1>1. Len(s) \in Nat /\ DOMAIN s = 1 .. Len(s)
    OBVIOUS
<1>2. f \in Injection(1 .. Len(s), Path)
  <2>1. \A i \in 1 .. Len(s) : s[i] \in [path : Files, line : Nat]
      BY ElementOfSeq
  <2>2. \A i \in 1 .. Len(s) : s[i].path \in Path
      BY <2>1
  <2>. QED BY <1>1, <2>2 DEF Injection, IsInjective
<1>3. IsFiniteSet(Path)
    BY PathsAssumption
<1>4. Cardinality(1 .. Len(s)) = Len(s)
  <2>1. \A k \in Nat : Cardinality(1 .. k) = IF 1 > k THEN 0 ELSE k - 1 + 1
      BY FS_Interval
  <2>2. \A k \in Nat : Cardinality(1 .. k) = k
      BY <2>1
  <2>. QED BY <1>1, <2>2, Zenon
<1>. QED BY <1>2, <1>3, <1>4, FS_Injection

-----------------------------------------------------------------------------
(* The call on top of the stack.                                           *)

Call == [path : DOMAIN tree, line : Nat]

\* The files of the tree are sequences of names.
LEMMA FileLines ==
    ASSUME TypeOK, NEW path \in DOMAIN tree
    PROVE  /\ Len(tree[path]) \in Nat
           /\ DOMAIN tree[path] = 1 .. Len(tree[path])
<1>1. tree[path] \in Contents
    BY DEF TypeOK
<1>2. tree[path] \in Seq(ToSet(tree[path]))
    BY <1>1, PathsAssumption
<1>. QED BY <1>2

\* visit runs for a file that each file on the stack leads to.
LEMMA TopCall ==
    ASSUME Inv, pc = "visit"
    PROVE  /\ Len(stack) \in Nat \ {0}
           /\ DOMAIN stack = 1 .. Len(stack)
           /\ stack[Len(stack)] \in Call
           /\ Path_of = stack[Len(stack)].path
           /\ Line = stack[Len(stack)].line + 1
           /\ Path_of \in DOMAIN tree
           /\ Line \in Nat \ {0} /\ Line - 1 \in Nat
           /\ Path_of \in Active
           /\ \A i \in 1 .. Len(stack) : Path_of \in Unit(stack[i].path)
           /\ Path_of \in Unit(Root)
           /\ Followed(Path_of, Line - 1)
<1>. DEFINE n == Len(stack)
<1>1. n \in Nat \ {0} /\ DOMAIN stack = 1 .. n /\ stack \in Seq(Call)
    BY EmptySeq DEF Inv, TypeOK, StackInv, Call
<1>2. stack[n] \in Call
    BY <1>1, ElementOfSeq
<1>3. Path_of = stack[n].path /\ Line = stack[n].line + 1
    BY DEF Path_of, Line, Last
<1>4. Path_of \in DOMAIN tree /\ stack[n].line \in Nat
    BY <1>2, <1>3 DEF Call
<1>5. Path_of \in Active
    BY <1>1, <1>3 DEF Active
<1>6. \A i \in 1 .. n : Path_of \in Unit(stack[i].path)
    BY <1>1, <1>3 DEF Inv, StackInv
<1>7. Path_of \in Unit(Root)
    BY <1>5 DEF Inv, SeenInv
<1>8. Followed(Path_of, Line - 1)
  <2>1. Followed(stack[n].path, stack[n].line)
      BY <1>1 DEF Inv, FollowedInv
  <2>2. stack[n].line = Line - 1
      BY <1>3, <1>4
  <2>. QED BY <1>3, <2>1, <2>2
<1>. QED BY <1>1, <1>2, <1>3, <1>4, <1>5, <1>6, <1>7, <1>8

\* Two calls are for different files, and the lower leads to the upper.
LEMMA StackPairs ==
    ASSUME Inv, NEW i \in 1 .. Len(stack), NEW j \in 1 .. Len(stack)
    PROVE  /\ i <= j => stack[j].path \in Unit(stack[i].path)
           /\ stack[i].path = stack[j].path => i = j
<1>1. DOMAIN stack = 1 .. Len(stack)
    BY DEF Inv, TypeOK
<1>. QED BY <1>1 DEF Inv, StackInv

\* The file that the line includes is of the unit of each file on the stack.
LEMMA FoundFile ==
    ASSUME Inv, pc = "visit", Line \in DOMAIN tree[Path_of],
           ~Missing(Path_of, Name), NEW found, found = find_file(Path_of, Name)
    PROVE  /\ found \in DOMAIN tree
           /\ Opened(Path_of, tree[Path_of][Line]) = {found}
           /\ \A i \in 1 .. Len(stack) : found \in Unit(stack[i].path)
           /\ found \in Unit(Root)
<1>1. found \in DOMAIN tree
    BY FoundIsFile
<1>2. Opened(Path_of, tree[Path_of][Line]) = {found}
    BY FindFile DEF Name
<1>3. found \in Includes(Path_of)
    BY <1>2 DEF Includes
<1>4. \A i \in 1 .. Len(stack) : found \in Unit(stack[i].path)
    BY <1>3, TopCall, UnitClosed
<1>5. found \in Unit(Root)
    BY <1>3, TopCall, UnitClosed
<1>. QED BY <1>1, <1>2, <1>4, <1>5

\* The caller's loop goes on one line further.
LEMMA ResumedElements ==
    ASSUME Inv, pc = "visit"
    PROVE  /\ Resumed \in Seq(Call)
           /\ Len(Resumed) = Len(stack)
           /\ \A i \in 1 .. Len(stack) :
                 /\ Resumed[i].path = stack[i].path
                 /\ Resumed[i].line =
                        IF i = Len(stack) THEN Line ELSE stack[i].line
<1>. DEFINE n == Len(stack)
            e == [stack[n] EXCEPT !.line = Line]
<1>1. /\ n \in Nat \ {0} /\ stack \in Seq(Call) /\ stack[n] \in Call
      /\ Line \in Nat
    BY TopCall DEF Inv, TypeOK, Call
<1>2. e \in Call /\ e.path = stack[n].path /\ e.line = Line
    BY <1>1 DEF Call
<1>3. Resumed = [stack EXCEPT ![n] = e]
    BY DEF Resumed
<1>. HIDE DEF e
<1>4. /\ Resumed \in Seq(Call) /\ Len(Resumed) = n
      /\ \A j \in 1 .. n : Resumed[j] = IF j = n THEN e ELSE stack[j]
  <2>. HIDE DEF n
  <2>. QED BY <1>1, <1>2, <1>3, ExceptSeq DEF n
<1>. QED BY <1>1, <1>2, <1>4

\* What was followed stays followed.
LEMMA FollowedKept ==
    ASSUME tree' = tree, seen \subseteq seen', NEW path, NEW n, Followed(path, n)
    PROVE  Followed(path, n)'
    BY TreeKept DEF Followed

\* A line whose include was found and seen is followed too.
LEMMA FollowedMore ==
    ASSUME Inv, tree' = tree, seen \subseteq seen', pc = "visit",
           Line \in DOMAIN tree[Path_of], ~Missing(Path_of, Name),
           find_file(Path_of, Name) \in seen',
           NEW path, path = Path_of, NEW n, n = Line
    PROVE  Followed(path, n)'
<1>1. /\ n - 1 \in Nat /\ path \in DOMAIN tree
      /\ Followed(path, n - 1)
      /\ n \in 1 .. Len(tree[path])
    BY TopCall, FileLines DEF Inv
<1>2. Followed(path, n - 1)'
    BY <1>1, FollowedKept
<1>3. Opened(path, tree[path][n]) = {find_file(Path_of, Name)}
    BY FoundFile
<1>4. ASSUME NEW i \in 1 .. n
      PROVE  /\ Opened(path, tree[path][i]) # {}
             /\ Opened(path, tree[path][i]) \subseteq seen'
  <2>1. CASE i = n
      BY <1>3, <2>1
  <2>2. CASE i # n
    <3>1. i \in 1 .. n - 1
        BY <1>1, <2>2
    <3>. QED BY <1>1, <3>1 DEF Followed
  <2>. QED BY <2>1, <2>2
<1>5. \A i \in 1 .. n : Opened(path, tree[path][i])' = Opened(path, tree[path][i])
    BY TreeKept
<1>. QED BY <1>1, <1>4, <1>5 DEF Followed

\* With all of its includes followed, what a file includes was found and seen.
LEMMA AllFollowed ==
    ASSUME TypeOK, NEW path \in DOMAIN tree, Followed(path, Len(tree[path]))
    PROVE  /\ Includes(path) \subseteq seen
           /\ \A i \in DOMAIN tree[path] : Opened(path, tree[path][i]) # {}
    BY FileLines DEF Followed, Includes

-----------------------------------------------------------------------------
(* Every step keeps Inv.                                                   *)

LEMMA InitInv == Init => Inv
<1>. SUFFICES ASSUME Init PROVE Inv
    OBVIOUS
<1>1. TypeOK
  <2>1. DOMAIN tree \subseteq Path /\ tree \in [DOMAIN tree -> Contents]
      BY DEF Init
  <2>2. IsPrefix(emitted, order)
      BY DEF Init, IsPrefix
  <2>3. Len(stack) <= Cardinality(Path)
      BY PathsAssumption, FS_CardinalityType DEF Init
  <2>. QED BY <2>1, <2>2, <2>3 DEF Init, TypeOK
<1>2. StackInv
    BY DEF Init, StackInv
<1>3. SeenInv
    BY DEF Init, SeenInv, Active, ToSet, IsInjective
<1>4. FollowedInv
    BY DEF Init, FollowedInv
<1>5. EndInv
    BY DEF Init, EndInv
<1>6. DependencyFirst
    BY DEF Init, DependencyFirst
<1>. QED BY <1>1, <1>2, <1>3, <1>4, <1>5, <1>6 DEF Inv

LEMMA StartStep == Inv /\ Start => Inv'
<1>. SUFFICES ASSUME Inv, Start PROVE Inv'
    OBVIOUS
<1>. DEFINE root == [path |-> Root, line |-> 0]
<1>1. /\ Root \in DOMAIN tree /\ tree' = tree /\ pc' = "visit"
      /\ seen' = {Root} /\ stack' = <<root>>
      /\ order = <<>> /\ order' = <<>>
      /\ emitted = <<>> /\ emitted' = <<>>
    BY DEF Start, Inv, EndInv
<1>2. /\ stack' \in Seq([path : DOMAIN tree, line : Nat])
      /\ Len(stack') = 1 /\ DOMAIN stack' = {1} /\ stack'[1] = root
    BY <1>1
<1>3. TypeOK'
  <2>1. Len(stack') <= Cardinality(Path)
      BY <1>2, StackBound DEF Inv, TypeOK
  <2>. QED BY <1>1, <1>2, <2>1 DEF Inv, TypeOK
<1>4. Root \in Unit(Root)
    BY <1>1, UnitRoot
<1>5. StackInv'
    BY <1>1, <1>2, <1>4, TreeKept DEF StackInv
<1>6. SeenInv'
    BY <1>1, <1>2, <1>4, TreeKept DEF SeenInv, Active, ToSet, IsInjective
<1>7. FollowedInv'
    BY <1>1, <1>2, FileLines DEF FollowedInv, Followed, Inv
<1>8. EndInv'
    BY <1>1 DEF EndInv
<1>9. DependencyFirst'
    BY <1>1 DEF DependencyFirst
<1>. QED BY <1>3, <1>5, <1>6, <1>7, <1>8, <1>9 DEF Inv

\* What does not touch the order keeps the dependencies.
LEMMA OrderKept ==
    ASSUME Inv, tree' = tree, order' = order,
           pc' = "done" => Last(order) = Root
    PROVE  DependencyFirst'
<1>1. \A path, k : path \in Includes(order[k])' <=> path \in Includes(order[k])
    BY TreeKept
<1>2. \A path, k : (order[k] \in Unit(path))' <=> order[k] \in Unit(path)
    BY TreeKept
<1>. QED BY <1>1, <1>2 DEF Inv, DependencyFirst

LEMMA AgainStep == Inv /\ Again => Inv'
<1>. SUFFICES ASSUME Inv, Again PROVE Inv'
    OBVIOUS
<1>. DEFINE n == Len(stack)
<1>1. /\ pc = "visit" /\ pc' = pc /\ tree' = tree /\ seen' = seen
      /\ order' = order /\ emitted' = emitted /\ stack' = Resumed
      /\ Line \in DOMAIN tree[Path_of] /\ ~Missing(Path_of, Name)
      /\ find_file(Path_of, Name) \in seen'
    BY DEF Again
<1>2. /\ stack' \in Seq(Call) /\ Len(stack') = n /\ DOMAIN stack' = 1 .. n
      /\ n \in Nat \ {0} /\ DOMAIN stack = 1 .. n
      /\ \A i \in 1 .. n :
            /\ stack'[i].path = stack[i].path
            /\ stack'[i].line = IF i = n THEN Line ELSE stack[i].line
    BY <1>1, ResumedElements, TopCall
<1>3. TypeOK'
    BY <1>1, <1>2 DEF Inv, TypeOK, Call
<1>4. StackInv'
  <2>1. ASSUME NEW i \in 1 .. n, NEW j \in 1 .. n
        PROVE  /\ i <= j => stack'[j].path \in Unit(stack[i].path)'
               /\ stack'[i].path = stack'[j].path => i = j
    <3>1. /\ i <= j => stack[j].path \in Unit(stack[i].path)
          /\ stack[i].path = stack[j].path => i = j
        BY StackPairs
    <3>2. stack'[i].path = stack[i].path /\ stack'[j].path = stack[j].path
        BY <1>2
    <3>. QED BY <1>1, <3>1, <3>2, TreeKept
  <2>2. stack'[1].path = Root /\ stack' # <<>>
    <3>1. stack[1].path = Root
        BY <1>1 DEF Inv, StackInv
    <3>2. 1 \in 1 .. n
        BY <1>2
    <3>. QED BY <1>2, <3>1, <3>2
  <2>. QED BY <1>1, <1>2, <2>1, <2>2 DEF StackInv
<1>5. SeenInv'
  <2>1. Active' = Active
      BY <1>2 DEF Active
  <2>. QED BY <1>1, <2>1, TreeKept DEF Inv, SeenInv
<1>6. FollowedInv'
  <2>1. ASSUME NEW i \in 1 .. n PROVE Followed(stack[i].path, stack[i].line)'
    <3>1. CASE i = n
        BY <1>1, <1>2, <3>1, TopCall, FollowedMore
    <3>2. CASE i # n
      <4>1. Followed(stack[i].path, stack[i].line)
          BY <1>2 DEF Inv, FollowedInv
      <4>. QED BY <1>1, <1>2, <3>2, <4>1, FollowedKept
    <3>. QED BY <3>1, <3>2
  <2>2. ASSUME NEW k \in DOMAIN order PROVE Followed(order[k], Len(tree[order[k]]))'
      BY <1>1, FollowedKept DEF Inv, FollowedInv
  <2>. QED BY <1>1, <1>2, <2>1, <2>2 DEF FollowedInv
<1>7. EndInv'
    BY <1>1, TreeKept DEF Inv, EndInv
<1>8. DependencyFirst'
    BY <1>1, OrderKept
<1>. QED BY <1>3, <1>4, <1>5, <1>6, <1>7, <1>8 DEF Inv

LEMMA IncludeStep == Inv /\ Include => Inv'
<1>. SUFFICES ASSUME Inv, Include,
                     NEW n, n = Len(stack),
                     NEW found, found = find_file(Path_of, Name)
              PROVE  Inv'
    OBVIOUS
<1>. DEFINE new == [path |-> found, line |-> 0]
<1>1. /\ pc = "visit" /\ pc' = pc /\ tree' = tree /\ seen' = seen \cup {found}
      /\ order' = order /\ emitted' = emitted /\ stack' = Append(Resumed, new)
      /\ Line \in DOMAIN tree[Path_of] /\ ~Missing(Path_of, Name)
      /\ found \notin seen
    BY DEF Include
<1>2. /\ found \in DOMAIN tree /\ found \in Unit(Root) /\ found \in Unit(found)
      /\ \A i \in 1 .. n : found \in Unit(stack[i].path)
    BY <1>1, FoundFile, UnitRoot
<1>3. /\ n \in Nat \ {0} /\ DOMAIN stack = 1 .. n /\ new \in Call
    BY <1>1, <1>2, TopCall DEF Call
<1>. HIDE DEF new
<1>4. /\ stack' \in Seq(Call) /\ Len(stack') = n + 1
      /\ DOMAIN stack' = 1 .. n + 1
      /\ \A i \in 1 .. n : stack'[i] = Resumed[i]
      /\ stack'[n + 1] = new
  <2>1. Resumed \in Seq(Call) /\ Len(Resumed) = n
      BY <1>1, ResumedElements
  <2>2. /\ stack' \in Seq(Call) /\ Len(stack') = n + 1
        /\ \A i \in 1 .. n : stack'[i] = Resumed[i]
        /\ stack'[n + 1] = new
      BY <1>1, <1>3, <2>1, AppendProperties
  <2>. QED BY <2>2, LenProperties
<1>5. /\ \A i \in 1 .. n :
            /\ stack'[i].path = stack[i].path
            /\ stack'[i].line = IF i = n THEN Line ELSE stack[i].line
      /\ stack'[n + 1].path = found /\ stack'[n + 1].line = 0
  <2>1. new.path = found /\ new.line = 0
      BY DEF new
  <2>. QED BY <1>1, <1>4, <2>1, ResumedElements
<1>6. \A i \in 1 .. n : stack[i].path # found
    BY <1>1, <1>3 DEF Inv, SeenInv, Active
<1>7. StackInv'
  <2>1. ASSUME NEW i \in 1 .. n + 1, NEW j \in 1 .. n + 1
        PROVE  /\ i <= j => stack'[j].path \in Unit(stack'[i].path)
               /\ stack'[i].path = stack'[j].path => i = j
    <3>1. CASE i \in 1 .. n /\ j \in 1 .. n
      <4>1. /\ i <= j => stack[j].path \in Unit(stack[i].path)
            /\ stack[i].path = stack[j].path => i = j
          BY <3>1, StackPairs
      <4>. QED BY <1>5, <3>1, <4>1
    <3>2. CASE i \in 1 .. n /\ j = n + 1
        BY <1>2, <1>5, <1>6, <3>2
    <3>3. CASE i = n + 1 /\ j \in 1 .. n
      <4>1. ~(i <= j)
          BY <1>3, <3>3
      <4>. QED BY <1>5, <1>6, <3>3, <4>1
    <3>4. CASE i = n + 1 /\ j = n + 1
        BY <1>2, <1>5, <3>4
    <3>. QED BY <1>3, <3>1, <3>2, <3>3, <3>4
  <2>2. ASSUME NEW i \in 1 .. n + 1, NEW j \in 1 .. n + 1, i <= j
        PROVE  stack'[j].path \in Unit(stack[i].path)'
    <3>1. stack'[j].path \in Unit(stack'[i].path)
        BY <2>1, <2>2
    <3>2. Unit(stack[i].path)' = Unit(stack'[i].path)
        BY <1>1, TreeKept
    <3>. QED BY <3>1, <3>2
  <2>3. stack'[1].path = Root
    <3>1. stack[1].path = Root
        BY <1>1 DEF Inv, StackInv
    <3>2. 1 \in 1 .. n
        BY <1>3
    <3>. QED BY <1>5, <3>1, <3>2
  <2>4. stack' # <<>>
      BY <1>3, <1>4
  <2>. QED BY <1>1, <1>4, <2>1, <2>2, <2>3, <2>4 DEF StackInv
<1>8. TypeOK'
  <2>1. \A i, j \in DOMAIN stack' : stack'[i].path = stack'[j].path => i = j
      BY <1>7 DEF StackInv
  <2>2. Len(stack') <= Cardinality(Path)
      BY <1>4, <2>1, StackBound DEF Inv, TypeOK, Call
  <2>. QED BY <1>1, <1>2, <1>4, <2>2 DEF Inv, TypeOK, Call
<1>9. SeenInv'
  <2>1. Active' = Active \cup {found}
    <3>1. \A q : q \in Active' <=> \E i \in 1 .. n + 1 : q = stack'[i].path
        BY <1>4 DEF Active
    <3>2. \A q : q \in Active <=> \E i \in 1 .. n : q = stack[i].path
        BY <1>3 DEF Active
    <3>3. /\ \A i \in 1 .. n + 1 : i \in 1 .. n \/ i = n + 1
          /\ \A i \in 1 .. n : i \in 1 .. n + 1
          /\ n + 1 \in 1 .. n + 1
        BY <1>3
    <3>. QED BY <1>5, <3>1, <3>2, <3>3
  <2>2. found \notin ToSet(order)
      BY <1>1 DEF Inv, SeenInv
  <2>. QED BY <1>1, <1>2, <2>1, <2>2, TreeKept DEF Inv, SeenInv
<1>10. FollowedInv'
  <2>1. ASSUME NEW i \in 1 .. n PROVE Followed(stack[i].path, stack[i].line)'
    <3>1. CASE i = n
        BY <1>1, <1>5, <3>1, TopCall, FollowedMore
    <3>2. CASE i # n
      <4>1. Followed(stack[i].path, stack[i].line)
          BY <1>3 DEF Inv, FollowedInv
      <4>. QED BY <1>1, <1>5, <3>2, <4>1, FollowedKept
    <3>. QED BY <3>1, <3>2
  <2>2. Followed(stack[n + 1].path, stack[n + 1].line)'
    <3>1. Followed(found, 0)
      <4>1. Len(tree[found]) \in Nat
          BY <1>2, FileLines DEF Inv
      <4>. QED BY <4>1 DEF Followed
    <3>2. Followed(found, 0)'
        BY <1>1, <3>1, FollowedKept
    <3>. QED BY <1>5, <3>2
  <2>3. ASSUME NEW k \in DOMAIN order PROVE Followed(order[k], Len(tree[order[k]]))'
      BY <1>1, FollowedKept DEF Inv, FollowedInv
  <2>4. \A i \in 1 .. n + 1 : i \in 1 .. n \/ i = n + 1
      BY <1>3
  <2>5. ASSUME NEW i \in 1 .. n + 1 PROVE Followed(stack[i].path, stack[i].line)'
      BY <2>1, <2>2, <2>4
  <2>. QED BY <1>1, <1>4, <2>3, <2>5 DEF FollowedInv
<1>11. EndInv'
    BY <1>1, TreeKept DEF Inv, EndInv
<1>12. DependencyFirst'
    BY <1>1, OrderKept
<1>. QED BY <1>7, <1>8, <1>9, <1>10, <1>11, <1>12 DEF Inv

LEMMA FailStep == Inv /\ Fail => Inv'
<1>. SUFFICES ASSUME Inv, Fail PROVE Inv'
    OBVIOUS
<1>1. /\ pc \in {"start", "visit"} /\ pc' = "error" /\ tree' = tree
      /\ stack' = stack /\ seen' = seen /\ order' = order /\ emitted' = emitted
    BY DEF Fail
<1>2. ~Complete
  <2>1. CASE Root \notin DOMAIN tree
      BY <2>1 DEF Complete
  <2>2. CASE /\ pc = "visit" /\ Line \in DOMAIN tree[Path_of]
             /\ Missing(Path_of, Name)
    <3>1. Opened(Path_of, tree[Path_of][Line]) = {}
        BY <2>2, FindFile DEF Name
    <3>2. Path_of \in Unit(Root)
        BY <2>2, TopCall
    <3>. QED BY <2>2, <3>1, <3>2 DEF Complete
  <2>. QED BY <2>1, <2>2 DEF Fail
<1>3. TypeOK'
    BY <1>1 DEF Inv, TypeOK
<1>4. StackInv'
    BY <1>1, TreeKept DEF Inv, StackInv
<1>5. SeenInv'
    BY <1>1, TreeKept DEF Inv, SeenInv, Active
<1>6. FollowedInv'
    BY <1>1, FollowedKept DEF Inv, FollowedInv
<1>7. EndInv'
    BY <1>1, <1>2, TreeKept DEF Inv, EndInv
<1>8. DependencyFirst'
    BY <1>1, OrderKept
<1>. QED BY <1>3, <1>4, <1>5, <1>6, <1>7, <1>8 DEF Inv

\* When visit leaves a file, what the file includes was left before it, or is
\* still being visited and leads back to it.
LEMMA FinishStep == Inv /\ Finish => Inv'
<1>. SUFFICES ASSUME Inv, Finish,
                     NEW n, n = Len(stack), NEW m, m = Len(order),
                     NEW top, top = Path_of
              PROVE  Inv'
    OBVIOUS
<1>1. /\ pc = "visit" /\ tree' = tree /\ seen' = seen /\ emitted' = emitted
      /\ order' = Append(order, top) /\ stack' = Front(stack)
      /\ pc' = IF n = 1 THEN "emit" ELSE "visit"
      /\ Line \notin DOMAIN tree[top]
    BY DEF Finish
<1>2. /\ n \in Nat \ {0} /\ DOMAIN stack = 1 .. n
      /\ top \in DOMAIN tree /\ top = stack[n].path /\ top \in Active
      /\ stack \in Seq(Call)
      /\ \A i \in 1 .. n : top \in Unit(stack[i].path)
    BY <1>1, TopCall DEF Inv, TypeOK, Call
<1>3. m \in Nat /\ DOMAIN order = 1 .. m /\ order \in Seq(DOMAIN tree)
    BY DEF Inv, TypeOK
<1>4. /\ order' \in Seq(DOMAIN tree) /\ Len(order') = m + 1
      /\ DOMAIN order' = 1 .. m + 1
      /\ \A k \in 1 .. m : order'[k] = order[k]
      /\ order'[m + 1] = top
    BY <1>1, <1>2, <1>3, AppendProperties, LenProperties
<1>5. /\ stack' \in Seq(Call) /\ Len(stack') = n - 1
      /\ DOMAIN stack' = 1 .. n - 1
      /\ \A i \in 1 .. n - 1 : stack'[i] = stack[i] /\ i \in 1 .. n /\ i # n
  <2>1. /\ stack' \in Seq(Call) /\ Len(stack') = n - 1
        /\ \A i \in 1 .. n - 1 : stack'[i] = stack[i]
      BY <1>1, <1>2, FrontElements, EmptySeq
  <2>2. \A i \in 1 .. n - 1 : i \in 1 .. n /\ i # n
      BY <1>2
  <2>. QED BY <2>1, <2>2, LenProperties
<1>6. /\ \A k \in 1 .. m + 1 : k \in 1 .. m \/ k = m + 1
      /\ \A k \in 1 .. m : k \in 1 .. m + 1 /\ k # m + 1
      /\ m + 1 \in 1 .. m + 1
    BY <1>3
<1>7. Followed(top, Len(tree[top]))
  <2>1. Followed(top, Line - 1) /\ Line \in Nat \ {0}
      BY <1>1, TopCall
  <2>2. Line \notin 1 .. Len(tree[top]) /\ Len(tree[top]) \in Nat
      BY <1>1, <1>2, FileLines DEF Inv
  <2>3. Line - 1 = Len(tree[top])
      BY <2>1, <2>2 DEF Followed
  <2>. QED BY <2>1, <2>3
<1>8. stack[1].path = Root /\ 1 \in 1 .. n
  <2>1. stack[1].path = Root
      BY <1>1 DEF Inv, StackInv
  <2>. QED BY <1>2, <2>1
<1>9. StackInv'
  <2>1. ASSUME NEW i \in 1 .. n - 1, NEW j \in 1 .. n - 1
        PROVE  /\ i <= j => stack'[j].path \in Unit(stack[i].path)'
               /\ stack'[i].path = stack'[j].path => i = j
    <3>1. /\ i <= j => stack[j].path \in Unit(stack[i].path)
          /\ stack[i].path = stack[j].path => i = j
        BY <1>5, StackPairs
    <3>2. stack'[i].path = stack[i].path /\ stack'[j].path = stack[j].path
        BY <1>5
    <3>. QED BY <1>1, <3>1, <3>2, TreeKept
  <2>2. n = 1 => stack' = <<>>
    <3>1. n = 1 => Len(stack') = 0
        BY <1>5
    <3>. QED BY <1>5, <3>1, EmptySeq
  <2>3. n # 1 => stack' # <<>> /\ 1 \in 1 .. n - 1
    <3>1. n \in Nat \ {0} /\ Len(stack') = n - 1
        BY <1>2, <1>5
    <3>2. n # 1 => Len(stack') # 0 /\ 1 \in 1 .. n - 1
        BY <3>1
    <3>. QED BY <3>2
  <2>4. stack' # <<>> => stack'[1].path = Root
      BY <1>5, <1>8, <2>2, <2>3
  <2>. QED BY <1>1, <1>5, <2>1, <2>2, <2>3, <2>4 DEF StackInv
<1>10. TypeOK'
  <2>1. Len(stack') <= Cardinality(Path)
    <3>1. \A i, j \in DOMAIN stack' : stack'[i].path = stack'[j].path => i = j
        BY <1>9 DEF StackInv
    <3>. QED BY <1>5, <3>1, StackBound DEF Inv, TypeOK, Call
  <2>2. emitted' = <<>> /\ emitted' \in Seq(DOMAIN tree)
      BY <1>1 DEF Inv, EndInv
  <2>3. IsPrefix(emitted', order')
    <3>1. Len(emitted') = 0 /\ Len(emitted') <= Len(order')
        BY <1>3, <1>4, <2>2
    <3>2. \A i \in 1 .. Len(emitted') : emitted'[i] = order'[i]
        BY <3>1
    <3>. QED BY <1>4, <2>2, <3>1, <3>2, PrefixElements
  <2>. QED BY <1>1, <1>4, <1>5, <2>1, <2>2, <2>3 DEF Inv, TypeOK, Call
<1>11. SeenInv'
  <2>1. ToSet(order') = ToSet(order) \cup {top}
    <3>1. \A q : q \in ToSet(order') <=> \E k \in 1 .. m + 1 : q = order'[k]
        BY <1>4 DEF ToSet
    <3>2. \A q : q \in ToSet(order) <=> \E k \in 1 .. m : q = order[k]
        BY <1>3 DEF ToSet
    <3>. QED BY <1>4, <1>6, <3>1, <3>2
  <2>2. Active = Active' \cup {top} /\ top \notin Active'
    <3>1. \A q : q \in Active' <=> \E i \in 1 .. n - 1 : q = stack[i].path
        BY <1>5 DEF Active
    <3>2. \A q : q \in Active <=> \E i \in 1 .. n : q = stack[i].path
        BY <1>2 DEF Active
    <3>3. \A i \in 1 .. n : i \in 1 .. n - 1 \/ i = n
        BY <1>2
    <3>4. \A i \in 1 .. n - 1 : stack[i].path # top
      <4>1. \A i, j \in 1 .. n : stack[i].path = stack[j].path => i = j
          BY StackPairs
      <4>2. n \in 1 .. n
          BY <1>2
      <4>. QED BY <1>2, <1>5, <4>1, <4>2
    <3>5. n \in 1 .. n
        BY <1>2
    <3>6. \A q : q \in Active <=> q \in Active' \/ q = top
      <4>1. \A i \in 1 .. n - 1 : i \in 1 .. n
          BY <1>5
      <4>. QED BY <1>2, <3>1, <3>2, <3>3, <3>5, <4>1
    <3>7. top \notin Active'
        BY <3>1, <3>4
    <3>. QED BY <3>6, <3>7
  <2>3. top \notin ToSet(order)
      BY <1>2 DEF Inv, SeenInv
  <2>4. IsInjective(order')
    <3>1. \A k \in 1 .. m : order[k] # top
        BY <1>3, <2>3 DEF ToSet
    <3>2. \A k, l \in 1 .. m : order[k] = order[l] => k = l
        BY <1>3 DEF Inv, SeenInv, IsInjective
    <3>3. \A k, l \in 1 .. m + 1 : order'[k] = order'[l] => k = l
        BY <1>4, <1>6, <3>1, <3>2
    <3>. QED BY <1>4, <3>3 DEF IsInjective
  <2>5. /\ seen' = ToSet(order') \cup Active'
        /\ ToSet(order') \cap Active' = {}
      BY <1>1, <2>1, <2>2, <2>3 DEF Inv, SeenInv
  <2>6. (seen \subseteq Unit(Root))'
      BY <1>1, TreeKept DEF Inv, SeenInv
  <2>. QED BY <2>4, <2>5, <2>6 DEF SeenInv
<1>12. FollowedInv'
  <2>1. ASSUME NEW i \in 1 .. n - 1 PROVE Followed(stack[i].path, stack[i].line)'
    <3>1. Followed(stack[i].path, stack[i].line)
        BY <1>2, <1>5 DEF Inv, FollowedInv
    <3>. QED BY <1>1, <1>5, <3>1, FollowedKept
  <2>2. ASSUME NEW k \in 1 .. m + 1 PROVE Followed(order[k], Len(tree[order[k]]))'
    <3>1. CASE k \in 1 .. m
      <4>1. Followed(order[k], Len(tree[order[k]]))
          BY <1>3, <3>1 DEF Inv, FollowedInv
      <4>. QED BY <1>1, <1>4, <3>1, <4>1, FollowedKept
    <3>2. CASE k = m + 1
        BY <1>1, <1>4, <1>7, <3>2, FollowedKept
    <3>. QED BY <1>6, <3>1, <3>2
  <2>. QED BY <1>4, <1>5, <2>1, <2>2 DEF FollowedInv
<1>13. EndInv'
  <2>1. order' # <<>>
      BY <1>3, <1>4
  <2>2. n = 1 => Last(order') = Root
      BY <1>2, <1>4, <1>8 DEF Last
  <2>. QED BY <1>1, <2>1, <2>2, TreeKept DEF Inv, EndInv
<1>14. DependencyFirst'
  <2>1. ASSUME NEW k \in 1 .. m + 1, NEW path \in Includes(order'[k])
        PROVE  (\E j \in 1 .. k - 1 : order'[j] = path) \/ order'[k] \in Unit(path)
    <3>1. CASE k \in 1 .. m
      <4>1. (\E j \in 1 .. k - 1 : order[j] = path) \/ order[k] \in Unit(path)
          BY <1>3, <1>4, <3>1 DEF Inv, DependencyFirst
      <4>2. \A j \in 1 .. k - 1 : j \in 1 .. m
          BY <1>3, <3>1
      <4>. QED BY <1>4, <3>1, <4>1, <4>2
    <3>2. CASE k = m + 1
      <4>1. path \in seen
          BY <1>2, <1>4, <1>7, <3>2, AllFollowed DEF Inv
      <4>2. CASE path \in ToSet(order)
        <5>1. PICK j \in 1 .. m : order[j] = path
            BY <1>3, <4>2 DEF ToSet
        <5>2. j \in 1 .. k - 1
            BY <1>3, <3>2
        <5>. QED BY <1>4, <5>1, <5>2
      <4>3. CASE path \in Active
        <5>1. PICK i \in 1 .. n : stack[i].path = path
            BY <1>2, <4>3 DEF Active
        <5>. QED BY <1>2, <1>4, <3>2, <5>1
      <4>. QED BY <4>1, <4>2, <4>3 DEF Inv, SeenInv
    <3>. QED BY <1>6, <3>1, <3>2
  <2>2. \A k, path : path \in Includes(order[k])' <=> path \in Includes(order'[k])
      BY <1>1, TreeKept
  <2>3. \A k, path : (order[k] \in Unit(path))' <=> order'[k] \in Unit(path)
      BY <1>1, TreeKept
  <2>4. pc' # "done"
      BY <1>1
  <2>. QED BY <1>4, <2>1, <2>2, <2>3, <2>4 DEF DependencyFirst
<1>. QED BY <1>9, <1>10, <1>11, <1>12, <1>13, <1>14 DEF Inv

LEMMA EmitStep == Inv /\ Emit => Inv'
<1>. SUFFICES ASSUME Inv, Emit, NEW e, e = Len(emitted) PROVE Inv'
    OBVIOUS
<1>1. /\ pc = "emit" /\ pc' = pc /\ tree' = tree /\ seen' = seen
      /\ order' = order /\ stack' = stack
      /\ e < Len(order) /\ emitted' = Append(emitted, order[e + 1])
    BY DEF Emit
<1>2. /\ order \in Seq(DOMAIN tree) /\ emitted \in Seq(DOMAIN tree)
      /\ e \in Nat /\ Len(order) \in Nat
      /\ e <= Len(order) /\ \A i \in 1 .. e : emitted[i] = order[i]
    BY PrefixElements DEF Inv, TypeOK
<1>3. order[e + 1] \in DOMAIN tree
  <2>1. e + 1 \in 1 .. Len(order)
      BY <1>1, <1>2
  <2>. QED BY <1>2, <2>1, ElementOfSeq
<1>4. /\ emitted' \in Seq(DOMAIN tree) /\ Len(emitted') = e + 1
      /\ \A i \in 1 .. e : emitted'[i] = emitted[i]
      /\ emitted'[e + 1] = order[e + 1]
    BY <1>1, <1>2, <1>3, AppendProperties
<1>5. IsPrefix(emitted', order)
  <2>1. \A i \in 1 .. e + 1 : i \in 1 .. e \/ i = e + 1
      BY <1>2
  <2>2. \A i \in 1 .. e + 1 : emitted'[i] = order[i]
      BY <1>2, <1>4, <2>1
  <2>3. Len(emitted') <= Len(order)
      BY <1>1, <1>2, <1>4
  <2>. QED BY <1>2, <1>4, <2>2, <2>3, PrefixElements
<1>6. TypeOK'
    BY <1>1, <1>4, <1>5 DEF Inv, TypeOK
<1>7. StackInv'
    BY <1>1, TreeKept DEF Inv, StackInv
<1>8. SeenInv'
    BY <1>1, TreeKept DEF Inv, SeenInv, Active
<1>9. FollowedInv'
    BY <1>1, FollowedKept DEF Inv, FollowedInv
<1>10. EndInv'
    BY <1>1, TreeKept DEF Inv, EndInv
<1>11. DependencyFirst'
    BY <1>1, OrderKept
<1>. QED BY <1>6, <1>7, <1>8, <1>9, <1>10, <1>11 DEF Inv

LEMMA ReturnStep == Inv /\ Return => Inv'
<1>. SUFFICES ASSUME Inv, Return PROVE Inv'
    OBVIOUS
<1>1. /\ pc = "emit" /\ pc' = "done" /\ tree' = tree /\ seen' = seen
      /\ order' = order /\ stack' = stack /\ emitted' = emitted
      /\ Len(emitted) = Len(order)
    BY DEF Return
<1>2. TypeOK'
    BY <1>1 DEF Inv, TypeOK
<1>3. StackInv'
    BY <1>1, TreeKept DEF Inv, StackInv
<1>4. SeenInv'
    BY <1>1, TreeKept DEF Inv, SeenInv, Active
<1>5. FollowedInv'
    BY <1>1, FollowedKept DEF Inv, FollowedInv
<1>6. EndInv'
    BY <1>1, TreeKept DEF Inv, EndInv
<1>7. DependencyFirst'
    BY <1>1, OrderKept DEF Inv, EndInv
<1>. QED BY <1>2, <1>3, <1>4, <1>5, <1>6, <1>7 DEF Inv

LEMMA StutterStep == Inv /\ UNCHANGED vars => Inv'
<1>. SUFFICES ASSUME Inv, UNCHANGED vars PROVE Inv'
    OBVIOUS
<1>1. /\ pc' = pc /\ tree' = tree /\ seen' = seen
      /\ order' = order /\ stack' = stack /\ emitted' = emitted
    BY DEF vars
<1>2. TypeOK'
    BY <1>1 DEF Inv, TypeOK
<1>3. StackInv'
    BY <1>1, TreeKept DEF Inv, StackInv
<1>4. SeenInv'
    BY <1>1, TreeKept DEF Inv, SeenInv, Active
<1>5. FollowedInv'
    BY <1>1, FollowedKept DEF Inv, FollowedInv
<1>6. EndInv'
    BY <1>1, TreeKept DEF Inv, EndInv
<1>7. DependencyFirst'
    BY <1>1, OrderKept DEF Inv, DependencyFirst
<1>. QED BY <1>2, <1>3, <1>4, <1>5, <1>6, <1>7 DEF Inv

-----------------------------------------------------------------------------
(* Theorems.                                                               *)

\* Inv holds in every state, whatever the tree of files is: the traversal of
\* include_order_for and what main makes of it.
THEOREM Invariance == Spec => []Inv
<1>1. Init => Inv
    BY InitInv
<1>2. Inv /\ [Next]_vars => Inv'
    BY StartStep, AgainStep, IncludeStep, FinishStep, FailStep, EmitStep,
       ReturnStep, StutterStep DEF Next
<1>. QED BY <1>1, <1>2, PTL DEF Spec

\* Values have their types, and visit is never deeper than there are files.
THEOREM TypeCorrect == Spec => []TypeOK
<1>1. Inv => TypeOK
    BY DEF Inv
<1>. QED BY <1>1, Invariance, PTL

\* A file of the order comes after what it includes, but for cycles, and the root
\* comes last, in the header that amalgamate.py prints.
THEOREM DependenciesComeFirst == Spec => []DependencyFirst
<1>1. Inv => DependencyFirst
    BY DEF Inv
<1>. QED BY <1>1, Invariance, PTL

\* When visit has returned from the root, the order is the translation unit of
\* the root, and nothing in it is missing.
LEMMA OrderIsUnit ==
    ASSUME Inv, pc \in {"emit", "done"}
    PROVE  ToSet(order) = Unit(Root) /\ Complete
<1>1. /\ stack = <<>> /\ order # <<>> /\ Last(order) = Root
      /\ order \in Seq(DOMAIN tree)
    BY DEF Inv, TypeOK, StackInv, EndInv
<1>2. seen = ToSet(order)
    BY <1>1 DEF Inv, SeenInv, Active
<1>3. Len(order) \in Nat \ {0} /\ DOMAIN order = 1 .. Len(order)
    BY <1>1, EmptySeq
<1>4. Root \in ToSet(order)
  <2>1. Len(order) \in 1 .. Len(order)
      BY <1>3
  <2>. QED BY <1>1, <1>3, <2>1 DEF ToSet, Last
<1>5. ToSet(order) \in SUBSET DOMAIN tree
    BY <1>2 DEF Inv, TypeOK
<1>6. ASSUME NEW path \in ToSet(order)
      PROVE  /\ Includes(path) \subseteq ToSet(order)
             /\ \A i \in DOMAIN tree[path] : Opened(path, tree[path][i]) # {}
  <2>1. Followed(path, Len(tree[path]))
      BY <1>6 DEF Inv, FollowedInv, ToSet
  <2>. QED BY <1>2, <1>5, <2>1, AllFollowed DEF Inv
<1>7. Unit(Root) \subseteq ToSet(order)
    BY <1>4, <1>5, <1>6, UnitLeast DEF Closed
<1>8. ToSet(order) = Unit(Root)
    BY <1>2, <1>7 DEF Inv, SeenInv
<1>. QED BY <1>4, <1>5, <1>6, <1>8 DEF Complete

\* The single header is the translation unit, each of its files once.
THEOREM EachFileOnce == Spec => []ExactlyOnce
<1>1. Inv => ExactlyOnce
  <2>. SUFFICES ASSUME Inv, pc = "done" PROVE ToSet(emitted) = ToSet(order)
      BY OrderIsUnit DEF Inv, SeenInv, ExactlyOnce
  <2>1. /\ order \in Seq(DOMAIN tree) /\ emitted \in Seq(DOMAIN tree)
        /\ Len(emitted) = Len(order)
      BY DEF Inv, TypeOK, EndInv
  <2>2. \A i \in 1 .. Len(emitted) : emitted[i] = order[i]
      BY <2>1, PrefixElements DEF Inv, TypeOK
  <2>. QED BY <2>1, <2>2 DEF ToSet
<1>. QED BY <1>1, Invariance, PTL

\* An order is printed only if each include of the unit is found, and if main
\* fails, one is not, and nothing has been printed.
THEOREM PrintsAllOrNothing == Spec => []AllOrNothing
<1>1. Inv => AllOrNothing
    BY OrderIsUnit DEF Inv, EndInv, AllOrNothing
<1>. QED BY <1>1, Invariance, PTL
=============================================================================
