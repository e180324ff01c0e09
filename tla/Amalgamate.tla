----------------------------- MODULE Amalgamate -----------------------------
(***************************************************************************)
(* amalgamate.py: the single header is the root file and the files it      *)
(* includes, each once, in the order in which a depth-first traversal      *)
(* leaves them.  What is on the disk is any tree of files over the paths   *)
(* of Path; of a file, only the quoted includes are kept, in order.  Every *)
(* file can be read and is UTF-8: the errors that main does not catch are  *)
(* left out.                                                               *)
(***************************************************************************)
EXTENDS Naturals, FiniteSets, SequencesExt

CONSTANTS
    Path,           \* the paths at which there may be a file: <<directory, name>>
    Root,           \* the root file
    SearchPaths,    \* search_paths, a sequence of directories
    Contents        \* what files may be made of: sequences of names

ASSUME PathsAssumption ==
    /\ IsFiniteSet(Path)
    /\ Root \in Path
    /\ SearchPaths \in Seq(ToSet(SearchPaths))
    /\ \A lines \in Contents : lines \in Seq(ToSet(lines))

VARIABLES
    tree,       \* the files there are, and their includes
    pc,         \* "start", "visit", "emit", "done" or "error"
    stack,      \* the calls of visit: the file, and how many includes are done
    seen, order,
    emitted     \* the files written to standard output

vars == <<tree, pc, stack, seen, order, emitted>>

-----------------------------------------------------------------------------
Parent(path) == path[1]

\* Definitions named Slip... are plausible mistakes in the definition that
\* follows them; no specification uses them.

\* Only the search paths are looked in.
SlipSearch(path) == SearchPaths

\* [path.parent, *search_paths]
Search(path) == <<Parent(path)>> \o SearchPaths

\* The first place of the search at which there is a file of that name, or 0.
Place(path, name) ==
    SelectInSeq(Search(path), LAMBDA dir : <<dir, name>> \in DOMAIN tree)

Missing(path, name) == Place(path, name) = 0

find_file(path, name) == <<Search(path)[Place(path, name)], name>>

Init ==
    /\ \E files \in SUBSET Path : tree \in [files -> Contents]
    /\ pc = "start"
    /\ stack = <<>>
    /\ seen = {}
    /\ order = <<>>
    /\ emitted = <<>>

\* visit(root), which fails to open a root that is not there.
Start ==
    /\ pc = "start"
    /\ Root \in DOMAIN tree
    /\ seen' = {Root}
    /\ stack' = <<[path |-> Root, line |-> 0]>>
    /\ pc' = "visit"
    /\ UNCHANGED <<tree, order, emitted>>

Path_of == Last(stack).path
Line == Last(stack).line + 1
Name == tree[Path_of][Line]

\* The loop of the caller, one include further.
Resumed == [stack EXCEPT ![Len(stack)].line = Line]

\* A file is seen when its visit is over, so a cycle is never noticed.
SlipInclude ==
    /\ pc = "visit"
    /\ Line \in DOMAIN tree[Path_of]
    /\ ~Missing(Path_of, Name)
    /\ LET found == find_file(Path_of, Name)
       IN  stack' = IF \E i \in DOMAIN order : order[i] = found
                    THEN Resumed ELSE Append(Resumed, [path |-> found, line |-> 0])
    /\ Len(stack) <= Cardinality(Path)
    /\ UNCHANGED <<tree, pc, seen, order, emitted>>

\* A file that was seen is found, and visit returns at once.
Again ==
    /\ pc = "visit"
    /\ Line \in DOMAIN tree[Path_of]
    /\ ~Missing(Path_of, Name)
    /\ find_file(Path_of, Name) \in seen
    /\ stack' = Resumed
    /\ UNCHANGED <<tree, pc, seen, order, emitted>>

\* A file is found and visited before the next line is read.
Include ==
    /\ pc = "visit"
    /\ Line \in DOMAIN tree[Path_of]
    /\ ~Missing(Path_of, Name)
    /\ LET found == find_file(Path_of, Name)
       IN  /\ found \notin seen
           /\ seen' = seen \cup {found}
           /\ stack' = Append(Resumed, [path |-> found, line |-> 0])
    /\ UNCHANGED <<tree, pc, order, emitted>>

\* The order is built from the front.
SlipFinish ==
    /\ pc = "visit"
    /\ Line \notin DOMAIN tree[Path_of]
    /\ order' = <<Path_of>> \o order
    /\ stack' = Front(stack)
    /\ pc' = IF Len(stack) = 1 THEN "emit" ELSE "visit"
    /\ UNCHANGED <<tree, seen, emitted>>

\* The end of the file: order.append(path), and visit returns.
Finish ==
    /\ pc = "visit"
    /\ Line \notin DOMAIN tree[Path_of]
    /\ order' = Append(order, Path_of)
    /\ stack' = Front(stack)
    /\ pc' = IF Len(stack) = 1 THEN "emit" ELSE "visit"
    /\ UNCHANGED <<tree, seen, emitted>>

\* An include that is not found is skipped, as a system header is.
SlipFail ==
    \/ /\ pc = "start" /\ Root \notin DOMAIN tree
       /\ pc' = "error"
       /\ UNCHANGED <<tree, stack, seen, order, emitted>>
    \/ /\ pc = "visit"
       /\ Line \in DOMAIN tree[Path_of]
       /\ Missing(Path_of, Name)
       /\ stack' = Resumed
       /\ UNCHANGED <<tree, pc, seen, order, emitted>>

\* FileNotFoundError, from find_file or path.open: sys.exit.
Fail ==
    /\ \/ pc = "start" /\ Root \notin DOMAIN tree
       \/ /\ pc = "visit"
          /\ Line \in DOMAIN tree[Path_of]
          /\ Missing(Path_of, Name)
    /\ pc' = "error"
    /\ UNCHANGED <<tree, stack, seen, order, emitted>>

\* One file of the order is printed.
Emit ==
    /\ pc = "emit"
    /\ Len(emitted) < Len(order)
    /\ emitted' = Append(emitted, order[Len(emitted) + 1])
    /\ UNCHANGED <<tree, pc, stack, seen, order>>

Return ==
    /\ pc = "emit"
    /\ Len(emitted) = Len(order)
    /\ pc' = "done"
    /\ UNCHANGED <<tree, stack, seen, order, emitted>>

Next == Start \/ Again \/ Include \/ Finish \/ Fail \/ Emit \/ Return

Spec == Init /\ [][Next]_vars

\* The interpreter goes on.
FairSpec == Spec /\ WF_vars(Next)

-----------------------------------------------------------------------------
(* What the single header must be, from the tree alone.                    *)

\* The files a file includes, each the one a C preprocessor opens: that of the
\* includer's directory, or else of the first search path that has one.
Opened(path, name) ==
    LET there == {i \in DOMAIN SearchPaths : <<SearchPaths[i], name>> \in DOMAIN tree}
    IN  IF <<Parent(path), name>> \in DOMAIN tree THEN {<<Parent(path), name>>}
        ELSE {<<SearchPaths[i], name>> : i \in {j \in there : \A k \in there : j <= k}}

Includes(path) == UNION {Opened(path, tree[path][i]) : i \in DOMAIN tree[path]}

\* The files of the translation unit that path is the root of: the fewest that
\* have path and, with each file, the files it includes.
Closed(files) == \A path \in files : Includes(path) \subseteq files
Unit(path) ==
    {q \in DOMAIN tree : \A files \in SUBSET DOMAIN tree :
        path \in files /\ Closed(files) => q \in files}

\* Every include in it is found.
Complete ==
    /\ Root \in DOMAIN tree
    /\ \A path \in Unit(Root) : \A i \in DOMAIN tree[path] :
           Opened(path, tree[path][i]) # {}

-----------------------------------------------------------------------------
(* Properties.                                                             *)

\* Type invariant; visit is never deeper than there are files.
TypeOK ==
    /\ DOMAIN tree \subseteq Path
    /\ tree \in [DOMAIN tree -> Contents]
    /\ pc \in {"start", "visit", "emit", "done", "error"}
    /\ stack \in Seq([path : DOMAIN tree, line : Nat])
    /\ Len(stack) <= Cardinality(Path)
    /\ seen \subseteq DOMAIN tree
    /\ order \in Seq(DOMAIN tree) /\ emitted \in Seq(DOMAIN tree)
    /\ IsPrefix(emitted, order)

\* "each file appearing exactly once" (amalgamate.py:57): the header is the files
\* of the translation unit, none twice, though headers are reached along several
\* paths and in cycles, and the same name is another file in another directory.
ExactlyOnce ==
    /\ IsInjective(order)
    /\ pc = "done" => ToSet(emitted) = Unit(Root)

\* "dependency-first" (amalgamate.py:56): a file comes after each file it includes,
\* unless the two include each other in a cycle, where no order would do; and
\* even in a cycle the root comes last.
DependencyFirst ==
    /\ \A k \in DOMAIN order : \A path \in Includes(order[k]) :
           \/ \E j \in 1 .. k - 1 : order[j] = path
           \/ order[k] \in Unit(path)
    /\ pc = "done" => Last(order) = Root

\* amalgamate.py fails, before anything is printed, exactly if an include is
\* missing somewhere in the translation unit; otherwise it ends with the header.
Answers ==
    /\ Complete => <>(pc = "done")
    /\ ~Complete => <>(pc = "error" /\ emitted = <<>>)

\* The single header is all of the translation unit, or nothing is printed: the
\* order is printed only if each include is found (sys.exit before step 2 of
\* main, amalgamate.py:132), and a failure is due to one that is not.
AllOrNothing ==
    /\ pc \in {"emit", "done"} => Complete
    /\ pc = "error" => ~Complete /\ emitted = <<>>

-----------------------------------------------------------------------------
(* The inductive invariant.                                                *)

\* The files that are being visited.
Active == {stack[i].path : i \in DOMAIN stack}

\* The calls of visit: the first is for the root, each other was made, through
\* the calls below it, for a file of the unit of theirs, and none for a file
\* that is being visited already.
StackInv ==
    /\ pc = "visit" => stack # <<>>
    /\ pc \in {"start", "emit", "done"} => stack = <<>>
    /\ stack # <<>> => stack[1].path = Root
    /\ \A i, j \in DOMAIN stack :
           i <= j => stack[j].path \in Unit(stack[i].path)
    /\ \A i, j \in DOMAIN stack : stack[i].path = stack[j].path => i = j

\* What was seen is being visited or was left, once and not both, and is of the unit.
SeenInv ==
    /\ IsInjective(order)
    /\ seen = ToSet(order) \cup Active
    /\ ToSet(order) \cap Active = {}
    /\ seen \subseteq Unit(Root)

\* The first n includes of the file were found and visited, or begun to be.
Followed(path, n) ==
    /\ n <= Len(tree[path])
    /\ \A i \in 1 .. n :
           /\ Opened(path, tree[path][i]) # {}
           /\ Opened(path, tree[path][i]) \subseteq seen

\* Calls have followed the includes they have done, and files that were left
\* all of theirs.
FollowedInv ==
    /\ \A i \in DOMAIN stack : Followed(stack[i].path, stack[i].line)
    /\ \A k \in DOMAIN order : Followed(order[k], Len(tree[order[k]]))

\* The root is left last, nothing is printed before, and a failure has a cause.
EndInv ==
    /\ pc = "start" => order = <<>>
    /\ pc \in {"emit", "done"} => order # <<>> /\ Last(order) = Root
    /\ pc \notin {"emit", "done"} => emitted = <<>>
    /\ pc = "done" => Len(emitted) = Len(order)
    /\ pc = "error" => ~Complete

\* The inductive invariant of the traversal, which TLC checks here and
\* AmalgamateProofs proves: whatever the tree is, the files that
\* were left are closed but for those that are still being visited.
Inv == TypeOK /\ StackInv /\ SeenInv /\ FollowedInv /\ EndInv /\ DependencyFirst
=============================================================================
