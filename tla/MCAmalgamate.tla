---------------------------- MODULE MCAmalgamate ----------------------------
(* Every tree of up to four files in two directories, with up to two       *)
(* includes each: two files of the same name, one of them shadowed from    *)
(* some includers, diamonds, cycles, self-includes, missing files.         *)
EXTENDS Amalgamate

CONSTANTS src, inc, main, x, y

FourPaths == {<<src, main>>, <<src, x>>, <<inc, x>>, <<inc, y>>}
RootPath == <<src, main>>
SrcThenInc == <<src, inc>>
UpToTwo == {<<>>, <<x>>, <<y>>, <<main>>, <<x, y>>, <<y, x>>, <<x, main>>}
=============================================================================
