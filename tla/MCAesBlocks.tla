---------------------------- MODULE MCAesBlocks -----------------------------
(* AesBlocks for vectors of two halves with lanes of one bit, all pairs of *)
(* counters, and keys that are symmetric in both halves, one or none.      *)
EXTENDS AesBlocks

CONSTANTS lo, hi

P(x, y) == [l \in {0, 1} |-> IF l = 0 THEN x ELSE y]
V(p, q) == [h \in Half |-> IF h = lo THEN p ELSE q]

O == {}
I == {0}

\* The complement, and the complement with the lanes swapped.
Complement == [p \in Pair |-> P(I \ p[0], I \ p[1])]
SwappedComplement == [p \in Pair |-> P(I \ p[1], I \ p[0])]

FiveKeys == {V(P(O, O), P(I, I)), V(P(I, I), P(O, I)), V(P(I, O), P(I, I)),
             V(P(O, I), P(I, O)), V(P(I, I), P(I, I))}
=============================================================================
