------------------------- MODULE NearlyDivisionless -------------------------
(***************************************************************************)
(* randp_lt_u32 and randp_lt_u64 of src/src/randp.c over Lemire's nearly   *)
(* divisionless algorithm of src/src/nearlydivisionless.h: an integer      *)
(* below an upper bound from as many draws of randp_u32 (randp_u64) as it  *)
(* takes.  The two widths are the same code; W is the number of values of  *)
(* the word type T, 2^32 or 2^64.  The double-width product never wraps,   *)
(* since it is below W * W; (T)product and -s do.                          *)
(***************************************************************************)
EXTENDS Naturals, FiniteSets

CONSTANT W      \* the number of values of T

ASSUME WAssumption == W \in Nat /\ W > 1

VARIABLES
    pc,         \* where the call is
    s,          \* the upper bound
    product,    \* the local product, of type T2
    threshold,  \* the local threshold
    result      \* what the last call returned

vars == <<pc, s, product, threshold, result>>

T == 0 .. W - 1

Low(prod) == prod % W           \* (T)product
High(prod) == prod \div W       \* product >> bit_width

\* Definitions named Slip... are plausible mistakes in the definition that
\* follows them; no specification uses them.

\* The remainder is taken of 2^L - 1.
SlipThreshold(b) == (W - 1) % b

\* (-s) % s, in the arithmetic of T.
Threshold(b) == ((W - b) % W) % b

\* What the if and the while let through.
Accepted(prod, b) == Low(prod) >= b \/ Low(prod) >= Threshold(b)

Init ==
    /\ pc = "idle"
    /\ s = 0
    /\ product = 0
    /\ threshold = 0
    /\ result = 0

\* randp_lt_*: an upper bound of 0 or 1 is answered without a draw.
Call(b) ==
    /\ pc \in {"idle", "done"}
    /\ s' = b
    /\ product' = 0
    /\ threshold' = 0
    /\ result' = 0
    /\ pc' = IF b <= 1 THEN "done" ELSE "draw"

\* The first draw, and the test that decides whether to divide at all.
Draw(x) ==
    /\ pc = "draw"
    /\ product' = x * s
    /\ pc' = IF Low(x * s) < s THEN "divide" ELSE "return"
    /\ UNCHANGED <<s, threshold, result>>

Divide ==
    /\ pc = "divide"
    /\ threshold' = Threshold(s)
    /\ pc' = "while"
    /\ UNCHANGED <<s, product, result>>

\* The loop draws again without storing the product.
SlipRedraw(x) ==
    /\ pc = "while"
    /\ Low(product) < threshold
    /\ UNCHANGED vars

\* The body of the while.
Redraw(x) ==
    /\ pc = "while"
    /\ Low(product) < threshold
    /\ product' = x * s
    /\ UNCHANGED <<pc, s, threshold, result>>

\* The while ends.
Exit ==
    /\ pc = "while"
    /\ Low(product) >= threshold
    /\ pc' = "return"
    /\ UNCHANGED <<s, product, threshold, result>>

\* The product is returned without the shift.
SlipReturnWhole ==
    /\ pc = "return"
    /\ result' = product
    /\ pc' = "done"
    /\ UNCHANGED <<s, product, threshold>>

\* The other half of the product is returned.
SlipReturnLow ==
    /\ pc = "return"
    /\ result' = Low(product)
    /\ pc' = "done"
    /\ UNCHANGED <<s, product, threshold>>

Return ==
    /\ pc = "return"
    /\ result' = High(product)
    /\ pc' = "done"
    /\ UNCHANGED <<s, product, threshold>>

Step == (\E x \in T : Draw(x) \/ Redraw(x)) \/ Divide \/ Exit \/ Return

Next == (\E b \in T : Call(b)) \/ Step

Spec == Init /\ [][Next]_vars

\* The draws are random: if some value would end the loop, it is drawn in the
\* end.  (If none would, nothing makes the loop end.)
FairSpec ==
    /\ Spec
    /\ WF_vars(Step)
    /\ SF_vars(\E x \in T : Redraw(x) /\ Accepted(x * s, s))

-----------------------------------------------------------------------------
(* Properties.                                                             *)

\* Type invariant: threshold fits T, and product what T2 holds.
TypeOK ==
    /\ pc \in {"idle", "draw", "divide", "while", "return", "done"}
    /\ s \in T /\ threshold \in T /\ result \in T
    /\ product \in 0 .. (W - 1) * (W - 1)

\* "Return a uniform random unsigned integer less than upper_bound.  If
\* upper_bound is <= 1, 0 is returned" (randp.c:157-161).
Below == pc = "done" => result < s \/ (s = 0 /\ result = 0)

\* The draws that are accepted and give r.
Draws(b, r) == {x \in T : Accepted(x * b, b) /\ High(x * b) = r}

\* Uniform: a result is that of an accepted draw, and every result below the bound
\* has the same number of them, so that none is likelier than another.
Unbiased ==
    s > 1 =>
        /\ pc = "done" => \E x \in Draws(s, result) : product = x * s
        /\ \A r \in 0 .. s - 1 : Cardinality(Draws(s, r)) = W \div s

\* A call returns: among the draws there is always one the loop accepts.
CallReturns == pc \notin {"idle", "done"} ~> pc = "done"

-----------------------------------------------------------------------------
(* The inductive invariant: what each label knows of the product, and      *)
(* where a returned result comes from.                                     *)

\* The product is that of a draw.
Drawn == \E x \in T : product = x * s

\* Past the loop the draw is an accepted one, and its high half, which is below
\* the bound, is the result.
Inv ==
    /\ TypeOK
    /\ pc \in {"draw", "divide", "while", "return"} => s > 1
    /\ pc \in {"divide", "while", "return"} => Drawn /\ High(product) < s
    /\ pc = "while" => threshold = Threshold(s)
    /\ pc = "return" => Accepted(product, s)
    /\ pc = "done" => IF s > 1 THEN /\ Drawn /\ Accepted(product, s)
                                    /\ result = High(product)
                                    /\ result < s
                               ELSE result = 0
=============================================================================
