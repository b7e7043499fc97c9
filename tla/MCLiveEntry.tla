---------------------------- MODULE MCLiveEntry ----------------------------
(* Two decisions: on the same side of a symbol, on the two sides of it, or *)
(* in two symbols.                                                         *)
EXTENDS LiveEntry

CONSTANTS p1, p2, A, B, LONG, SHORT

Both(first, second) == [p \in Position |-> IF p = p1 THEN first ELSE second]
On(s, d) == [symbol |-> s, side |-> d]

MCPlans == {Both(On(A, LONG), On(A, LONG)), Both(On(A, LONG), On(A, SHORT)),
            Both(On(A, LONG), On(B, LONG))}
=============================================================================
