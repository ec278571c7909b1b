--------------------------- MODULE MCTransaction ---------------------------
(* Model-checking instance of Transaction: two rows, one value besides    *)
(* absence, calls nested up to three deep.                                 *)
EXTENDS Transaction, TLC

CONSTANTS k1, k2, v1

MCKeys == {k1, k2}
MCVals == {v1}

(* Rows are interchangeable: fn may write any of them.                    *)
MCSymmetry == Permutations(MCKeys)
=============================================================================
