---------------------------- MODULE MCAssociation ----------------------------
(* Model values and the symmetry set of Association for TLC.               *)
EXTENDS Association, TLC

CONSTANTS i1, i2, i3

MCIds == {i1, i2, i3}

(* The ids are interchangeable: no definition names one of them.          *)
MCSymmetry == Permutations(MCIds)

=============================================================================
