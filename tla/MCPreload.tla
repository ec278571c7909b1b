------------------------------ MODULE MCPreload ------------------------------
EXTENDS Preload, TLC

CONSTANTS p1, p2, ch1, ch2, ch3, id1, id2, x1, x2

MCParents == {p1, p2}

MCPIds == {id1, id2}

MCChildren == {ch1, ch2, ch3}

MCVals == {x1, x2}

MCSymmetry == Permutations(MCChildren) \cup Permutations(MCParents)
=============================================================================
