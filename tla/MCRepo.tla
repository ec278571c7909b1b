------------------------------- MODULE MCRepo -------------------------------
EXTENDS Repo, TLC

CONSTANTS c1, c2, i1, i2, n1, n2

MCClients == {c1, c2}

MCClient == {c1}

MCIds == {i1, i2}

MCNames == {n1, n2}

MCName == {n1}

MCSymmetry == Permutations(MCClients) \cup Permutations(MCIds) \cup Permutations(MCNames)
=============================================================================
