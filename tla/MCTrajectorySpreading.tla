------------------------ MODULE MCTrajectorySpreading ------------------------
EXTENDS TrajectorySpreading, TLC
MCHorizons == {<<1, 6>>, <<3, 3>>}
Symmetry == Permutations(Modes)
=============================================================================
