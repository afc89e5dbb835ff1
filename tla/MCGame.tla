------------------------------- MODULE MCGame -------------------------------
EXTENDS Game, TLC
Symmetry == Permutations(Users)
=============================================================================
