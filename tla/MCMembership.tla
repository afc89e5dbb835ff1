---------------------------- MODULE MCMembership ----------------------------
EXTENDS Membership, TLC
Symmetry == Permutations(Users) \cup Permutations(Objects) \cup Permutations(Threads)
=============================================================================
