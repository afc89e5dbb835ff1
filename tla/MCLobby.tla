------------------------------ MODULE MCLobby ------------------------------
\* Lobby for TLC: the users whose pages are not looked at are alike, and so are the options.
EXTENDS Lobby

Symmetry == Permutations(Users \ Watched) \cup Permutations(Fields)
=============================================================================
