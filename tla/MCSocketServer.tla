--------------------------- MODULE MCSocketServer ---------------------------
(* More clients than descriptors: a descriptor is used again after its       *)
(* session, and accept can run out of them.                                  *)
EXTENDS SocketServer, TLC

CONSTANTS c1, c2, c3, f1, f2

TwoClients == {c1, c2}
ThreeClients == {c1, c2, c3}
MCFD == {f1, f2}
Symm == Permutations(MCFD) \union Permutations(TwoClients)
Symm3 == Permutations(MCFD) \union Permutations(ThreeClients)
=============================================================================
