--------------------------- MODULE MCGrowableList ---------------------------
(* Two lists of up to two entries: a second entry makes an array grow.  Three *)
(* addresses: for two blocks and the one that add or operator= copies to.     *)
EXTENDS GrowableList, TLC

CONSTANTS x, y, b1, b2, b3

MCName == {x, y}
MCAddress == {b1, b2, b3}
Symm == Permutations(MCName) \union Permutations(MCAddress)
=============================================================================
