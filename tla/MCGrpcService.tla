---------------------------- MODULE MCGrpcService ----------------------------
(* Two clients; files whose words change between two indexings, and a folder  *)
(* that begins with a file that cannot be read.                               *)
EXTENDS GrpcService, TLC

CONSTANTS c1, c2, x, y

MCClient == {c1, c2}
MCWord == {x, y}
FileWith(rel, counts) == [rel |-> rel, readable |-> TRUE, counts |-> counts]
MCFolders == {<<FileWith(1, (x :> 1) @@ (y :> 1)), FileWith(2, x :> 1), FileWith(3, x :> 1)>>,
              <<[rel |-> 2, readable |-> FALSE, counts |-> NoScores], FileWith(1, x :> 2)>>}
MCQuery == {<<x>>, <<y, x>>}
=============================================================================
