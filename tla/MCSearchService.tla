--------------------------- MODULE MCSearchService ---------------------------
(* Two clients at two workers, four requests in all: a file is indexed again  *)
(* and again, each time as a document of its own.  A one-word document is     *)
(* indexed by the worker itself, a two-word document by three threads, one   *)
(* of which gets an empty slice.                                             *)
EXTENDS SearchService, TLC

CONSTANTS w1, w2, x, y

MCWorker == {w1, w2}
MCWord == {x, y}
MCWordCounts == {x :> 1, (x :> 2) @@ (y :> 1)}
MCQuery == {<<x>>, <<x, y>>, <<y, x, x>>}
=============================================================================
