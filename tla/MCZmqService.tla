----------------------------- MODULE MCZmqService -----------------------------
(* Two clients index the same relative path, one of them twice, with other   *)
(* counts, and a second file; a payload may lose its last byte, whole        *)
(* fields, or its type.                                                     *)
EXTENDS ZmqService

CONSTANTS w1, w2

MCWorker == {w1, w2}
x == <<1>>
y == <<2, 1>>
T(word, n) == [term |-> word, frequency |-> n]
MCWord == {x, y}
MCRequests == {[id |-> 1, path |-> <<5>>, terms |-> <<T(x, 1)>>],
               [id |-> 1, path |-> <<5>>, terms |-> <<T(y, 1), T(x, 2)>>],
               [id |-> 2, path |-> <<5>>, terms |-> <<T(x, 9)>>],
               [id |-> 1, path |-> <<6>>, terms |-> <<T(x, 1)>>]}
MCQuery == {<<x>>, <<x, y>>}
OneWord == {x}
OneWordRequests == {[id |-> 1, path |-> <<p>>, terms |-> <<T(x, 1)>>] : p \in {5, 6}}
NoQuery == {}
=============================================================================
