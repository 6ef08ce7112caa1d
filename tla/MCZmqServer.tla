----------------------------- MODULE MCZmqServer -----------------------------
(* Two workers behind the proxy, two clients; three ids, so that the counter *)
(* comes round to the id 0; a folder of up to two files.                     *)
EXTENDS ZmqServer

CONSTANTS c1, c2, w1, w2

MCClient == {c1, c2}
MCWorker == {w1, w2}
=============================================================================
