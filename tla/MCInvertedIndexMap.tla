------------------------ MODULE MCInvertedIndexMap ------------------------
(* Three threads on three buckets under two stripes.  "aa" and "ab" collide   *)
(* in bucket 0, "ba" sits in bucket 2, which shares stripe 0 with bucket 0, *)
(* and "ca" in bucket 1 has stripe 1 to itself.                             *)
EXTENDS InvertedIndexMap, TLC

CONSTANTS t1, t2, t3, aa, ab, ba, ca

MCKey == {aa, ab, ba, ca}
MCHash == (aa :> 0) @@ (ab :> 0) @@ (ba :> 2) @@ (ca :> 1)
MCThread == {t1, t2, t3}
=============================================================================
