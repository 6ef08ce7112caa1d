------------------------- MODULE SocketSession_proof -------------------------
(***************************************************************************)
(* Proofs about the sessions of the socket stack, for any files, queries,  *)
(* word characters and numbers of clients.                                 *)
(*                                                                         *)
(* Neither side checks most of what it reads, so everything rests on where *)
(* messages end.  IInv says where a message is: while the connection is    *)
(* open, the request of the current command is what the worker has read,   *)
(* what is under way and what the client has still to send, one after the  *)
(* other (Asking), and then the reply likewise (Answering); between two    *)
(* commands nothing is anywhere (Idle).  The reading code stops exactly at *)
(* the end of such a message (RequestEnds, ReplyEnds), so that the worker  *)
(* acts on the whole request and the client on the whole reply.  A client  *)
(* whose registration breaks off reads nothing else than the beginning of  *)
(* the reply (Broken).                                                     *)
(*                                                                         *)
(* SInv adds what is stored.  A document stored for a client that is still *)
(* there has the counts the tokenizer made of the file, and these are the  *)
(* occurrences of its words (TokenizeExact, by induction along the text).  *)
(* One stored for a client that has gone, or while the server stops,       *)
(* leaves nothing to read, so that its session stores no other (Lost).     *)
(***************************************************************************)
EXTENDS SocketSession, SequenceTheorems, FiniteSetTheorems, WellFoundedInduction, TLAPS

-----------------------------------------------------------------------------
(* Sequences, and a message in three parts.                                *)

\* A sequence: its length, its domain, and when it is empty.
LEMMA SeqFacts ==
  ASSUME NEW s, IsSeq(s)
  PROVE  Len(s) \in Nat /\ DOMAIN s = 1 .. Len(s) /\ (s = <<>> <=> Len(s) = 0)
<1> DEFINE S == {s[i] : i \in DOMAIN s}
<1>1. s \in Seq(S)
  BY DEF IsSeq
<1> HIDE DEF S
<1> QED
  BY <1>1, LenProperties, EmptySeq

\* A function on 1 .. n is a sequence of length n.
LEMMA FunctionSeq ==
  ASSUME NEW n \in Nat, NEW S, NEW f \in [1 .. n -> S]
  PROVE  IsSeq(f) /\ Len(f) = n /\ DOMAIN f = 1 .. n
<1> DEFINE T == {f[i] : i \in DOMAIN f}
<1>1. DOMAIN f = 1 .. n /\ \A i \in 1 .. n : f[i] \in T
  OBVIOUS
<1> HIDE DEF T
<1>2. f \in [1 .. n -> T]
  BY <1>1
<1>3. f \in Seq(T) /\ Len(f) = n
  BY ONLY n \in Nat, <1>2
<1> QED
  BY <1>1, <1>3 DEF IsSeq, T

\* A member of Seq(S) is a sequence.
LEMMA SeqOf ==
  ASSUME NEW S, NEW s \in Seq(S)
  PROVE  IsSeq(s)
<1>1. Len(s) \in Nat /\ s \in [1 .. Len(s) -> S]
  BY LenProperties
<1> QED
  BY <1>1, FunctionSeq

\* The empty sequence.
LEMMA EmptySeqFacts == IsSeq(<<>>) /\ Len(<<>>) = 0
BY SeqOf, EmptySeq

\* Appending to a sequence.
LEMMA AppendFacts ==
  ASSUME NEW s, IsSeq(s), NEW e
  PROVE  /\ IsSeq(Append(s, e)) /\ Len(Append(s, e)) = Len(s) + 1
         /\ Append(s, e)[Len(s) + 1] = e
         /\ \A i \in 1 .. Len(s) : Append(s, e)[i] = s[i]
<1> DEFINE S == {s[i] : i \in DOMAIN s} \union {e}
<1>1. s \in Seq(S)
  BY DEF IsSeq
<1>2. e \in S
  OBVIOUS
<1> HIDE DEF S
<1>3. Append(s, e) \in Seq(S)
  BY <1>1, <1>2, AppendProperties
<1>4. IsSeq(Append(s, e))
  BY <1>3, SeqOf
<1> QED
  BY <1>1, <1>2, <1>4, AppendProperties

\* Taking the head off a sequence.
LEMMA TailFacts ==
  ASSUME NEW s, IsSeq(s), s # <<>>
  PROVE  /\ IsSeq(Tail(s)) /\ Len(Tail(s)) = Len(s) - 1 /\ Len(s) > 0
         /\ Head(s) = s[1]
         /\ \A i \in 1 .. Len(s) - 1 : Tail(s)[i] = s[i + 1]
<1> DEFINE S == {s[i] : i \in DOMAIN s}
<1>1. s \in Seq(S)
  BY DEF IsSeq
<1> HIDE DEF S
<1>2. Tail(s) \in Seq(S) /\ Len(Tail(s)) = Len(s) - 1
  BY <1>1, HeadTailProperties
<1>3. \A i \in 1 .. Len(s) - 1 : Tail(s)[i] = s[i + 1]
  BY <1>1, <1>2
<1>4. Len(s) > 0
  BY <1>1, SeqFacts
<1>5. IsSeq(Tail(s))
  BY <1>2, SeqOf
<1>6. Head(s) = s[1]
  BY <1>1, HeadTailProperties
<1> QED
  BY <1>2, <1>3, <1>4, <1>5, <1>6

\* One sequence after another.
LEMMA ConcatFacts ==
  ASSUME NEW s, IsSeq(s), NEW t, IsSeq(t)
  PROVE  /\ IsSeq(s \o t) /\ Len(s \o t) = Len(s) + Len(t)
         /\ \A i \in 1 .. Len(s) : (s \o t)[i] = s[i]
         /\ \A i \in 1 .. Len(t) : (s \o t)[Len(s) + i] = t[i]
<1> DEFINE S == {s[i] : i \in DOMAIN s} \union {t[i] : i \in DOMAIN t}
<1>1. s \in Seq(S) /\ t \in Seq(S)
  BY DEF IsSeq
<1> HIDE DEF S
<1>2. s \o t \in Seq(S) /\ Len(s \o t) = Len(s) + Len(t)
  BY <1>1, ConcatProperties
<1>3. \A i \in 1 .. Len(s) : (s \o t)[i] = s[i]
  BY <1>1, <1>2, ConcatProperties
<1>4. \A i \in 1 .. Len(t) : (s \o t)[Len(s) + i] = t[i]
  <2> SUFFICES ASSUME NEW i \in 1 .. Len(t) PROVE (s \o t)[Len(s) + i] = t[i]
    OBVIOUS
  <2>1. Len(s) \in Nat /\ Len(t) \in Nat
    BY <1>1, LenProperties
  <2>2. Len(s) + i \in 1 .. Len(s) + Len(t) /\ ~(Len(s) + i <= Len(s)) /\ Len(s) + i - Len(s) = i
    BY <2>1
  <2> QED
    BY <1>1, <2>2, ConcatProperties
<1> QED
  BY <1>2, <1>3, <1>4, SeqOf

\* The p-th to the q-th element.
LEMMA SubSeqFacts ==
  ASSUME NEW c, IsSeq(c), NEW p \in Nat, p > 0, NEW q \in Nat, q <= Len(c), q + 1 >= p
  PROVE  /\ IsSeq(SubSeq(c, p, q)) /\ Len(SubSeq(c, p, q)) = q - p + 1
         /\ \A i \in 1 .. q - p + 1 : SubSeq(c, p, q)[i] = c[p + i - 1]
<1> DEFINE S == {c[i] : i \in DOMAIN c}
<1>1. Len(c) \in Nat /\ DOMAIN c = 1 .. Len(c)
  BY SeqFacts
<1>2. \A i \in p .. q : c[i] \in S
  BY <1>1
<1> HIDE DEF S
<1>3. /\ SubSeq(c, p, q) \in Seq(S)
      /\ Len(SubSeq(c, p, q)) = IF p <= q THEN q - p + 1 ELSE 0
      /\ \A i \in 1 .. q - p + 1 : SubSeq(c, p, q)[i] = c[p + i - 1]
  BY <1>2, SubSeqProperties
<1>4. (IF p <= q THEN q - p + 1 ELSE 0) = q - p + 1
  OBVIOUS
<1> QED
  BY <1>3, <1>4, SeqOf

\* Two sequences of the same elements.
SameElements(a, b) == Len(a) = Len(b) /\ \A i \in 1 .. Len(a) : a[i] = b[i]

\* SequenceTheorems has this for members of one Seq(S).
LEMMA SeqSame ==
  ASSUME NEW a, NEW b, IsSeq(a), IsSeq(b), SameElements(a, b)
  PROVE  a = b
<1>1. DOMAIN a = 1 .. Len(a) /\ DOMAIN b = 1 .. Len(b)
  <2>1. DOMAIN a = 1 .. Len(a)
    BY ONLY IsSeq(a), SeqFacts
  <2>2. DOMAIN b = 1 .. Len(b)
    BY ONLY IsSeq(b), SeqFacts
  <2> QED
    BY <2>1, <2>2
<1>2. a = [i \in DOMAIN a |-> a[i]] /\ b = [i \in DOMAIN b |-> b[i]]
  <2>1. a \in Seq({a[i] : i \in DOMAIN a}) /\ b \in Seq({b[i] : i \in DOMAIN b})
    BY DEF IsSeq
  <2> QED
    BY <2>1
<1>3. Len(a) = Len(b) /\ \A i \in 1 .. Len(a) : a[i] = b[i]
  BY DEF SameElements
<1>4. DOMAIN a = DOMAIN b /\ \A i \in DOMAIN a : a[i] = b[i]
  BY <1>1, <1>3
<1> QED
  BY ONLY <1>2, <1>4

\* a, b and c together are m.
Split(m, a, b, c) ==
  /\ IsSeq(m) /\ Len(m) = Len(a) + Len(b) + Len(c)
  /\ \A i \in 1 .. Len(a) : m[i] = a[i]
  /\ \A i \in 1 .. Len(b) : m[Len(a) + i] = b[i]
  /\ \A i \in 1 .. Len(c) : m[Len(a) + Len(b) + i] = c[i]

\* A field moves from the third part to the second.
LEMMA SplitSent ==
  ASSUME NEW m, NEW a, NEW b, NEW c, Split(m, a, b, c), IsSeq(a), IsSeq(b), IsSeq(c), c # <<>>
  PROVE  Split(m, a, Append(b, Head(c)), Tail(c))
<1> DEFINE b1 == Append(b, Head(c))
           c1 == Tail(c)
<1>1. Len(a) \in Nat /\ Len(b) \in Nat /\ Len(c) \in Nat
  BY SeqFacts
<1>2. /\ Len(b1) = Len(b) + 1 /\ b1[Len(b) + 1] = Head(c)
      /\ \A i \in 1 .. Len(b) : b1[i] = b[i]
  BY AppendFacts
<1>3. /\ Len(c1) = Len(c) - 1 /\ Len(c) > 0 /\ Head(c) = c[1]
      /\ \A i \in 1 .. Len(c) - 1 : c1[i] = c[i + 1]
  BY TailFacts
<1> HIDE DEF b1, c1
<1>4. /\ IsSeq(m) /\ Len(m) = Len(a) + Len(b) + Len(c)
      /\ \A i \in 1 .. Len(a) : m[i] = a[i]
      /\ \A i \in 1 .. Len(b) : m[Len(a) + i] = b[i]
      /\ \A i \in 1 .. Len(c) : m[Len(a) + Len(b) + i] = c[i]
  BY DEF Split
<1>5. Len(m) = Len(a) + Len(b1) + Len(c1)
  BY <1>1, <1>2, <1>3, <1>4
<1>6. ASSUME NEW i \in 1 .. Len(b1) PROVE m[Len(a) + i] = b1[i]
  <2>1. CASE i \in 1 .. Len(b)
    BY <1>2, <1>4, <2>1
  <2>2. CASE i = Len(b) + 1
    <3>1. 1 \in 1 .. Len(c) /\ Len(a) + Len(b) + 1 = Len(a) + i
      BY <1>1, <1>3, <2>2
    <3> QED
      BY <1>2, <1>3, <1>4, <2>2, <3>1
  <2> QED
    BY <1>1, <1>2, <2>1, <2>2
<1>7. ASSUME NEW i \in 1 .. Len(c1) PROVE m[Len(a) + Len(b1) + i] = c1[i]
  <2>1. i + 1 \in 1 .. Len(c) /\ Len(a) + Len(b) + (i + 1) = Len(a) + Len(b1) + i /\ i \in 1 .. Len(c) - 1
    BY <1>1, <1>2, <1>3
  <2> QED
    BY <1>3, <1>4, <2>1
<1> QED
  BY <1>4, <1>5, <1>6, <1>7 DEF Split, b1, c1

\* A field moves from the second part to the first.
LEMMA SplitRead ==
  ASSUME NEW m, NEW a, NEW b, NEW c, Split(m, a, b, c), IsSeq(a), IsSeq(b), IsSeq(c), b # <<>>
  PROVE  Split(m, Append(a, Head(b)), Tail(b), c)
<1> DEFINE a1 == Append(a, Head(b))
           b1 == Tail(b)
<1>1. Len(a) \in Nat /\ Len(b) \in Nat /\ Len(c) \in Nat
  BY SeqFacts
<1>2. /\ Len(a1) = Len(a) + 1 /\ a1[Len(a) + 1] = Head(b)
      /\ \A i \in 1 .. Len(a) : a1[i] = a[i]
  BY AppendFacts
<1>3. /\ Len(b1) = Len(b) - 1 /\ Len(b) > 0 /\ Head(b) = b[1]
      /\ \A i \in 1 .. Len(b) - 1 : b1[i] = b[i + 1]
  BY TailFacts
<1> HIDE DEF a1, b1
<1>4. /\ IsSeq(m) /\ Len(m) = Len(a) + Len(b) + Len(c)
      /\ \A i \in 1 .. Len(a) : m[i] = a[i]
      /\ \A i \in 1 .. Len(b) : m[Len(a) + i] = b[i]
      /\ \A i \in 1 .. Len(c) : m[Len(a) + Len(b) + i] = c[i]
  BY DEF Split
<1>5. Len(m) = Len(a1) + Len(b1) + Len(c) /\ Len(a1) + Len(b1) = Len(a) + Len(b)
  BY <1>1, <1>2, <1>3, <1>4
<1>6. ASSUME NEW i \in 1 .. Len(a1) PROVE m[i] = a1[i]
  <2>1. CASE i \in 1 .. Len(a)
    BY <1>2, <1>4, <2>1
  <2>2. CASE i = Len(a) + 1
    <3>1. 1 \in 1 .. Len(b)
      BY <1>1, <1>3
    <3> QED
      BY <1>2, <1>3, <1>4, <2>2, <3>1
  <2> QED
    BY <1>1, <1>2, <2>1, <2>2
<1>7. ASSUME NEW i \in 1 .. Len(b1) PROVE m[Len(a1) + i] = b1[i]
  <2>1. i + 1 \in 1 .. Len(b) /\ Len(a) + (i + 1) = Len(a1) + i /\ i \in 1 .. Len(b) - 1
    BY <1>1, <1>2, <1>3
  <2> QED
    BY <1>3, <1>4, <2>1
<1> QED
  BY <1>4, <1>5, <1>6, <1>7 DEF Split, a1, b1

\* All of it is in one part.
LEMMA SplitWhole ==
  ASSUME NEW m, IsSeq(m)
  PROVE  Split(m, <<>>, <<>>, m)
<1>1. Len(m) \in Nat /\ Len(<<>>) = 0
  BY SeqFacts, EmptySeqFacts
<1>2. \A i \in 1 .. 0 : m[i] = <<>>[i] /\ m[0 + i] = <<>>[i]
  OBVIOUS
<1>3. Len(m) = 0 + 0 + Len(m) /\ \A i \in 1 .. Len(m) : 0 + 0 + i = i
  BY <1>1
<1> QED
  BY <1>1, <1>2, <1>3 DEF Split

\* When the other parts are empty, the first is all of it.
LEMMA SplitAll ==
  ASSUME NEW m, NEW a, Split(m, a, <<>>, <<>>), IsSeq(a)
  PROVE  m = a
<1>1. Len(a) \in Nat /\ Len(<<>>) = 0 /\ Len(m) \in Nat /\ DOMAIN a = 1 .. Len(a)
      /\ DOMAIN m = 1 .. Len(m)
  BY SeqFacts, EmptySeqFacts DEF Split
<1>2. Len(m) = Len(a) /\ \A i \in 1 .. Len(a) : m[i] = a[i]
  BY <1>1 DEF Split
<1>3. m = [i \in DOMAIN m |-> m[i]] /\ a = [i \in DOMAIN a |-> a[i]]
  <2>1. m \in Seq({m[i] : i \in DOMAIN m}) /\ a \in Seq({a[i] : i \in DOMAIN a})
    BY DEF Split, IsSeq
  <2> QED
    BY <2>1
<1> QED
  BY <1>1, <1>2, <1>3
-----------------------------------------------------------------------------
(* Where a message ends.                                                   *)

\* As many fields as its type and the numbers in it say.
WholeRequest(m) ==
  /\ IsSeq(m)
  /\ \/ Len(m) = 1 /\ m[1] = REGISTER_REQUEST
     \/ m[1] = INDEX_REQUEST /\ m[4] \in Nat /\ Len(m) = 4 + 2 * m[4]
     \/ m[1] = SEARCH_REQUEST /\ m[2] \in Nat /\ Len(m) = 2 + m[2]
WholeReply(r) ==
  /\ IsSeq(r)
  /\ \/ Len(r) = 2 /\ r[1] \in {REGISTER_REPLY, INDEX_REPLY}
     \/ r[1] = SEARCH_REPLY /\ r[3] \in Nat /\ Len(r) = 3 + 2 * r[3]

Begins(f, m) == Len(f) <= Len(m) /\ \A i \in 1 .. Len(f) : f[i] = m[i]

\* The worker knows a request is read when it has all of its fields, and not before.
LEMMA RequestEnds ==
  ASSUME NEW m, WholeRequest(m), NEW f, IsSeq(f), Begins(f, m)
  PROVE  (NextRequest(f) = "done" <=> Len(f) = Len(m)) /\ f # <<QUIT>> /\ Len(m) > 0
<1>1. Len(f) \in Nat /\ Len(m) \in Nat /\ (f = <<>> <=> Len(f) = 0) /\ Len(f) <= Len(m)
  BY SeqFacts DEF WholeRequest, Begins
<1>2. Len(m) > 0
  BY DEF WholeRequest
<1>3. CASE f = <<>>
  <2>1. NextRequest(f) = "type"
    BY <1>3 DEF NextRequest
  <2>2. f # <<QUIT>>
    BY <1>3
  <2> QED
    BY <1>1, <1>2, <1>3, <2>1, <2>2
<1>4. ASSUME f # <<>> PROVE 1 \in 1 .. Len(f) /\ f[1] = m[1] /\ f[1] \in {REGISTER_REQUEST, INDEX_REQUEST, SEARCH_REQUEST}
  <2>1. 1 \in 1 .. Len(f)
    BY <1>1, <1>4
  <2>2. f[1] = m[1]
    BY <2>1 DEF Begins
  <2> QED
    BY <2>1, <2>2 DEF WholeRequest
<1>5. ASSUME f # <<>> PROVE f # <<QUIT>>
  <2>1. <<QUIT>>[1] = QUIT /\ QUIT \notin {REGISTER_REQUEST, INDEX_REQUEST, SEARCH_REQUEST}
    BY DEF QUIT, REGISTER_REQUEST, INDEX_REQUEST, SEARCH_REQUEST
  <2> QED
    BY <1>4, <1>5, <2>1
<1>6. CASE f # <<>> /\ f[1] = REGISTER_REQUEST
  <2>1. NextRequest(f) = "done"
    BY <1>6 DEF NextRequest, REGISTER_REQUEST, INDEX_REQUEST, SEARCH_REQUEST
  <2>2. Len(m) = 1
    BY <1>4, <1>6 DEF WholeRequest, REGISTER_REQUEST, INDEX_REQUEST, SEARCH_REQUEST
  <2>3. Len(f) = 1
    BY <1>1, <1>6, <2>2
  <2> QED
    BY <1>2, <1>5, <1>6, <2>1, <2>2, <2>3
<1>7. CASE f # <<>> /\ f[1] = INDEX_REQUEST
  <2>1. m[4] \in Nat /\ Len(m) = 4 + 2 * m[4]
    BY <1>4, <1>7 DEF WholeRequest, REGISTER_REQUEST, INDEX_REQUEST, SEARCH_REQUEST
  <2>2. NextRequest(f) = IF Len(f) = 2 THEN "string"
                         ELSE IF Len(f) < 4 THEN "uint32"
                         ELSE IF Len(f) = 4 + 2 * f[4] THEN "done"
                         ELSE IF Odd(Len(f)) THEN "uint32" ELSE "string"
    BY <1>7 DEF NextRequest, INDEX_REQUEST, SEARCH_REQUEST
  <2>3. CASE Len(f) < 4
    BY <1>1, <1>2, <1>5, <1>7, <2>1, <2>2, <2>3
  <2>4. CASE Len(f) >= 4
    <3>1. 4 \in 1 .. Len(f)
      BY <1>1, <2>4
    <3>2. f[4] = m[4]
      BY <3>1 DEF Begins
    <3>3. NextRequest(f) = IF Len(f) = 4 + 2 * f[4] THEN "done"
                           ELSE IF Odd(Len(f)) THEN "uint32" ELSE "string"
      BY <1>1, <2>2, <2>4
    <3>4. NextRequest(f) = "done" <=> Len(f) = 4 + 2 * f[4]
      BY <3>3
    <3> QED
      BY <1>2, <1>5, <1>7, <2>1, <3>2, <3>4
  <2> QED
    BY <1>1, <2>3, <2>4
<1>8. CASE f # <<>> /\ f[1] = SEARCH_REQUEST
  <2>1. m[2] \in Nat /\ Len(m) = 2 + m[2]
    BY <1>4, <1>8 DEF WholeRequest, REGISTER_REQUEST, INDEX_REQUEST, SEARCH_REQUEST
  <2>2. NextRequest(f) = IF Len(f) = 1 THEN "uint32"
                         ELSE IF Len(f) = 2 + f[2] THEN "done" ELSE "string"
    BY <1>8 DEF NextRequest, INDEX_REQUEST, SEARCH_REQUEST
  <2>3. CASE Len(f) = 1
    BY <1>1, <1>2, <1>5, <1>8, <2>1, <2>2, <2>3
  <2>4. CASE Len(f) # 1
    <3>0. Len(f) # 0
      BY <1>1, <1>8
    <3>1. 2 \in 1 .. Len(f)
      BY <1>1, <2>4, <3>0
    <3>2. f[2] = m[2]
      BY <3>1 DEF Begins
    <3>3. NextRequest(f) = "done" <=> Len(f) = 2 + f[2]
      BY <2>2, <2>4
    <3> QED
      BY <1>2, <1>5, <1>8, <2>1, <3>2, <3>3
  <2> QED
    BY <2>3, <2>4
<1> QED
  BY <1>3, <1>4, <1>6, <1>7, <1>8

\* And the client when a reply is.
LEMMA ReplyEnds ==
  ASSUME NEW r, WholeReply(r), NEW f, IsSeq(f), Begins(f, r)
  PROVE  (NextReply(f) = "done" <=> Len(f) = Len(r)) /\ Len(r) > 0
<1>1. Len(f) \in Nat /\ Len(r) \in Nat /\ (f = <<>> <=> Len(f) = 0) /\ Len(f) <= Len(r)
  BY SeqFacts DEF WholeReply, Begins
<1>2. Len(r) > 0
  BY DEF WholeReply
<1>3. CASE f = <<>>
  <2>1. NextReply(f) = "type"
    BY <1>3 DEF NextReply
  <2> QED
    BY <1>1, <1>2, <1>3, <2>1
<1>4. ASSUME f # <<>> PROVE f[1] = r[1] /\ f[1] \in {REGISTER_REPLY, INDEX_REPLY, SEARCH_REPLY}
  <2>1. 1 \in 1 .. Len(f)
    BY <1>1, <1>4
  <2>2. f[1] = r[1]
    BY <2>1 DEF Begins
  <2> QED
    BY <2>2 DEF WholeReply
<1>6. CASE f # <<>> /\ f[1] \in {REGISTER_REPLY, INDEX_REPLY}
  <2>1. NextReply(f) = IF Len(f) = 1 THEN "uint32" ELSE "done"
    BY <1>6 DEF NextReply, REGISTER_REPLY, INDEX_REPLY, SEARCH_REPLY
  <2>2. Len(r) = 2
    <3>1. r[1] # SEARCH_REPLY
      BY <1>4, <1>6 DEF REGISTER_REPLY, INDEX_REPLY, SEARCH_REPLY
    <3> QED
      BY <3>1 DEF WholeReply
  <2>3. Len(f) # 0
    BY <1>1, <1>6
  <2>4. Len(f) = 1 \/ Len(f) = 2
    <3>1. \A n \in Nat : n <= 2 /\ n # 0 => n = 1 \/ n = 2
      OBVIOUS
    <3> QED
      BY <1>1, <2>2, <2>3, <3>1
  <2> QED
    BY <1>2, <2>1, <2>2, <2>4
<1>8. CASE f # <<>> /\ f[1] = SEARCH_REPLY
  <2>1. r[3] \in Nat /\ Len(r) = 3 + 2 * r[3]
    BY <1>4, <1>8 DEF WholeReply, REGISTER_REPLY, INDEX_REPLY, SEARCH_REPLY
  <2>2. NextReply(f) = IF Len(f) < 3 THEN "uint32"
                       ELSE IF Len(f) = 3 + 2 * f[3] THEN "done"
                       ELSE IF Odd(Len(f)) THEN "string" ELSE "uint32"
    BY <1>8 DEF NextReply
  <2>3. CASE Len(f) < 3
    BY <1>1, <1>2, <1>8, <2>1, <2>2, <2>3
  <2>4. CASE Len(f) >= 3
    <3>1. 3 \in 1 .. Len(f)
      BY <1>1, <2>4
    <3>2. f[3] = r[3]
      BY <3>1 DEF Begins
    <3>3. NextReply(f) = IF Len(f) = 3 + 2 * f[3] THEN "done"
                         ELSE IF Odd(Len(f)) THEN "string" ELSE "uint32"
      BY <1>1, <2>2, <2>4
    <3>4. NextReply(f) = "done" <=> Len(f) = 3 + 2 * f[3]
      BY <3>3
    <3> QED
      BY <1>2, <1>8, <2>1, <3>2, <3>4
  <2> QED
    BY <1>1, <2>3, <2>4
<1> QED
  BY <1>3, <1>4, <1>6, <1>8

\* The first part is how the whole begins, and all of it when the others are empty.
LEMMA SplitBegins ==
  ASSUME NEW m, NEW a, NEW b, NEW c, Split(m, a, b, c), IsSeq(a), IsSeq(b), IsSeq(c)
  PROVE  Begins(a, m) /\ (Len(a) = Len(m) <=> b = <<>> /\ c = <<>>)
<1>1. Len(a) \in Nat /\ Len(b) \in Nat /\ Len(c) \in Nat /\ Len(m) = Len(a) + Len(b) + Len(c)
      /\ (b = <<>> <=> Len(b) = 0) /\ (c = <<>> <=> Len(c) = 0)
  BY SeqFacts DEF Split
<1>2. \A i \in 1 .. Len(a) : a[i] = m[i]
  BY DEF Split
<1> QED
  BY <1>1, <1>2 DEF Begins

\* The heads of the messages.
LEMMA TupleFacts ==
  ASSUME NEW a, NEW b, NEW c, NEW d
  PROVE  /\ IsSeq(<<a>>) /\ Len(<<a>>) = 1
         /\ IsSeq(<<a, b>>) /\ Len(<<a, b>>) = 2
         /\ IsSeq(<<a, b, c>>) /\ Len(<<a, b, c>>) = 3
         /\ IsSeq(<<a, b, c, d>>) /\ Len(<<a, b, c, d>>) = 4
<1> DEFINE S == {a, b, c, d}
<1>1. a \in S /\ b \in S /\ c \in S /\ d \in S
  OBVIOUS
<1> HIDE DEF S
<1>2. <<a>> \in Seq(S) /\ <<a, b>> \in Seq(S) /\ <<a, b, c>> \in Seq(S) /\ <<a, b, c, d>> \in Seq(S)
  BY <1>1
<1>3. IsSeq(<<a>>) /\ IsSeq(<<a, b>>) /\ IsSeq(<<a, b, c>>) /\ IsSeq(<<a, b, c, d>>)
  BY <1>2, SeqOf
<1> QED
  BY <1>3

\* A string and a number in each turn.
LEMMA PairsFacts ==
  ASSUME NEW s, IsSeq(s), NEW t
  PROVE  /\ IsSeq(Pairs(s, t)) /\ Len(Pairs(s, t)) = 2 * Len(s)
         /\ \A i \in 1 .. Len(s) : Pairs(s, t)[2 * i - 1] = s[i] /\ Pairs(s, t)[2 * i] = t[i]
<1> DEFINE n == 2 * Len(s)
           e(i) == IF Odd(i) THEN s[(i + 1) \div 2] ELSE t[i \div 2]
           f == [i \in 1 .. n |-> e(i)]
           S == {e(i) : i \in 1 .. n}
<1>1. Len(s) \in Nat /\ n \in Nat
  BY SeqFacts
<1>2. Pairs(s, t) = f
  BY DEF Pairs
<1>3. f \in [1 .. n -> S]
  OBVIOUS
<1>4. IsSeq(f) /\ Len(f) = n
  <2> HIDE DEF f, S, n
  <2> QED
    BY <1>1, <1>3, FunctionSeq
<1>5. ASSUME NEW i \in 1 .. Len(s) PROVE f[2 * i - 1] = s[i] /\ f[2 * i] = t[i]
  <2>1. \A j \in Nat : j > 0 => /\ (2 * j - 1) % 2 = 1 /\ (2 * j) % 2 = 0
                                /\ (2 * j - 1 + 1) \div 2 = j /\ (2 * j) \div 2 = j
    OBVIOUS
  <2>2. i \in Nat /\ i > 0 /\ 2 * i - 1 \in 1 .. n /\ 2 * i \in 1 .. n
    BY <1>1
  <2>3. f[2 * i - 1] = e(2 * i - 1) /\ f[2 * i] = e(2 * i)
    BY <2>2
  <2>4. Odd(2 * i - 1) /\ ~Odd(2 * i)
    BY <2>1, <2>2 DEF Odd
  <2>5. e(2 * i - 1) = s[(2 * i - 1 + 1) \div 2] /\ e(2 * i) = t[(2 * i) \div 2]
    BY <2>4
  <2>6. (2 * i - 1 + 1) \div 2 = i /\ (2 * i) \div 2 = i
    BY <2>1, <2>2
  <2> HIDE DEF f, e
  <2> QED
    BY <2>3, <2>5, <2>6
<1> HIDE DEF f
<1> QED
  BY <1>2, <1>4, <1>5

\* A search of any number of terms.
LEMMA SearchRequestWhole ==
  ASSUME NEW q, IsSeq(q)
  PROVE  /\ WholeRequest(SearchRequest(q)) /\ SearchRequest(q)[1] = SEARCH_REQUEST
         /\ SubSeq(SearchRequest(q), 3, Len(SearchRequest(q))) = q
<1> DEFINE h == <<SEARCH_REQUEST, Len(q)>>
           m == SearchRequest(q)
<1>1. IsSeq(h) /\ Len(h) = 2 /\ h[1] = SEARCH_REQUEST /\ h[2] = Len(q)
  BY TupleFacts
<1>2. m = h \o q
  BY DEF SearchRequest
<1> HIDE DEF h, m
<1>3. /\ IsSeq(m) /\ Len(m) = Len(h) + Len(q)
      /\ \A i \in 1 .. Len(h) : m[i] = h[i]
      /\ \A i \in 1 .. Len(q) : m[Len(h) + i] = q[i]
  <2>1. IsSeq(h) /\ IsSeq(q)
    BY <1>1
  <2>2. /\ IsSeq(h \o q) /\ Len(h \o q) = Len(h) + Len(q)
        /\ \A i \in 1 .. Len(h) : (h \o q)[i] = h[i]
        /\ \A i \in 1 .. Len(q) : (h \o q)[Len(h) + i] = q[i]
    BY <2>1, ConcatFacts
  <2> QED
    BY <1>2, <2>2
<1>4. Len(q) \in Nat /\ Len(m) = 2 + Len(q)
  BY <1>1, <1>3, SeqFacts
<1>5. m[1] = SEARCH_REQUEST /\ m[2] = Len(q)
  BY <1>1, <1>3
<1>6. WholeRequest(m)
  BY <1>3, <1>4, <1>5 DEF WholeRequest
<1>7. SubSeq(m, 3, Len(m)) = q
  <2>1. SubSeq(m, 3, Len(m)) = [i \in 1 .. Len(q) |-> m[i + 3 - 1]]
    <3>1. Len(m) - 3 + 1 = Len(q)
      BY <1>4
    <3> QED
      BY <3>1, <1>4
  <2>2. \A i \in 1 .. Len(q) : m[i + 3 - 1] = q[i]
    <3>1. \A i \in 1 .. Len(q) : i + 3 - 1 = Len(h) + i
      BY <1>1, <1>4
    <3> QED
      BY <1>3, <3>1
  <2>3. q = [i \in 1 .. Len(q) |-> q[i]]
    <3>1. q \in Seq({q[i] : i \in DOMAIN q})
      BY DEF IsSeq
    <3> QED
      BY <3>1
  <2> QED
    BY <2>1, <2>2, <2>3
<1> QED
  BY <1>5, <1>6, <1>7 DEF m

\* The orders of a finite set.
LEMMA OrderFacts ==
  ASSUME NEW S, IsFiniteSet(S), NEW s \in Orders(S)
  PROVE  /\ IsSeq(s) /\ Len(s) = Cardinality(S) /\ Cardinality(S) \in Nat
         /\ \A i \in 1 .. Len(s) : s[i] \in S
<1>1. Cardinality(S) \in Nat
  BY FS_CardinalityType
<1>2. s \in [1 .. Cardinality(S) -> S]
  BY DEF Orders
<1>3. IsSeq(s) /\ Len(s) = Cardinality(S)
  BY <1>1, <1>2, FunctionSeq
<1> QED
  BY <1>1, <1>2, <1>3

\* A document with any number of words.
LEMMA IndexRequestWhole ==
  ASSUME NEW owner, NEW path, NEW counts, IsFiniteSet(DOMAIN counts), NEW order \in Orders(DOMAIN counts)
  PROVE  LET m == IndexRequest(owner, path, counts, order)
             n == Cardinality(DOMAIN counts)
         IN  /\ WholeRequest(m) /\ m[1] = INDEX_REQUEST /\ m[2] = owner /\ m[3] = path /\ m[4] = n
             /\ \A i \in 1 .. n : m[2 * i + 3] = order[i] /\ m[2 * i + 4] = counts[order[i]]
<1> DEFINE n == Cardinality(DOMAIN counts)
           h == <<INDEX_REQUEST, owner, path, n>>
           t == [i \in DOMAIN order |-> counts[order[i]]]
           p == Pairs(order, t)
           m == IndexRequest(owner, path, counts, order)
<1>1. IsSeq(h) /\ Len(h) = 4 /\ h[1] = INDEX_REQUEST /\ h[2] = owner /\ h[3] = path /\ h[4] = n
  BY TupleFacts
<1>2. m = h \o p
  BY DEF IndexRequest
<1>3. IsSeq(order) /\ Len(order) = n /\ n \in Nat /\ DOMAIN order = 1 .. n
  BY OrderFacts, SeqFacts
<1>4. \A i \in 1 .. n : t[i] = counts[order[i]]
  BY <1>3
<1> HIDE DEF h, m, n, t
<1>5. /\ IsSeq(p) /\ Len(p) = 2 * n
      /\ \A i \in 1 .. n : p[2 * i - 1] = order[i] /\ p[2 * i] = t[i]
  BY <1>3, PairsFacts
<1> HIDE DEF p
<1>6. /\ IsSeq(m) /\ Len(m) = Len(h) + Len(p)
      /\ \A i \in 1 .. Len(h) : m[i] = h[i]
      /\ \A i \in 1 .. Len(p) : m[Len(h) + i] = p[i]
  <2>1. IsSeq(h) /\ IsSeq(p)
    BY <1>1, <1>5
  <2>2. /\ IsSeq(h \o p) /\ Len(h \o p) = Len(h) + Len(p)
        /\ \A i \in 1 .. Len(h) : (h \o p)[i] = h[i]
        /\ \A i \in 1 .. Len(p) : (h \o p)[Len(h) + i] = p[i]
    BY <2>1, ConcatFacts
  <2> QED
    BY <1>2, <2>2
<1>7. m[1] = INDEX_REQUEST /\ m[2] = owner /\ m[3] = path /\ m[4] = n /\ Len(m) = 4 + 2 * n
  BY <1>1, <1>5, <1>6
<1>8. WholeRequest(m)
  BY <1>3, <1>6, <1>7 DEF WholeRequest
<1>9. ASSUME NEW i \in 1 .. n PROVE m[2 * i + 3] = order[i] /\ m[2 * i + 4] = counts[order[i]]
  <2>1. /\ 2 * i - 1 \in 1 .. 2 * n /\ 2 * i \in 1 .. 2 * n
        /\ 2 * i + 3 = 4 + (2 * i - 1) /\ 2 * i + 4 = 4 + 2 * i
    BY <1>3
  <2>2. m[4 + (2 * i - 1)] = p[2 * i - 1] /\ m[4 + 2 * i] = p[2 * i]
    BY <1>1, <1>5, <1>6, <2>1
  <2> QED
    BY <1>4, <1>5, <2>1, <2>2
<1> QED
  BY <1>7, <1>8, <1>9 DEF m, n

\* A reply with any number of hits.
LEMMA SearchReplyWhole ==
  ASSUME NEW r, IsSeq(r.hits)
  PROVE  LET m == SearchReply(r)
         IN  /\ WholeReply(m) /\ m[1] = SEARCH_REPLY /\ m[2] = r.totalHits /\ m[3] = Len(r.hits)
             /\ Len(m) = 3 + 2 * Len(r.hits)
             /\ \A i \in 1 .. Len(r.hits) : m[2 * i + 2] = r.hits[i].path /\ m[2 * i + 3] = r.hits[i].freq
<1> DEFINE n == Len(r.hits)
           h == <<SEARCH_REPLY, r.totalHits, n>>
           s == [i \in DOMAIN r.hits |-> r.hits[i].path]
           t == [i \in DOMAIN r.hits |-> r.hits[i].freq]
           p == Pairs(s, t)
           m == SearchReply(r)
<1>1. IsSeq(h) /\ Len(h) = 3 /\ h[1] = SEARCH_REPLY /\ h[2] = r.totalHits /\ h[3] = n
  BY TupleFacts
<1>2. m = h \o p
  BY DEF SearchReply
<1>3. n \in Nat /\ DOMAIN r.hits = 1 .. n
  BY SeqFacts
<1>4. \A i \in 1 .. n : s[i] = r.hits[i].path /\ t[i] = r.hits[i].freq
  BY <1>3
<1>5. IsSeq(s) /\ Len(s) = n
  <2> DEFINE S == {r.hits[i].path : i \in 1 .. n}
  <2>1. s \in [1 .. n -> S]
    BY <1>3
  <2> HIDE DEF s, S, n
  <2> QED
    BY <1>3, <2>1, FunctionSeq
<1> HIDE DEF h, m, s, t, n
<1>6. /\ IsSeq(p) /\ Len(p) = 2 * n
      /\ \A i \in 1 .. n : p[2 * i - 1] = s[i] /\ p[2 * i] = t[i]
  BY <1>5, PairsFacts
<1> HIDE DEF p
<1>7. /\ IsSeq(m) /\ Len(m) = Len(h) + Len(p)
      /\ \A i \in 1 .. Len(h) : m[i] = h[i]
      /\ \A i \in 1 .. Len(p) : m[Len(h) + i] = p[i]
  <2>1. IsSeq(h) /\ IsSeq(p)
    BY <1>1, <1>6
  <2>2. /\ IsSeq(h \o p) /\ Len(h \o p) = Len(h) + Len(p)
        /\ \A i \in 1 .. Len(h) : (h \o p)[i] = h[i]
        /\ \A i \in 1 .. Len(p) : (h \o p)[Len(h) + i] = p[i]
    BY <2>1, ConcatFacts
  <2> QED
    BY <1>2, <2>2
<1>8. m[1] = SEARCH_REPLY /\ m[2] = r.totalHits /\ m[3] = n /\ Len(m) = 3 + 2 * n
  BY <1>1, <1>6, <1>7
<1>9. WholeReply(m)
  BY <1>3, <1>7, <1>8 DEF WholeReply
<1>10. ASSUME NEW i \in 1 .. n PROVE m[2 * i + 2] = r.hits[i].path /\ m[2 * i + 3] = r.hits[i].freq
  <2>1. /\ 2 * i - 1 \in 1 .. 2 * n /\ 2 * i \in 1 .. 2 * n
        /\ 2 * i + 2 = 3 + (2 * i - 1) /\ 2 * i + 3 = 3 + 2 * i
    BY <1>3
  <2>2. m[3 + (2 * i - 1)] = p[2 * i - 1] /\ m[3 + 2 * i] = p[2 * i]
    BY <1>1, <1>6, <1>7, <2>1
  <2> QED
    BY <1>4, <1>6, <2>1, <2>2
<1> QED
  BY <1>8, <1>9, <1>10 DEF m, n
-----------------------------------------------------------------------------
(* The tokenizer.                                                          *)

\* Induction on the natural numbers, for a set that holds 0 and every successor: the
\* numbers outside of it have no least one.
LEMMA SetInduction ==
  ASSUME NEW S, 0 \in S, \A n \in Nat : n \in S => n + 1 \in S
  PROVE  \A n \in Nat : n \in S
<1> DEFINE T == Nat \ S
           R == OpToRel(<, Nat)
<1>1. IsWellFoundedOn(R, Nat)
  BY NatLessThanWellFounded
<1>2. \A m, n \in Nat : m < n => <<m, n>> \in R
  BY DEF OpToRel
<1> SUFFICES ASSUME T # {} PROVE FALSE
  OBVIOUS
<1> HIDE DEF R
<1>3. PICK n \in T : \A m \in T : <<m, n>> \notin R
  BY <1>1, WFMin
<1>4. n - 1 \in Nat /\ n - 1 < n
  BY <1>3
<1>5. n - 1 \in S
  BY <1>2, <1>3, <1>4
<1> QED
  BY <1>3, <1>4, <1>5

\* The states of the loop over the characters, which Scan returns the last of.
Start == [word |-> <<>>, counts |-> NoCounts]
Scans(content) ==
  CHOOSE upTo : upTo = [i \in 0 .. Len(content) |->
                          IF i = 0 THEN Start ELSE Char(upTo[i - 1], content[i])]

\* Each state of the loop follows from the one before and a character.
LEMMA ScansRecursion ==
  ASSUME NEW c, Len(c) \in Nat
  PROVE  /\ Scans(c)[0] = Start
         /\ \A i \in 1 .. Len(c) : Scans(c)[i] = Char(Scans(c)[i - 1], c[i])
         /\ Scan(c) = Scans(c)[Len(c)]
<1> DEFINE Good(f, m) == \A i \in 0 .. m : f[i] = IF i = 0 THEN Start ELSE Char(f[i - 1], c[i])
           S == {m \in Nat : \E f : Good(f, m)}
<1>1. 0 \in S
  <2>1. Good([i \in 0 .. 0 |-> Start], 0)
    OBVIOUS
  <2> QED
    BY <2>1
<1>2. ASSUME NEW m \in Nat, m \in S
      PROVE  m + 1 \in S
  <2>1. PICK f : Good(f, m)
    BY <1>2
  <2> DEFINE g == [i \in 0 .. m + 1 |-> IF i <= m THEN f[i] ELSE Char(f[m], c[m + 1])]
  <2>2. ASSUME NEW i \in 0 .. m + 1
        PROVE  g[i] = IF i = 0 THEN Start ELSE Char(g[i - 1], c[i])
    <3>1. CASE i = 0
      BY <2>1, <3>1
    <3>2. CASE i \in 1 .. m
      <4>1. g[i] = f[i] /\ g[i - 1] = f[i - 1]
        BY <3>2
      <4>2. f[i] = Char(f[i - 1], c[i])
        BY <2>1, <3>2
      <4> QED
        BY <3>2, <4>1, <4>2
    <3>3. CASE i = m + 1
      <4>1. g[i] = Char(f[m], c[m + 1]) /\ g[i - 1] = f[m]
        BY <3>3
      <4> QED
        BY <3>3, <4>1
    <3> QED
      BY <3>1, <3>2, <3>3
  <2>3. Good(g, m + 1)
    BY <2>2
  <2> HIDE DEF g
  <2> QED
    BY <2>3
<1> HIDE DEF S
<1>3. Len(c) \in S
  BY <1>1, <1>2, SetInduction
<1> DEFINE upTo == Scans(c)
<1>4. upTo = [i \in 0 .. Len(c) |-> IF i = 0 THEN Start ELSE Char(upTo[i - 1], c[i])]
  <2>1. PICK f : Good(f, Len(c))
    BY <1>3 DEF S
  <2> DEFINE g == [i \in 0 .. Len(c) |-> f[i]]
  <2>2. g = [i \in 0 .. Len(c) |-> IF i = 0 THEN Start ELSE Char(g[i - 1], c[i])]
    <3>1. \A i \in 0 .. Len(c) : g[i] = IF i = 0 THEN Start ELSE Char(g[i - 1], c[i])
      BY <2>1
    <3> QED
      BY <3>1
  <2> HIDE DEF g
  <2> QED
    BY <2>2 DEF Scans
<1>5. Scan(c) = upTo[Len(c)]
  BY DEF Scan, Scans, Start
<1> HIDE DEF upTo
<1>6. \A i \in 0 .. Len(c) : upTo[i] = IF i = 0 THEN Start ELSE Char(upTo[i - 1], c[i])
  BY <1>4
<1>7. /\ upTo[0] = Start
      /\ \A i \in 1 .. Len(c) : upTo[i] = Char(upTo[i - 1], c[i])
  BY <1>6
<1> QED
  BY <1>5, <1>7 DEF upTo

Words == Seq(WordChar)
Counting == [word : Words, counts : UNION {[K -> Nat] : K \in SUBSET Words}]

\* One more of a word.
LEMMA BumpFacts ==
  ASSUME NEW counts \in UNION {[K -> Nat] : K \in SUBSET Words}, NEW w \in Words
  PROVE  /\ Bump(counts, w) \in UNION {[K -> Nat] : K \in SUBSET Words}
         /\ DOMAIN Bump(counts, w) = DOMAIN counts \union {w}
         /\ \A v \in DOMAIN counts \union {w} :
              Bump(counts, w)[v] = (IF v \in DOMAIN counts THEN counts[v] ELSE 0)
                                     + (IF v = w THEN 1 ELSE 0)
<1>1. DOMAIN counts \in SUBSET Words /\ \A v \in DOMAIN counts : counts[v] \in Nat
  OBVIOUS
<1> DEFINE D == DOMAIN counts \union {w}
           b(v) == (IF v \in DOMAIN counts THEN counts[v] ELSE 0) + (IF v = w THEN 1 ELSE 0)
<1>2. D \in SUBSET Words
  BY <1>1
<1>3. \A v \in D : b(v) \in Nat
  BY <1>1
<1>4. Bump(counts, w) = [v \in D |-> b(v)]
  BY DEF Bump
<1>5. [v \in D |-> b(v)] \in [D -> Nat]
  BY <1>3
<1> HIDE DEF D, b
<1>6. Bump(counts, w) \in UNION {[K -> Nat] : K \in SUBSET Words}
  BY <1>2, <1>4, <1>5
<1>7. DOMAIN Bump(counts, w) = D /\ \A v \in D : Bump(counts, w)[v] = b(v)
  BY <1>4
<1> QED
  BY <1>6, <1>7 DEF D, b

\* The loop counts words, finitely many of them.
LEMMA ScanType ==
  ASSUME NEW c, IsSeq(c)
  PROVE  \A i \in 0 .. Len(c) : Scans(c)[i] \in Counting /\ IsFiniteSet(DOMAIN Scans(c)[i].counts)
<1> DEFINE f == Scans(c)
           n == Len(c)
           S == {i \in Nat : i <= n => f[i] \in Counting /\ IsFiniteSet(DOMAIN f[i].counts)}
<1>1. n \in Nat
  BY SeqFacts
<1>2. f[0] = Start /\ \A i \in 1 .. n : f[i] = Char(f[i - 1], c[i])
  BY <1>1, ScansRecursion
<1> HIDE DEF f, n
<1>3. 0 \in S
  <2>1. NoCounts \in [{} -> Nat] /\ DOMAIN NoCounts = {}
    BY DEF NoCounts
  <2>2. <<>> \in Words
    BY EmptySeq DEF Words
  <2>3. NoCounts \in UNION {[K -> Nat] : K \in SUBSET Words}
    BY <2>1
  <2>4. Start \in Counting /\ Start.counts = NoCounts
    BY <2>2, <2>3 DEF Start, Counting
  <2>5. IsFiniteSet(DOMAIN NoCounts)
    BY <2>1, FS_EmptySet
  <2> QED
    BY <1>2, <2>4, <2>5
<1>4. ASSUME NEW i \in Nat, i \in S PROVE i + 1 \in S
  <2> SUFFICES ASSUME i + 1 <= n
               PROVE  f[i + 1] \in Counting /\ IsFiniteSet(DOMAIN f[i + 1].counts)
    OBVIOUS
  <2> DEFINE s == f[i]
  <2>1. s \in Counting /\ IsFiniteSet(DOMAIN s.counts)
    BY <1>1, <1>4
  <2>2. f[i + 1] = Char(s, c[i + 1])
    <3>1. i + 1 \in 1 .. n /\ i + 1 - 1 = i
      BY <1>1
    <3> QED
      BY <1>2, <3>1
  <2> HIDE DEF s
  <2>3. s.word \in Words /\ s.counts \in UNION {[K -> Nat] : K \in SUBSET Words}
        /\ s = [word |-> s.word, counts |-> s.counts]
    BY <2>1 DEF Counting
  <2>4. CASE c[i + 1] \in WordChar
    <3> DEFINE w == Append(s.word, c[i + 1])
    <3>1. w \in Words
      BY <2>3, <2>4, AppendProperties DEF Words
    <3>2. Char(s, c[i + 1]) = [word |-> w, counts |-> s.counts]
      BY <2>3, <2>4 DEF Char
    <3> HIDE DEF w
    <3> QED
      BY <2>1, <2>2, <2>3, <3>1, <3>2 DEF Counting
  <2>5. CASE c[i + 1] \notin WordChar
    <3>1. Char(s, c[i + 1]) = [word |-> <<>>, counts |-> Flush(s)]
      BY <2>5 DEF Char
    <3>2. <<>> \in Words
      BY EmptySeq DEF Words
    <3>3. /\ Flush(s) \in UNION {[K -> Nat] : K \in SUBSET Words}
          /\ IsFiniteSet(DOMAIN Flush(s))
      <4>1. CASE Flush(s) = s.counts
        BY <2>1, <2>3, <4>1
      <4>2. CASE Flush(s) = Bump(s.counts, s.word)
        <5>1. /\ Bump(s.counts, s.word) \in UNION {[K -> Nat] : K \in SUBSET Words}
              /\ DOMAIN Bump(s.counts, s.word) = DOMAIN s.counts \union {s.word}
          BY <2>3, BumpFacts
        <5>2. IsFiniteSet(DOMAIN s.counts \union {s.word})
          BY <2>1, FS_AddElement
        <5> QED
          BY <4>2, <5>1, <5>2
      <4> QED
        BY <4>1, <4>2 DEF Flush
    <3> QED
      BY <2>2, <3>1, <3>2, <3>3 DEF Counting
  <2> QED
    BY <2>4, <2>5
<1> HIDE DEF S
<1>5. \A i \in Nat : i \in S
  BY <1>3, <1>4, SetInduction
<1>6. \A i \in 0 .. n : i \in Nat /\ i <= n
  BY <1>1
<1> QED
  BY <1>5, <1>6 DEF S, f, n

\* A file has finitely many words.
LEMMA TokenizeFinite ==
  ASSUME NEW c, IsSeq(c)
  PROVE  /\ Tokenize(c) \in UNION {[K -> Nat] : K \in SUBSET Words}
         /\ IsFiniteSet(DOMAIN Tokenize(c))
<1> DEFINE s == Scan(c)
<1>1. Len(c) \in Nat /\ Len(c) \in 0 .. Len(c)
  BY SeqFacts
<1>2. s \in Counting /\ IsFiniteSet(DOMAIN s.counts)
  BY <1>1, ScanType, ScansRecursion
<1> HIDE DEF s
<1>3. s.word \in Words /\ s.counts \in UNION {[K -> Nat] : K \in SUBSET Words}
  BY <1>2 DEF Counting
<1>4. Tokenize(c) = Flush(s)
  BY DEF Tokenize, s
<1>5. CASE Flush(s) = s.counts
  BY <1>2, <1>3, <1>4, <1>5
<1>6. CASE Flush(s) = Bump(s.counts, s.word)
  <2>1. /\ Bump(s.counts, s.word) \in UNION {[K -> Nat] : K \in SUBSET Words}
        /\ DOMAIN Bump(s.counts, s.word) = DOMAIN s.counts \union {s.word}
    BY <1>3, BumpFacts
  <2>2. IsFiniteSet(DOMAIN s.counts \union {s.word})
    BY <1>2, FS_AddElement
  <2> QED
    BY <1>4, <1>6, <2>1, <2>2
<1> QED
  BY <1>5, <1>6 DEF Flush

\* The occurrences of a word that end before position i, and the words counted so far.
Ended(c, i, w) == {p \in Occurrences(c, w) : p + Len(w) - 1 < i}
Long == {w \in Words : Len(w) > minLength}
Counted(c, i) == [w \in {v \in Long : Ended(c, i, v) # {}} |-> Cardinality(Ended(c, i, w))]

\* The word at hand starts after position k.
AtHand(c, i, word, k) ==
  /\ k \in 0 .. i /\ Len(word) = i - k /\ word \in Words
  /\ \A j \in 1 .. i - k : word[j] = c[k + j] /\ c[k + j] \in WordChar
  /\ k = 0 \/ c[k] \notin WordChar

\* Where a word occurs, element by element.
LEMMA OccurrenceFacts ==
  ASSUME NEW c, IsSeq(c), NEW w \in Long, NEW p
  PROVE  /\ Len(w) \in Nat /\ Len(w) > 0 /\ IsSeq(w)
         /\ p \in Occurrences(c, w) <=>
              /\ p \in Nat /\ p > 0 /\ p + Len(w) - 1 <= Len(c)
              /\ Run(c, p, p + Len(w) - 1)
              /\ \A j \in 1 .. Len(w) : w[j] = c[p + j - 1]
<1>1. Len(c) \in Nat /\ DOMAIN c = 1 .. Len(c)
  BY SeqFacts
<1>2. w \in Seq(WordChar) /\ Len(w) > minLength /\ minLength \in Nat
  BY BoundsAssumption DEF Long, Words
<1>3. IsSeq(w)
  BY <1>2, SeqOf
<1>4. Len(w) \in Nat /\ Len(w) > 0
  BY <1>2, <1>3, SeqFacts
<1>5. ASSUME p \in Nat, p > 0, p + Len(w) - 1 <= Len(c)
      PROVE  /\ p \in DOMAIN c
             /\ SubSeq(c, p, p + Len(w) - 1) = w <=> \A j \in 1 .. Len(w) : w[j] = c[p + j - 1]
  <2> DEFINE q == p + Len(w) - 1
             s == SubSeq(c, p, q)
  <2>1. q \in Nat /\ q <= Len(c) /\ q + 1 >= p /\ q - p + 1 = Len(w) /\ p \in DOMAIN c
    BY <1>1, <1>4, <1>5
  <2> HIDE DEF q
  <2>2. IsSeq(s) /\ Len(s) = Len(w) /\ \A j \in 1 .. Len(w) : s[j] = c[p + j - 1]
    BY <1>5, <2>1, SubSeqFacts
  <2> HIDE DEF s
  <2>3. s = w <=> \A j \in 1 .. Len(w) : w[j] = c[p + j - 1]
    <3>1. ASSUME \A j \in 1 .. Len(w) : w[j] = c[p + j - 1] PROVE s = w
      <4>1. \A j \in 1 .. Len(s) : s[j] = w[j]
        BY <2>2, <3>1
      <4>2. IsSeq(s) /\ Len(s) = Len(w)
        BY <2>2
      <4> QED
        BY <1>3, <4>1, <4>2, SeqSame DEF SameElements
    <3> QED
      BY <2>2, <3>1
  <2> QED
    BY <2>1, <2>3 DEF q, s
<1>6. p \in DOMAIN c => p \in Nat /\ p > 0
  BY <1>1
<1> QED
  BY <1>3, <1>4, <1>5, <1>6 DEF Occurrences

\* The word at hand ends here, or goes on.
LEMMA EndedNext ==
  ASSUME NEW c, IsSeq(c), NEW i \in Nat, i <= Len(c), NEW word, NEW k, AtHand(c, i, word, k),
         NEW w \in Long
  PROVE  Ended(c, i + 1, w) =
           Ended(c, i, w) \union IF w = word /\ (i = Len(c) \/ c[i + 1] \notin WordChar)
                                   THEN {k + 1} ELSE {}
<1>1. Len(w) \in Nat /\ Len(w) > 0 /\ IsSeq(w) /\ Len(c) \in Nat /\ k \in Nat /\ k <= i
  BY OccurrenceFacts, SeqFacts DEF AtHand
<1>2. ASSUME NEW p \in Ended(c, i + 1, w), p \notin Ended(c, i, w)
      PROVE  w = word /\ (i = Len(c) \/ c[i + 1] \notin WordChar) /\ p = k + 1
  <2>1. /\ p \in Nat /\ p > 0 /\ p + Len(w) - 1 <= Len(c) /\ Run(c, p, p + Len(w) - 1)
        /\ \A j \in 1 .. Len(w) : w[j] = c[p + j - 1]
        /\ p + Len(w) - 1 < i + 1 /\ ~(p + Len(w) - 1 < i)
    BY <1>2, OccurrenceFacts DEF Ended
  <2>2. p + Len(w) - 1 = i /\ p <= i
    <3>1. \A n, l, m \in Nat : l > 0 /\ n + l - 1 < m + 1 /\ ~(n + l - 1 < m) => n + l - 1 = m /\ n <= m
      OBVIOUS
    <3> QED
      BY <1>1, <2>1, <3>1
  <2>3. /\ \A j \in p .. i : c[j] \in WordChar
        /\ p = 1 \/ c[p - 1] \notin WordChar
        /\ i = Len(c) \/ c[i + 1] \notin WordChar
    BY <2>1, <2>2 DEF Run
  <2>4. ~(p < k + 1)
    <3> SUFFICES ASSUME p < k + 1 PROVE FALSE
      OBVIOUS
    <3>1. k \in p .. i /\ k # 0
      BY <1>1, <2>1
    <3> QED
      BY <2>3, <3>1 DEF AtHand
  <2>5. ~(p > k + 1)
    <3> SUFFICES ASSUME p > k + 1 PROVE FALSE
      OBVIOUS
    <3>1. p - 1 - k \in 1 .. i - k /\ k + (p - 1 - k) = p - 1 /\ p # 1
      BY <1>1, <2>1, <2>2
    <3> QED
      BY <2>3, <3>1 DEF AtHand
  <2>6. p = k + 1
    BY <1>1, <2>1, <2>4, <2>5
  <2>7. Len(w) = Len(word) /\ \A j \in 1 .. Len(w) : w[j] = word[j]
    <3>1. Len(w) = i - k /\ Len(word) = i - k /\ \A j \in 1 .. i - k : word[j] = c[k + j]
      BY <1>1, <2>2, <2>6 DEF AtHand
    <3>2. \A j \in 1 .. i - k : p + j - 1 = k + j
      BY <1>1, <2>6
    <3> QED
      BY <2>1, <3>1, <3>2
  <2>8. IsSeq(word)
    BY SeqOf DEF AtHand, Words
  <2>9. w = word
    BY <1>1, <2>7, <2>8, SeqSame DEF SameElements
  <2> QED
    BY <2>3, <2>6, <2>9
<1>3. ASSUME NEW p \in Ended(c, i, w) PROVE p \in Ended(c, i + 1, w)
  <2>1. p \in Nat
    BY <1>3, OccurrenceFacts DEF Ended
  <2> QED
    BY <1>1, <1>3, <2>1 DEF Ended
<1>4. ASSUME w = word, i = Len(c) \/ c[i + 1] \notin WordChar PROVE k + 1 \in Ended(c, i + 1, w)
  <2>1. Len(w) = i - k /\ k + 1 + Len(w) - 1 = i
    BY <1>1, <1>4 DEF AtHand
  <2>2. \A j \in k + 1 .. i : c[j] \in WordChar
    <3> TAKE j \in k + 1 .. i
    <3>1. j - k \in 1 .. i - k /\ k + (j - k) = j
      BY <1>1
    <3> QED
      BY <3>1 DEF AtHand
  <2>3. k + 1 = 1 \/ c[k + 1 - 1] \notin WordChar
    BY <1>1 DEF AtHand
  <2>4. Run(c, k + 1, i)
    BY <1>4, <2>2, <2>3 DEF Run, AtHand
  <2>5. \A j \in 1 .. Len(w) : w[j] = c[k + 1 + j - 1]
    <3>1. \A j \in 1 .. Len(w) : k + 1 + j - 1 = k + j
      BY <1>1
    <3> QED
      BY <1>4, <2>1, <3>1 DEF AtHand
  <2>6. k + 1 \in Nat /\ k + 1 > 0
    BY <1>1
  <2>7. k + 1 \in Occurrences(c, w)
    BY <2>1, <2>4, <2>5, <2>6, OccurrenceFacts
  <2> QED
    BY <2>1, <2>7 DEF Ended
<1> QED
  BY <1>2, <1>3, <1>4

\* A word occurs finitely often.
LEMMA EndedFinite ==
  ASSUME NEW c, IsSeq(c), NEW i, NEW w
  PROVE  IsFiniteSet(Ended(c, i, w))
<1>1. DOMAIN c = 1 .. Len(c) /\ Len(c) \in Int /\ 1 \in Int
  BY SeqFacts
<1>2. IsFiniteSet(DOMAIN c)
  BY <1>1, FS_Interval
<1>3. Ended(c, i, w) \subseteq DOMAIN c
  BY DEF Ended, Occurrences
<1> QED
  BY <1>2, <1>3, FS_Subset

\* When the word at hand ends, it is counted.
LEMMA FlushCounts ==
  ASSUME NEW c, IsSeq(c), NEW i \in Nat, i <= Len(c), NEW s, NEW k, AtHand(c, i, s.word, k),
         s.counts = Counted(c, i), i = Len(c) \/ c[i + 1] \notin WordChar
  PROVE  Flush(s) = Counted(c, i + 1)
<1> DEFINE D(j) == {v \in Long : Ended(c, j, v) # {}}
           n(j, v) == Cardinality(Ended(c, j, v))
<1>1. \A w \in Long : Ended(c, i + 1, w) = Ended(c, i, w) \union IF w = s.word THEN {k + 1} ELSE {}
  BY EndedNext
<1>2. \A v \in Long : v # s.word => Ended(c, i + 1, v) = Ended(c, i, v)
  BY <1>1
<1>3. CASE s.word \notin Long
  <2>1. ~(Len(s.word) > minLength)
    BY <1>3 DEF Long, AtHand
  <2>2. Flush(s) = s.counts
    BY <2>1 DEF Flush
  <2>3. \A v \in Long : Ended(c, i + 1, v) = Ended(c, i, v)
    BY <1>2, <1>3
  <2>4. Counted(c, i + 1) = Counted(c, i)
    BY <2>3 DEF Counted
  <2> QED
    BY <2>2, <2>4
<1>4. CASE s.word \in Long
  <2>1. Flush(s) = Bump(s.counts, s.word)
    BY <1>4 DEF Flush, Long
  <2>2. Ended(c, i + 1, s.word) = Ended(c, i, s.word) \union {k + 1}
    BY <1>1, <1>4
  <2>3. k + 1 \notin Ended(c, i, s.word)
    <3>1. k \in Nat /\ Len(s.word) = i - k
      BY DEF AtHand
    <3>2. ~(k + 1 + Len(s.word) - 1 < i)
      BY <3>1
    <3> QED
      BY <3>2 DEF Ended
  <2>4. n(i + 1, s.word) = n(i, s.word) + 1 /\ (Ended(c, i, s.word) = {} => n(i, s.word) = 0)
    BY <2>2, <2>3, EndedFinite, FS_AddElement, FS_EmptySet
  <2>5. D(i + 1) = D(i) \union {s.word}
    BY <1>2, <1>4, <2>2
  <2>6. DOMAIN s.counts = D(i) /\ \A v \in D(i) : s.counts[v] = n(i, v)
    BY DEF Counted
  <2>7. \A v \in D(i + 1) :
          (IF v \in D(i) THEN s.counts[v] ELSE 0) + (IF v = s.word THEN 1 ELSE 0) = n(i + 1, v)
    <3> SUFFICES ASSUME NEW v \in D(i + 1)
                 PROVE  (IF v \in D(i) THEN s.counts[v] ELSE 0) + (IF v = s.word THEN 1 ELSE 0) = n(i + 1, v)
      OBVIOUS
    <3>1. CASE v = s.word
      <4>1. n(i, s.word) = IF v \in D(i) THEN s.counts[v] ELSE 0
        BY <1>4, <2>4, <2>6, <3>1
      <4> QED
        BY <2>4, <3>1, <4>1
    <3>2. CASE v # s.word
      <4>1. v \in D(i) /\ n(i + 1, v) = n(i, v)
        BY <1>2, <3>2
      <4>2. n(i, v) \in Nat
        BY EndedFinite, FS_CardinalityType
      <4>3. s.counts[v] = n(i, v)
        BY <2>6, <4>1
      <4> HIDE DEF n, D
      <4> QED
        BY <3>2, <4>1, <4>2, <4>3
    <3> QED
      BY <3>1, <3>2
  <2>8. Bump(s.counts, s.word) =
          [v \in D(i + 1) |-> (IF v \in D(i) THEN s.counts[v] ELSE 0) + (IF v = s.word THEN 1 ELSE 0)]
    BY <2>5, <2>6 DEF Bump
  <2>9. Counted(c, i + 1) = [v \in D(i + 1) |-> n(i + 1, v)]
    BY DEF Counted
  <2> HIDE DEF D, n
  <2> QED
    BY <2>1, <2>7, <2>8, <2>9
<1> QED
  BY <1>3, <1>4

\* A character that belongs to a word, or does not.
LEMMA CharCounts ==
  ASSUME NEW c, IsSeq(c), NEW i \in Nat, i < Len(c), NEW s, NEW k, AtHand(c, i, s.word, k),
         s.counts = Counted(c, i), s = [word |-> s.word, counts |-> s.counts]
  PROVE  /\ Char(s, c[i + 1]).counts = Counted(c, i + 1)
         /\ \E h : AtHand(c, i + 1, Char(s, c[i + 1]).word, h)
<1>0. k \in Nat /\ k <= i /\ Len(s.word) = i - k /\ s.word \in Seq(WordChar) /\ Len(c) \in Nat
  BY SeqFacts DEF AtHand, Words
<1>1. CASE c[i + 1] \in WordChar
  <2> DEFINE w == Append(s.word, c[i + 1])
  <2>1. Char(s, c[i + 1]) = [word |-> w, counts |-> s.counts]
    BY <1>1 DEF Char
  <2>2. \A v \in Long : Ended(c, i + 1, v) = Ended(c, i, v)
    <3> TAKE v \in Long
    <3>1. ~(i = Len(c) \/ c[i + 1] \notin WordChar) /\ i <= Len(c)
      BY <1>0, <1>1
    <3>2. Ended(c, i + 1, v) =
            Ended(c, i, v) \union IF v = s.word /\ (i = Len(c) \/ c[i + 1] \notin WordChar)
                                    THEN {k + 1} ELSE {}
      BY <3>1, EndedNext
    <3> QED
      BY <3>1, <3>2
  <2>3. Counted(c, i + 1) = Counted(c, i)
    BY <2>2 DEF Counted
  <2>4. AtHand(c, i + 1, w, k)
    <3>1. IsSeq(s.word)
      BY <1>0, SeqOf
    <3>2. /\ Len(w) = i - k + 1 /\ w[i - k + 1] = c[i + 1]
          /\ \A j \in 1 .. i - k : w[j] = s.word[j]
      BY <1>0, <3>1, AppendFacts
    <3>3. w \in Words
      BY <1>0, <1>1, AppendProperties DEF Words
    <3> HIDE DEF w
    <3>4. ASSUME NEW j \in 1 .. i + 1 - k PROVE w[j] = c[k + j] /\ c[k + j] \in WordChar
      <4>1. CASE j \in 1 .. i - k
        BY <3>2, <4>1 DEF AtHand
      <4>2. CASE j = i - k + 1
        <5>1. k + j = i + 1
          BY <1>0, <4>2
        <5> QED
          BY <1>1, <3>2, <4>2, <5>1
      <4> QED
        BY <1>0, <4>1, <4>2
    <3>5. k \in 0 .. i + 1 /\ Len(w) = i + 1 - k
      BY <1>0, <3>2
    <3> QED
      BY <3>3, <3>4, <3>5 DEF AtHand
  <2> QED
    BY <2>1, <2>3, <2>4
<1>2. CASE c[i + 1] \notin WordChar
  <2>1. Char(s, c[i + 1]) = [word |-> <<>>, counts |-> Flush(s)]
    BY <1>2 DEF Char
  <2>2. Flush(s) = Counted(c, i + 1)
    <3>1. /\ IsSeq(c) /\ i \in Nat /\ i <= Len(c) /\ AtHand(c, i, s.word, k)
          /\ s.counts = Counted(c, i) /\ c[i + 1] \notin WordChar
      BY <1>0, <1>2
    <3> QED
      BY ONLY <3>1, FlushCounts
  <2>3. AtHand(c, i + 1, <<>>, i + 1)
    <3>0. PICK m \in Nat : m = i + 1
      OBVIOUS
    <3>1. m \in 0 .. m /\ m - m = 0 /\ Len(<<>>) = 0 /\ <<>> \in Words
      BY EmptySeqFacts, EmptySeq DEF Words
    <3>2. \A j \in 1 .. m - m : FALSE
      BY <3>1
    <3>3. AtHand(c, m, <<>>, m)
      BY <1>2, <3>0, <3>1, <3>2 DEF AtHand
    <3> QED
      BY <3>0, <3>3
  <2> QED
    BY <2>1, <2>2, <2>3
<1> QED
  BY <1>1, <1>2

\* The words of the text that the loop has seen so far are counted.
LEMMA ScanCounts ==
  ASSUME NEW c, IsSeq(c)
  PROVE  Scan(c).counts = Counted(c, Len(c)) /\ \E k : AtHand(c, Len(c), Scan(c).word, k)
<1> DEFINE f == Scans(c)
           n == Len(c)
           Right(i) == f[i].counts = Counted(c, i) /\ \E k : AtHand(c, i, f[i].word, k)
           S == {i \in Nat : i <= n => Right(i)}
<1>1. n \in Nat /\ DOMAIN c = 1 .. n
  BY SeqFacts
<1>2. f[0] = Start /\ (\A i \in 1 .. n : f[i] = Char(f[i - 1], c[i])) /\ Scan(c) = f[n]
  BY <1>1, ScansRecursion
<1>3. \A i \in 0 .. n : f[i] \in Counting
  BY ScanType
<1> HIDE DEF f, n
<1>4. 0 \in S
  <2>1. \A v \in Long : Ended(c, 0, v) = {}
    <3> SUFFICES ASSUME NEW v \in Long, NEW p \in Ended(c, 0, v) PROVE FALSE
      OBVIOUS
    <3>1. p \in Nat /\ p > 0 /\ Len(v) \in Nat /\ Len(v) > 0 /\ p + Len(v) - 1 < 0
      BY OccurrenceFacts DEF Ended
    <3> QED
      BY <3>1
  <2>2. Counted(c, 0) = NoCounts
    BY <2>1 DEF Counted, NoCounts
  <2>3. AtHand(c, 0, <<>>, 0)
    <3>1. 0 \in 0 .. 0 /\ 0 - 0 = 0 /\ Len(<<>>) = 0 /\ <<>> \in Words /\ \A j \in 1 .. 0 : FALSE
      BY EmptySeqFacts, EmptySeq DEF Words
    <3> QED
      BY <3>1 DEF AtHand
  <2>4. Start.word = <<>> /\ Start.counts = NoCounts
    BY DEF Start
  <2> QED
    BY <1>2, <2>2, <2>3, <2>4
<1>5. ASSUME NEW i \in Nat, i \in S PROVE i + 1 \in S
  <2> SUFFICES ASSUME i + 1 <= n PROVE Right(i + 1)
    OBVIOUS
  <2>1. Right(i) /\ i < n
    BY <1>1, <1>5
  <2>2. f[i + 1] = Char(f[i], c[i + 1])
    <3>1. i + 1 \in 1 .. n /\ i + 1 - 1 = i
      BY <1>1
    <3> QED
      BY <1>2, <3>1
  <2>3. f[i] = [word |-> f[i].word, counts |-> f[i].counts]
    BY <1>1, <1>3, <2>1 DEF Counting
  <2>4. PICK k : AtHand(c, i, f[i].word, k)
    BY <2>1
  <2>5. /\ Char(f[i], c[i + 1]).counts = Counted(c, i + 1)
        /\ \E h : AtHand(c, i + 1, Char(f[i], c[i + 1]).word, h)
    BY <2>1, <2>3, <2>4, CharCounts DEF n
  <2> QED
    BY <2>2, <2>5
<1> HIDE DEF S
<1>6. n \in S
  BY <1>1, <1>4, <1>5, SetInduction
<1> QED
  BY <1>1, <1>2, <1>6 DEF S, n

\* The words of a text are those that occur in it.
LEMMA WordsOccur ==
  ASSUME NEW c, IsSeq(c)
  PROVE  WordsOf(c) = {w \in Long : Occurrences(c, w) # {}}
<1>1. Len(c) \in Nat /\ DOMAIN c = 1 .. Len(c) /\ minLength \in Nat
  BY SeqFacts, BoundsAssumption
<1>2. ASSUME NEW w \in WordsOf(c) PROVE w \in Long /\ Occurrences(c, w) # {}
  <2>1. PICK p \in DOMAIN c, q \in DOMAIN c :
               q - p >= minLength /\ Run(c, p, q) /\ w = SubSeq(c, p, q)
    BY DEF WordsOf
  <2>2. p \in Nat /\ p > 0 /\ q \in Nat /\ q <= Len(c) /\ q + 1 >= p /\ q >= p
    BY <1>1, <2>1
  <2>3. /\ IsSeq(w) /\ Len(w) = q - p + 1
        /\ \A i \in 1 .. q - p + 1 : w[i] = c[p + i - 1]
    BY <2>1, <2>2, SubSeqFacts
  <2>4. w \in Long
    <3>1. ASSUME NEW i \in DOMAIN w PROVE w[i] \in WordChar
      <4>1. i \in 1 .. q - p + 1
        BY <2>3, SeqFacts
      <4>2. p + i - 1 \in p .. q
        BY <2>2, <4>1
      <4> QED
        BY <2>1, <2>3, <4>1, <4>2 DEF Run
    <3>2. w \in Seq(WordChar)
      <4>1. w \in [1 .. Len(w) -> WordChar] /\ Len(w) \in Nat
        <5>1. w \in Seq({w[i] : i \in DOMAIN w})
          BY <2>3 DEF IsSeq
        <5>2. w = [i \in DOMAIN w |-> w[i]]
          BY <5>1
        <5>3. DOMAIN w = 1 .. Len(w) /\ Len(w) \in Nat
          BY <2>3, SeqFacts
        <5> QED
          BY <3>1, <5>2, <5>3
      <4> QED
        BY <4>1
    <3>3. Len(w) > minLength
      BY <1>1, <2>1, <2>2, <2>3
    <3> QED
      BY <3>2, <3>3 DEF Long, Words
  <2>5. p \in Occurrences(c, w)
    <3>1. p + Len(w) - 1 = q
      BY <2>2, <2>3
    <3> QED
      BY <2>1, <2>2, <2>3, <2>4, <3>1, OccurrenceFacts
  <2> QED
    BY <2>4, <2>5
<1>3. ASSUME NEW w \in Long, NEW p \in Occurrences(c, w) PROVE w \in WordsOf(c)
  <2> DEFINE q == p + Len(w) - 1
  <2>1. Len(w) \in Nat /\ Len(w) > minLength /\ p \in Nat /\ p > 0 /\ q <= Len(c)
    BY OccurrenceFacts DEF Long
  <2>2. p \in DOMAIN c /\ Run(c, p, q) /\ w = SubSeq(c, p, q)
    BY <1>3 DEF Occurrences
  <2>3. q \in DOMAIN c /\ q - p >= minLength
    BY <1>1, <2>1
  <2> HIDE DEF q
  <2>4. <<p, q>> \in {r \in (DOMAIN c) \X (DOMAIN c) : r[2] - r[1] >= minLength /\ Run(c, r[1], r[2])}
    BY <2>2, <2>3
  <2>5. PICK r \in {x \in (DOMAIN c) \X (DOMAIN c) : x[2] - x[1] >= minLength /\ Run(c, x[1], x[2])} :
           r[1] = p /\ r[2] = q
    BY <2>4
  <2>6. w = SubSeq(c, r[1], r[2])
    BY <2>2, <2>5
  <2> QED
    BY <2>6 DEF WordsOf
<1> QED
  BY <1>2, <1>3

\* The tokenizer of the socket client (ClientProcessingEngine.cpp:50-65) counts a
\* text of any length exactly: its words are the maximal runs of more than minLength word
\* characters, and a word is counted once for every place where it is such a run.
THEOREM TokenizeExact ==
  ASSUME NEW c, IsSeq(c)
  PROVE  Tokenize(c) = [w \in WordsOf(c) |-> Cardinality(Occurrences(c, w))]
<1> DEFINE n == Len(c)
<1>1. n \in Nat
  BY SeqFacts
<1>2. PICK k : AtHand(c, n, Scan(c).word, k)
  BY ScanCounts
<1>3. Scan(c).counts = Counted(c, n)
  BY ScanCounts
<1>4. Flush(Scan(c)) = Counted(c, n + 1)
  BY <1>1, <1>2, <1>3, FlushCounts
<1>5. \A w \in Long : Ended(c, n + 1, w) = Occurrences(c, w)
  <2> TAKE w \in Long
  <2>1. ASSUME NEW p \in Occurrences(c, w) PROVE p + Len(w) - 1 < n + 1
    <3>1. p \in Nat /\ Len(w) \in Nat /\ p + Len(w) - 1 <= n
      BY OccurrenceFacts
    <3> QED
      BY <1>1, <3>1
  <2> QED
    BY <2>1 DEF Ended
<1>6. WordsOf(c) = {w \in Long : Occurrences(c, w) # {}}
  BY WordsOccur
<1> HIDE DEF n
<1> QED
  BY <1>4, <1>5, <1>6 DEF Tokenize, Counted
-----------------------------------------------------------------------------
(* The invariant of the exchange.                                          *)

\* What the client sends for its command, and what the worker answers.
RequestOf(m) ==
  \/ command = "connect" /\ m = <<REGISTER_REQUEST>>
  \/ /\ command = "index" /\ IsSeq(meant.content)
     /\ LET counts == Tokenize(meant.content)
        IN  \E order \in Orders(DOMAIN counts) : m = IndexRequest(meant.owner, meant.path, counts, order)
  \/ command = "search" /\ meant \in Query /\ m = SearchRequest(meant)
ReplyOf(r) ==
  \/ command = "connect" /\ id \in 1 .. nextClientId - 1 /\ r = <<REGISTER_REPLY, id>>
  \/ command = "index" /\ r = <<INDEX_REPLY, 0>>
  \/ command = "search" /\ r = SearchReply(Find(meant))

Shape ==
  /\ IsSeq(out) /\ IsSeq(answer) /\ IsSeq(toServer) /\ IsSeq(toClient) /\ IsSeq(got) /\ IsSeq(reply)
  /\ IsSeq(files) /\ \A i \in DOMAIN files : IsSeq(files[i].content)
  /\ IsSeq(documents) /\ IsSeq(origin) /\ Len(origin) = Len(documents)

\* How far the client program is.
Program ==
  /\ pc \in {"files", "send", "receive"} => connected
  /\ pc = "gone" => ~connected
  /\ pc = "files" => command = "index"
  /\ pc \in {"send", "receive"} => command \in {"connect", "index", "search"}
  /\ pc \in {"send", "receive"} /\ command # "index" => files = <<>>
  /\ pc = "send" => answer = <<>> /\ out # <<>>
  /\ pc = "receive" => out = <<>>
  /\ pc \in {"shell", "files"} => out = <<>> /\ answer = <<>>
  /\ pc = "shell" => files = <<>>

Known == command # "connect" => clientId = id

\* Nothing is under way between two requests; a request is with the client, under way or
\* with the worker until it is read; a reply likewise.
Idle == /\ toServer = <<>> /\ toClient = <<>> /\ got = <<>> /\ reply = <<>> /\ worker = "read"
        /\ clientId = id
Asking == /\ toClient = <<>> /\ answer = <<>> /\ reply = <<>> /\ worker = "read" /\ Known
          /\ \E m : RequestOf(m) /\ Split(m, got, toServer, out)
Answering == /\ got = <<>> /\ toServer = <<>> /\ Known /\ (reply = <<>> <=> worker = "read")
             /\ \E r : ReplyOf(r) /\ Split(r, answer, toClient, reply)

Agreed ==
  connected /\ ServerOpen =>
    /\ pc \in {"shell", "files"} => Idle
    /\ pc = "send" => Asking
    /\ pc = "receive" => Asking \/ Answering

\* What comes as the i-th field of the reply to a registration that broke off.
Proper(i, v) == /\ i = 1 => v = REGISTER_REPLY
                /\ i = 2 => v \in Garbage \union 1 .. nextClientId - 1
Broken ==
  pc \in {"send", "receive"} /\ command = "connect" /\ ~ServerOpen =>
    /\ \A i \in DOMAIN answer : Proper(i, answer[i])
    /\ \A i \in DOMAIN toClient : Proper(Len(answer) + i, toClient[i])

IInv == TypeOK /\ Shape /\ Program /\ Agreed /\ Broken

\* What a search finds is a list.
LEMMA FindFacts ==
  ASSUME IsSeq(documents), NEW terms
  PROVE  IsSeq(Find(terms).hits)
<1> DEFINE found == {d \in DOMAIN documents :
                       /\ terms # <<>>
                       /\ \A i \in DOMAIN terms : terms[i] \in DOMAIN documents[d].counts}
           score(d) ==
             LET sum[i \in 0 .. Len(terms)] ==
                   IF i = 0 THEN 0 ELSE sum[i - 1] + documents[d].counts[terms[i]]
             IN  sum[Len(terms)]
           hit(d) == [doc |-> d, path |-> documents[d].path, freq |-> score(d)]
           hits == {hit(d) : d \in found}
           total == Cardinality(hits)
           n == IF total > resultLimit THEN resultLimit ELSE total
           h(i) == CHOOSE x \in hits : Cardinality({g \in hits : Before(g, x)}) = i - 1
           list == [i \in 1 .. n |-> h(i)]
<1>1. Find(terms).hits = list
  BY DEF Find
<1>2. total \in Nat
  <2>1. IsFiniteSet(DOMAIN documents)
    <3>1. DOMAIN documents = 1 .. Len(documents) /\ Len(documents) \in Int /\ 1 \in Int
      BY SeqFacts
    <3> QED
      BY <3>1, FS_Interval
  <2>2. IsFiniteSet(found)
    <3>1. found \subseteq DOMAIN documents
      OBVIOUS
    <3> HIDE DEF found
    <3> QED
      BY <2>1, <3>1, FS_Subset
  <2>3. IsFiniteSet(hits)
    <3>1. hits = {hit(d) : d \in found}
      OBVIOUS
    <3> HIDE DEF hit, found, hits
    <3> DEFINE F == [d \in found |-> hit(d)]
    <3>2. F \in Surjection(found, hits)
      BY <3>1 DEF Surjection
    <3> HIDE DEF F
    <3> QED
      BY <2>2, <3>2, FS_Surjection
  <2> HIDE DEF hits
  <2> QED
    BY <2>3, FS_CardinalityType
<1> HIDE DEF h, total
<1>3. n \in Nat
  BY <1>2, BoundsAssumption
<1>4. list \in [1 .. n -> {h(i) : i \in 1 .. n}]
  OBVIOUS
<1> HIDE DEF list, n
<1> QED
  BY <1>1, <1>3, <1>4, FunctionSeq

\* Every request is a whole message: REGISTER_REQUEST, a file, or terms
\* (ClientProcessingEngine.cpp connect, indexFolder and search).
LEMMA RequestFacts ==
  ASSUME NEW m, RequestOf(m)
  PROVE  WholeRequest(m) /\ m # <<>>
<1>1. WholeRequest(m)
  <2>1. CASE command = "connect" /\ m = <<REGISTER_REQUEST>>
    <3>1. IsSeq(m) /\ Len(m) = 1 /\ m[1] = REGISTER_REQUEST
      BY <2>1, TupleFacts
    <3> QED
      BY <3>1 DEF WholeRequest
  <2>2. CASE /\ command = "index" /\ IsSeq(meant.content)
             /\ LET counts == Tokenize(meant.content)
                IN  \E order \in Orders(DOMAIN counts) : m = IndexRequest(meant.owner, meant.path, counts, order)
    <3> DEFINE counts == Tokenize(meant.content)
    <3>1. PICK order \in Orders(DOMAIN counts) : m = IndexRequest(meant.owner, meant.path, counts, order)
      BY <2>2
    <3>2. IsFiniteSet(DOMAIN counts)
      BY <2>2, TokenizeFinite
    <3> HIDE DEF counts
    <3> QED
      BY <3>1, <3>2, IndexRequestWhole
  <2>3. CASE command = "search" /\ meant \in Query /\ m = SearchRequest(meant)
    BY <2>3, QueryAssumption, SearchRequestWhole
  <2> QED
    BY <2>1, <2>2, <2>3 DEF RequestOf
<1>2. Len(m) > 0
  BY <1>1 DEF WholeRequest
<1>3. IsSeq(m)
  BY <1>1 DEF WholeRequest
<1> QED
  BY <1>1, <1>2, <1>3, SeqFacts

\* So is every reply (ServerProcessingEngine.cpp runWorker).
LEMMA ReplyFacts ==
  ASSUME IsSeq(documents), NEW r, ReplyOf(r)
  PROVE  WholeReply(r) /\ r # <<>>
<1>1. WholeReply(r)
  <2>1. CASE command = "connect" /\ id \in 1 .. nextClientId - 1 /\ r = <<REGISTER_REPLY, id>>
    <3>1. IsSeq(r) /\ Len(r) = 2 /\ r[1] = REGISTER_REPLY
      BY <2>1, TupleFacts
    <3> QED
      BY <3>1 DEF WholeReply
  <2>2. CASE command = "index" /\ r = <<INDEX_REPLY, 0>>
    <3>1. IsSeq(r) /\ Len(r) = 2 /\ r[1] = INDEX_REPLY
      BY <2>2, TupleFacts
    <3> QED
      BY <3>1 DEF WholeReply
  <2>3. CASE command = "search" /\ r = SearchReply(Find(meant))
    <3>1. IsSeq(Find(meant).hits)
      BY FindFacts
    <3> QED
      BY <2>3, <3>1, SearchReplyWhole
  <2> QED
    BY <2>1, <2>2, <2>3 DEF ReplyOf
<1>2. Len(r) > 0
  BY <1>1 DEF WholeReply
<1>3. IsSeq(r)
  BY <1>1 DEF WholeReply
<1> QED
  BY <1>1, <1>2, <1>3, SeqFacts

\* A request stays the same while the client means the same.
LEMMA SameRequest ==
  ASSUME UNCHANGED <<command, meant>>, NEW m
  PROVE  RequestOf(m)' <=> RequestOf(m)
BY DEF RequestOf

\* A reply stays the same while the store does.
LEMMA SameReply ==
  ASSUME UNCHANGED <<command, meant, id, nextClientId, documents>>, NEW r
  PROVE  ReplyOf(r)' <=> ReplyOf(r)
<1>1. Find(meant)' = Find(meant)
  BY DEF Find
<1> QED
  BY <1>1 DEF ReplyOf

\* connect.
LEMMA ConnectKeeps == IInv /\ Connect => IInv'
<1> SUFFICES ASSUME IInv, Connect PROVE IInv'
  OBVIOUS
<1>1. TypeOK /\ Shape /\ Program
  BY DEF IInv
<1>2. /\ pc = "shell" /\ command' = "connect" /\ ~connected /\ process = "up" /\ connected' = TRUE
      /\ worker' = "read" /\ id' = -1 /\ got' = <<>> /\ reply' = <<>>
      /\ toServer' = <<>> /\ toClient' = <<>> /\ out' = <<REGISTER_REQUEST>> /\ answer' = <<>>
      /\ pc' = "send"
      /\ UNCHANGED <<clientId, files, result, process, nextClientId, documents, meant, origin>>
  BY DEF Connect, Command, Request
<1>3. IsSeq(out') /\ out' # <<>> /\ IsSeq(<<>>)
  BY <1>2, TupleFacts, EmptySeqFacts
<1>4. TypeOK'
  BY <1>1, <1>2, <1>3 DEF TypeOK
<1>5. Shape'
  BY <1>1, <1>2, <1>3 DEF Shape
<1>6. Program'
  BY <1>1, <1>2, <1>3 DEF Program
<1>7. Agreed'
  <2> DEFINE m == <<REGISTER_REQUEST>>
  <2>0. m = out' /\ got' = <<>> /\ toServer' = <<>>
    BY <1>2
  <2> HIDE DEF m
  <2>1. RequestOf(m)'
    BY <1>2, <2>0 DEF RequestOf, m, REGISTER_REQUEST
  <2>2. Split(m, got, toServer, out)'
    <3>1. Split(m, <<>>, <<>>, m)
      BY <1>3, <2>0, SplitWhole
    <3> QED
      BY <2>0, <3>1 DEF Split
  <2>3. Asking'
    BY <1>2, <2>1, <2>2 DEF Asking, Known
  <2> QED
    BY <1>2, <2>3 DEF Agreed
<1>8. Broken'
  BY <1>2 DEF Broken, ServerOpen
<1> QED
  BY <1>4, <1>5, <1>6, <1>7, <1>8 DEF IInv

\* index: the loop over the files starts.
LEMMA IndexKeeps == IInv /\ Index => IInv'
<1> SUFFICES ASSUME IInv, Index PROVE IInv'
  OBVIOUS
<1>1. TypeOK /\ Shape /\ Program /\ Agreed
  BY DEF IInv
<1>2. /\ pc = "shell" /\ command' = "index" /\ connected /\ pc' = "files" /\ files' \in Folders
      /\ UNCHANGED <<connected, clientId, result, out, answer, toServer, toClient, server, meant, origin>>
  BY DEF Index, Command
<1>3. IsSeq(files') /\ \A i \in DOMAIN files' : IsSeq(files'[i].content)
  BY <1>2, FoldersAssumption
<1>4. TypeOK'
  BY <1>1, <1>2 DEF TypeOK, server
<1>5. Shape'
  BY <1>1, <1>2, <1>3 DEF Shape, server
<1>6. Program'
  BY <1>1, <1>2 DEF Program, server
<1>7. Agreed'
  BY <1>1, <1>2 DEF Agreed, ServerOpen, Idle, server
<1>8. Broken'
  BY <1>2 DEF Broken
<1> QED
  BY <1>4, <1>5, <1>6, <1>7, <1>8 DEF IInv

\* search.
LEMMA SearchKeeps == IInv /\ Search => IInv'
<1> SUFFICES ASSUME IInv, Search PROVE IInv'
  OBVIOUS
<1>1. TypeOK /\ Shape /\ Program /\ Agreed
  BY DEF IInv
<1>2. PICK q \in Query :
        /\ pc = "shell" /\ command' = "search" /\ connected /\ pc' = "send" /\ meant' = q
        /\ out' = SearchRequest(q) /\ answer' = <<>>
        /\ UNCHANGED <<connected, clientId, files, toServer, toClient, server, origin>>
  BY DEF Search, Command, Request
<1> DEFINE m == SearchRequest(q)
<1> HIDE DEF m
<1>3. RequestOf(m)' /\ out' = m
  BY <1>2 DEF RequestOf, m, SearchRequest, SEARCH_REQUEST
<1>4. IsSeq(out') /\ out' # <<>> /\ IsSeq(<<>>)
  <2>1. WholeRequest(out')
    BY <1>2, QueryAssumption, SearchRequestWhole
  <2>2. IsSeq(out') /\ Len(out') > 0
    BY <2>1 DEF WholeRequest
  <2> QED
    BY <2>2, SeqFacts, EmptySeqFacts
<1>5. TypeOK'
  BY <1>1, <1>2, <1>4 DEF TypeOK, server
<1>6. Shape'
  BY <1>1, <1>2, <1>4 DEF Shape, server
<1>7. Program'
  BY <1>1, <1>2, <1>4 DEF Program, server
<1>8. Agreed'
  <2> SUFFICES ASSUME ServerOpen' PROVE Asking'
    BY <1>2 DEF Agreed
  <2>1. ServerOpen /\ Idle
    BY <1>1, <1>2 DEF Agreed, ServerOpen, server
  <2>2. toServer' = <<>> /\ toClient' = <<>> /\ got' = <<>> /\ reply' = <<>> /\ worker' = "read" /\ clientId' = id'
    BY <1>2, <2>1 DEF Idle, server
  <2>3. Split(m, got, toServer, out)'
    <3>1. Split(m, <<>>, <<>>, m)
      BY <1>3, <1>4, SplitWhole
    <3> QED
      BY <1>3, <2>2, <3>1 DEF Split
  <2> QED
    BY <1>2, <1>3, <2>2, <2>3 DEF Asking, Known
<1>9. Broken'
  BY <1>2 DEF Broken
<1> QED
  BY <1>5, <1>6, <1>7, <1>8, <1>9 DEF IInv

\* quit: the client is gone, unless SIGPIPE was faster.
LEMMA QuitKeeps == IInv /\ Quit => IInv'
<1> SUFFICES ASSUME IInv, Quit PROVE IInv'
  OBVIOUS
<1>1. TypeOK /\ Shape /\ Program
  BY DEF IInv
<1>2. /\ pc = "shell" /\ command' = "quit" /\ connected /\ pc' \in {"gone", "dead"}
      /\ connected' = FALSE /\ clientId' = -1
      /\ toServer' = IF ServerOpen THEN Append(toServer, QUIT) ELSE toServer
      /\ UNCHANGED <<files, result, out, answer, toClient, server, meant, origin>>
  BY DEF Quit, Command, Disconnect
<1>3. IsSeq(toServer')
  BY <1>1, <1>2, AppendFacts DEF Shape
<1>4. TypeOK'
  <2>1. nextClientId \in Nat /\ (-1) \in (-1) .. nextClientId
    BY <1>1 DEF TypeOK
  <2> QED
    BY <1>1, <1>2, <2>1 DEF TypeOK, server
<1>5. Shape'
  BY <1>1, <1>2, <1>3 DEF Shape, server
<1>6. Program'
  BY <1>1, <1>2 DEF Program, server
<1>7. Agreed'
  BY <1>2 DEF Agreed
<1>8. Broken'
  BY <1>2 DEF Broken
<1> QED
  BY <1>4, <1>5, <1>6, <1>7, <1>8 DEF IInv

\* The client program dies.
LEMMA VanishKeeps == IInv /\ Vanish => IInv'
<1> SUFFICES ASSUME IInv, Vanish PROVE IInv'
  OBVIOUS
<1>1. TypeOK /\ Shape /\ Program
  BY DEF IInv
<1>2. /\ pc' = "dead" /\ out' = <<>> /\ answer' = <<>> /\ files' = <<>>
      /\ UNCHANGED <<connected, clientId, command, result, toServer, toClient, server, meant, origin>>
  BY DEF Vanish, Dies
<1>3. IsSeq(<<>>) /\ \A i \in DOMAIN <<>> : IsSeq(<<>>[i].content)
  BY EmptySeqFacts
<1>4. TypeOK'
  <2>1. nextClientId \in Nat /\ (-1) \in (-1) .. nextClientId
    BY <1>1 DEF TypeOK
  <2> QED
    BY <1>1, <1>2, <2>1 DEF TypeOK, server
<1>5. Shape'
  BY <1>1, <1>2, <1>3 DEF Shape, server
<1>6. Program'
  BY <1>1, <1>2 DEF Program, server
<1>7. Agreed'
  BY <1>2 DEF Agreed
<1>8. Broken'
  BY <1>2 DEF Broken
<1> QED
  BY <1>4, <1>5, <1>6, <1>7, <1>8 DEF IInv

\* Another client program starts.
LEMMA NextClientKeeps == IInv /\ NextClient => IInv'
<1> SUFFICES ASSUME IInv, NextClient PROVE IInv'
  OBVIOUS
<1>1. TypeOK /\ Shape /\ Program
  BY DEF IInv
<1>2. /\ pc' = "shell" /\ connected' = FALSE /\ clientId' = -1 /\ command' = "none"
      /\ files' = <<>> /\ result' = NoResult /\ out' = <<>> /\ answer' = <<>> /\ meant' = <<>>
      /\ UNCHANGED <<toServer, toClient, server, origin>>
  BY DEF NextClient
<1>3. IsSeq(<<>>) /\ \A i \in DOMAIN <<>> : IsSeq(<<>>[i].content)
  BY EmptySeqFacts
<1>4. TypeOK'
  <2>1. nextClientId \in Nat /\ (-1) \in (-1) .. nextClientId
    BY <1>1 DEF TypeOK
  <2> QED
    BY <1>1, <1>2, <2>1 DEF TypeOK, server
<1>5. Shape'
  BY <1>1, <1>2, <1>3 DEF Shape, server
<1>6. Program'
  BY <1>1, <1>2 DEF Program, server
<1>7. Agreed'
  BY <1>2 DEF Agreed
<1>8. Broken'
  BY <1>2 DEF Broken
<1> QED
  BY <1>4, <1>5, <1>6, <1>7, <1>8 DEF IInv

\* The next of the files: without words it is skipped, otherwise the client asks.
LEMMA FileKeeps == IInv /\ File => IInv'
<1> SUFFICES ASSUME IInv, File PROVE IInv'
  OBVIOUS
<1>0. PICK file, owner : file = Head(files) /\ owner = clientId
  OBVIOUS
<1> DEFINE counts == Tokenize(file.content)
<1>1. TypeOK /\ Shape /\ Program /\ Agreed
  BY DEF IInv
<1>2. /\ pc = "files" /\ files # <<>> /\ files' = Tail(files)
      /\ UNCHANGED <<connected, clientId, command, result, toServer, toClient, server, origin>>
  BY DEF File
<1>3. /\ IsSeq(files') /\ file = files[1] /\ IsSeq(file.content)
      /\ \A i \in DOMAIN files' : IsSeq(files'[i].content)
  <2>1. /\ IsSeq(files') /\ Len(files') = Len(files) - 1 /\ Len(files) > 0 /\ file = files[1]
        /\ \A i \in 1 .. Len(files) - 1 : files'[i] = files[i + 1]
    BY <1>0, <1>1, <1>2, TailFacts DEF Shape
  <2>2. DOMAIN files = 1 .. Len(files) /\ DOMAIN files' = 1 .. Len(files') /\ Len(files) \in Nat
    BY <1>1, <2>1, SeqFacts DEF Shape
  <2>3. 1 \in DOMAIN files /\ \A i \in 1 .. Len(files) - 1 : i + 1 \in DOMAIN files
    BY <2>1, <2>2
  <2> QED
    BY <1>1, <2>1, <2>2, <2>3 DEF Shape
<1>4. command = "index" /\ connected /\ out = <<>> /\ answer = <<>>
  BY <1>1, <1>2 DEF Program
<1>5. CASE counts = NoCounts
  <2>1. UNCHANGED <<pc, out, answer, meant>>
    BY <1>0, <1>5 DEF File
  <2>2. TypeOK'
    BY <1>1, <1>2, <2>1 DEF TypeOK, server
  <2>3. Shape'
    BY <1>1, <1>2, <1>3, <2>1 DEF Shape, server
  <2>4. Program'
    BY <1>1, <1>2, <1>4, <2>1 DEF Program
  <2>5. Agreed'
    BY <1>1, <1>2, <2>1 DEF Agreed, ServerOpen, Idle, server
  <2>6. Broken'
    BY <1>2, <1>4 DEF Broken
  <2> QED
    BY <2>2, <2>3, <2>4, <2>5, <2>6 DEF IInv
<1>6. CASE counts # NoCounts
  <2>1. PICK order \in Orders(DOMAIN counts) :
             Request(IndexRequest(owner, file.path, counts, order))
    BY <1>0, <1>6 DEF File
  <2>2. meant' = [owner |-> owner, path |-> file.path, content |-> file.content]
    BY <1>0, <1>6 DEF File
  <2> DEFINE m == IndexRequest(owner, file.path, counts, order)
  <2>3. pc' = "send" /\ out' = m /\ answer' = <<>>
    BY <2>1 DEF Request
  <2>4. IsFiniteSet(DOMAIN counts)
    BY <1>3, TokenizeFinite
  <2>5. IsSeq(m) /\ m # <<>>
    <3> HIDE DEF counts
    <3>1. WholeRequest(m)
      BY <2>1, <2>4, IndexRequestWhole
    <3> HIDE DEF m
    <3>2. IsSeq(m) /\ Len(m) > 0
      BY <3>1 DEF WholeRequest
    <3> QED
      BY <3>2, SeqFacts
  <2>6. RequestOf(m)'
    <3>1. /\ meant'.owner = owner /\ meant'.path = file.path /\ meant'.content = file.content
          /\ command' = "index"
      BY <1>2, <1>4, <2>2
    <3>2. Tokenize(meant'.content) = counts
      BY <3>1
    <3>3. \E o \in Orders(DOMAIN Tokenize(meant'.content)) :
            m = IndexRequest(meant'.owner, meant'.path, Tokenize(meant'.content), o)
      BY <3>1, <3>2
    <3> HIDE DEF m, counts
    <3> QED
      BY <3>1, <3>3, <1>3 DEF RequestOf
  <2> HIDE DEF m, counts
  <2>7. TypeOK'
    BY <1>1, <1>2, <2>3, <2>5 DEF TypeOK, server
  <2>8. Shape'
    BY <1>1, <1>2, <1>3, <2>3, <2>5, EmptySeqFacts DEF Shape, server
  <2>9. Program'
    BY <1>1, <1>2, <1>4, <2>3, <2>5 DEF Program
  <2>10. Agreed'
    <3> SUFFICES ASSUME ServerOpen' PROVE Asking'
      BY <2>3 DEF Agreed
    <3>1. ServerOpen /\ Idle
      BY <1>1, <1>2, <1>4 DEF Agreed, ServerOpen, server
    <3>2. /\ toServer' = <<>> /\ toClient' = <<>> /\ got' = <<>> /\ reply' = <<>> /\ worker' = "read"
          /\ clientId' = id'
      BY <1>2, <3>1 DEF Idle, server
    <3>3. Split(m, got, toServer, out)'
      <4>1. Split(m, <<>>, <<>>, m)
        BY <2>5, SplitWhole
      <4> QED
        BY <2>3, <3>2, <4>1 DEF Split
    <3> QED
      BY <2>3, <2>6, <3>2, <3>3 DEF Asking, Known
  <2>11. Broken'
    BY <1>2, <1>4 DEF Broken
  <2> QED
    BY <2>7, <2>8, <2>9, <2>10, <2>11 DEF IInv
<1> QED
  BY <1>5, <1>6

\* No file is left.
LEMMA FilesDoneKeeps == IInv /\ FilesDone => IInv'
<1> SUFFICES ASSUME IInv, FilesDone PROVE IInv'
  OBVIOUS
<1>1. TypeOK /\ Shape /\ Program /\ Agreed
  BY DEF IInv
<1>2. /\ pc = "files" /\ files = <<>> /\ pc' = "shell"
      /\ UNCHANGED <<connected, clientId, command, files, result, out, answer, toServer,
                     toClient, server, origin>>
  BY DEF FilesDone
<1>3. TypeOK'
  BY <1>1, <1>2 DEF TypeOK, Program, server
<1>4. Shape'
  BY <1>1, <1>2 DEF Shape, server
<1>5. Program'
  BY <1>1, <1>2 DEF Program
<1>6. Agreed'
  BY <1>1, <1>2 DEF Agreed, ServerOpen, Idle, server
<1>7. Broken'
  BY <1>2 DEF Broken
<1> QED
  BY <1>3, <1>4, <1>5, <1>6, <1>7 DEF IInv

\* A field is sent.
LEMMA SendKeeps == IInv /\ Send => IInv'
<1> SUFFICES ASSUME IInv, Send PROVE IInv'
  OBVIOUS
<1>1. TypeOK /\ Shape /\ Program /\ Agreed /\ Broken
  BY DEF IInv
<1>2. /\ pc = "send"
      /\ UNCHANGED <<connected, clientId, command, result, toClient, server, meant, origin>>
  BY DEF Send
<1>3. answer = <<>> /\ out # <<>> /\ connected /\ IsSeq(out) /\ IsSeq(toServer)
  BY <1>1, <1>2 DEF Program, Shape
<1>4. UNCHANGED ServerOpen
  BY <1>2 DEF ServerOpen, server
<1>5. CASE /\ out' = Tail(out)
           /\ pc' = IF Len(out) = 1 THEN "receive" ELSE "send"
           /\ toServer' = IF ServerOpen THEN Append(toServer, Head(out)) ELSE toServer
           /\ UNCHANGED <<files, answer>>
  <2>1. /\ IsSeq(out') /\ pc' \in {"receive", "send"}
        /\ (pc' = "receive" => out' = <<>>) /\ (pc' = "send" => out' # <<>>)
    <3>1. IsSeq(out') /\ Len(out') = Len(out) - 1
      BY <1>3, <1>5, TailFacts
    <3>2. Len(out) \in Nat /\ Len(out') \in Nat /\ (out' = <<>> <=> Len(out') = 0)
      BY <1>3, <3>1, SeqFacts
    <3>3. out' = <<>> <=> Len(out) = 1
      BY <3>1, <3>2
    <3> QED
      BY <1>5, <3>1, <3>3
  <2>2. IsSeq(toServer')
    BY <1>3, <1>5, AppendFacts
  <2>3. TypeOK'
    BY <1>1, <1>2, <1>5, <2>1 DEF TypeOK, server
  <2>4. Shape'
    BY <1>1, <1>2, <1>5, <2>1, <2>2 DEF Shape, server
  <2>5. Program'
    BY <1>1, <1>2, <1>5, <2>1 DEF Program
  <2>6. Agreed'
    <3> SUFFICES ASSUME ServerOpen' PROVE Asking'
      BY <2>1 DEF Agreed
    <3>1. ServerOpen /\ Asking
      BY <1>1, <1>2, <1>3, <1>4 DEF Agreed
    <3>2. PICK m : RequestOf(m) /\ Split(m, got, toServer, out)
      BY <3>1 DEF Asking
    <3>3. RequestOf(m)'
      BY <1>2, <3>2, SameRequest
    <3>4. Split(m, got, Append(toServer, Head(out)), Tail(out))
      BY <1>1, <1>3, <3>2, SplitSent DEF Shape
    <3>5. Split(m, got, toServer, out)'
      BY <1>2, <1>5, <3>1, <3>4 DEF server, Split
    <3> QED
      BY <1>2, <1>5, <3>1, <3>3, <3>5 DEF Asking, Known, server
  <2>7. Broken'
    BY <1>1, <1>2, <1>4, <1>5, <2>1 DEF Broken, Proper, server
  <2> QED
    BY <2>3, <2>4, <2>5, <2>6, <2>7 DEF IInv
<1>6. CASE ~ServerOpen /\ Dies /\ UNCHANGED toServer
  <2>1. pc' = "dead" /\ out' = <<>> /\ answer' = <<>> /\ files' = <<>>
    BY <1>6 DEF Dies
  <2>2. IsSeq(<<>>) /\ \A i \in DOMAIN <<>> : IsSeq(<<>>[i].content)
    BY EmptySeqFacts
  <2>3. TypeOK'
    BY <1>1, <1>2, <2>1 DEF TypeOK, server
  <2>4. Shape'
    BY <1>1, <1>2, <1>6, <2>1, <2>2 DEF Shape, server
  <2>5. Program'
    BY <1>1, <1>2, <2>1 DEF Program
  <2>6. Agreed'
    BY <2>1 DEF Agreed
  <2>7. Broken'
    BY <2>1 DEF Broken
  <2> QED
    BY <2>3, <2>4, <2>5, <2>6, <2>7 DEF IInv
<1> QED
  BY <1>5, <1>6 DEF Send

\* A field of the reply is read, or fails to come.
LEMMA ReceiveKeeps == IInv /\ Receive => IInv'
<1> SUFFICES ASSUME IInv, Receive PROVE IInv'
  OBVIOUS
<1>1. TypeOK /\ Shape /\ Program /\ Agreed /\ Broken
  BY DEF IInv
<1>2. /\ pc = "receive" /\ NextReply(answer) # "done"
      /\ UNCHANGED <<pc, connected, clientId, command, files, result, out, toServer, server,
                     meant, origin>>
  BY DEF Receive
<1>3. connected /\ IsSeq(answer) /\ IsSeq(toClient) /\ IsSeq(reply) /\ IsSeq(documents)
  BY <1>1, <1>2 DEF Program, Shape
<1>4. UNCHANGED ServerOpen
  BY <1>2 DEF ServerOpen, server
<1>5. TypeOK' /\ Program'
  BY <1>1, <1>2 DEF TypeOK, Program, server
<1>6. CASE /\ toClient # <<>> /\ answer' = Append(answer, Head(toClient))
           /\ toClient' = Tail(toClient)
  <2>1. IsSeq(answer') /\ IsSeq(toClient')
    BY <1>3, <1>6, AppendFacts, TailFacts
  <2>2. Shape'
    BY <1>1, <1>2, <2>1 DEF Shape, server
  <2>3. Agreed'
    <3> SUFFICES ASSUME ServerOpen' PROVE Answering'
      BY <1>2 DEF Agreed
    <3>1. ServerOpen /\ Answering
      BY <1>1, <1>2, <1>3, <1>4, <1>6 DEF Agreed, Asking
    <3>2. PICK r : ReplyOf(r) /\ Split(r, answer, toClient, reply)
      BY <3>1 DEF Answering
    <3>3. ReplyOf(r)'
      BY <1>2, <3>2, SameReply DEF server
    <3>4. Split(r, Append(answer, Head(toClient)), Tail(toClient), reply)
      BY <1>3, <1>6, <3>2, SplitRead
    <3>5. Split(r, answer, toClient, reply)'
      BY <1>2, <1>6, <3>4 DEF server, Split
    <3> QED
      BY <1>2, <3>1, <3>3, <3>5 DEF Answering, Known, server
  <2>4. Broken'
    <3> SUFFICES ASSUME command = "connect", ~ServerOpen
                 PROVE  /\ \A i \in DOMAIN answer' : Proper(i, answer'[i])
                        /\ \A i \in DOMAIN toClient' : Proper(Len(answer') + i, toClient'[i])
      BY <1>2, <1>4 DEF Broken, Proper, server
    <3>1. /\ \A i \in DOMAIN answer : Proper(i, answer[i])
          /\ \A i \in DOMAIN toClient : Proper(Len(answer) + i, toClient[i])
      BY <1>1, <1>2 DEF Broken
    <3>2. /\ Len(answer) \in Nat /\ Len(toClient) \in Nat
          /\ DOMAIN answer = 1 .. Len(answer) /\ DOMAIN toClient = 1 .. Len(toClient)
          /\ DOMAIN answer' = 1 .. Len(answer') /\ DOMAIN toClient' = 1 .. Len(toClient')
      BY <1>3, <2>1, SeqFacts
    <3>3. /\ Len(answer') = Len(answer) + 1 /\ answer'[Len(answer) + 1] = Head(toClient)
          /\ \A i \in 1 .. Len(answer) : answer'[i] = answer[i]
      BY <1>3, <1>6, AppendFacts
    <3>4. /\ Len(toClient') = Len(toClient) - 1 /\ Len(toClient) > 0 /\ Head(toClient) = toClient[1]
          /\ \A i \in 1 .. Len(toClient) - 1 : toClient'[i] = toClient[i + 1]
      BY <1>3, <1>6, TailFacts
    <3>5. ASSUME NEW i \in DOMAIN answer' PROVE Proper(i, answer'[i])
      <4>1. CASE i \in 1 .. Len(answer)
        BY <3>1, <3>2, <3>3, <4>1
      <4>2. CASE i = Len(answer) + 1
        <5>1. 1 \in DOMAIN toClient
          BY <3>2, <3>4
        <5> QED
          BY <3>1, <3>3, <3>4, <4>2, <5>1
      <4> QED
        BY <3>2, <3>3, <4>1, <4>2
    <3>6. ASSUME NEW i \in DOMAIN toClient' PROVE Proper(Len(answer') + i, toClient'[i])
      <4>1. i \in 1 .. Len(toClient) - 1
        BY <3>2, <3>4
      <4>2. i + 1 \in DOMAIN toClient
        BY <3>2, <4>1
      <4>3. Len(answer) + (i + 1) = Len(answer') + i
        <5>1. \A n, j \in Nat : n + (j + 1) = (n + 1) + j
          OBVIOUS
        <5>2. i \in Nat
          BY <4>1
        <5> QED
          BY <3>2, <3>3, <5>1, <5>2
      <4> QED
        BY <3>1, <3>4, <4>1, <4>2, <4>3
    <3> QED
      BY <3>5, <3>6
  <2> QED
    BY <1>5, <2>2, <2>3, <2>4 DEF IInv
<1>7. CASE /\ toClient = <<>> /\ ~ServerOpen /\ answer # <<>>
           /\ \E v \in Unread(NextReply(answer)) : answer' = Append(answer, v)
           /\ UNCHANGED toClient
  <2>1. PICK v \in Unread(NextReply(answer)) : answer' = Append(answer, v)
    BY <1>7
  <2>2. /\ IsSeq(answer') /\ Len(answer') = Len(answer) + 1 /\ answer'[Len(answer) + 1] = v
        /\ \A i \in 1 .. Len(answer) : answer'[i] = answer[i]
    BY <1>3, <2>1, AppendFacts
  <2>3. Shape'
    BY <1>1, <1>2, <1>7, <2>2 DEF Shape, server
  <2>4. Agreed'
    BY <1>2, <1>4, <1>7 DEF Agreed
  <2>5. Broken'
    <3> SUFFICES ASSUME command = "connect"
                 PROVE  \A i \in DOMAIN answer' : Proper(i, answer'[i])
      <4>1. DOMAIN toClient' = {}
        BY <1>7
      <4> QED
        BY <1>2, <1>4, <4>1 DEF Broken, Proper, server
    <3>1. \A i \in DOMAIN answer : Proper(i, answer[i])
      BY <1>1, <1>2, <1>7 DEF Broken
    <3>2. /\ Len(answer) \in Nat /\ DOMAIN answer = 1 .. Len(answer) /\ Len(answer) # 0
          /\ DOMAIN answer' = 1 .. Len(answer')
      BY <1>3, <1>7, <2>2, SeqFacts
    <3>3. answer[1] = REGISTER_REPLY
      <4>1. 1 \in DOMAIN answer
        BY <3>2
      <4> QED
        BY <3>1, <4>1 DEF Proper
    <3>4. NextReply(answer) = IF Len(answer) = 1 THEN "uint32" ELSE "done"
      BY <1>7, <3>3 DEF NextReply, REGISTER_REPLY, SEARCH_REPLY
    <3>5. Len(answer) = 1 /\ NextReply(answer) = "uint32"
      BY <1>2, <3>4
    <3>6. v \in Garbage
      BY <2>1, <3>5 DEF Unread
    <3>7. DOMAIN answer' = {1, 2} /\ answer'[1] = answer[1] /\ answer'[2] = v
      <4>1. 1 .. (1 + 1) = {1, 2} /\ 1 \in 1 .. 1 /\ 1 + 1 = 2
        OBVIOUS
      <4> QED
        BY <2>2, <3>2, <3>5, <4>1
    <3> QED
      BY <3>3, <3>6, <3>7 DEF Proper
  <2> QED
    BY <1>5, <2>3, <2>4, <2>5 DEF IInv
<1> QED
  BY <1>6, <1>7 DEF Receive

\* No reply came: the command is over.
LEMMA NoReplyKeeps == IInv /\ NoReply => IInv'
<1> SUFFICES ASSUME IInv, NoReply PROVE IInv'
  OBVIOUS
<1>1. TypeOK /\ Shape /\ Program
  BY DEF IInv
<1>2. /\ pc = "receive" /\ answer = <<>> /\ toClient = <<>> /\ ~ServerOpen /\ files' = <<>>
      /\ UNCHANGED <<command, result, out, answer, toClient, server, origin>>
  BY DEF NoReply
<1>3. /\ connected' \in BOOLEAN /\ pc' \in {"shell", "dead"}
      /\ toServer' = toServer /\ clientId' \in {clientId, -1}
  <2>1. CASE command = "connect"
    BY <1>2, <2>1 DEF NoReply, Disconnect
  <2>2. CASE command # "connect"
    BY <1>1, <2>2 DEF NoReply, TypeOK
  <2> QED
    BY <2>1, <2>2
<1>4. ~ServerOpen' /\ out = <<>>
  BY <1>1, <1>2 DEF ServerOpen, Program, server
<1>5. IsSeq(<<>>) /\ \A i \in DOMAIN <<>> : IsSeq(<<>>[i].content)
  BY EmptySeqFacts
<1>6. TypeOK'
  <2>1. nextClientId \in Nat /\ (-1) \in (-1) .. nextClientId
    BY <1>1 DEF TypeOK
  <2> QED
    BY <1>1, <1>2, <1>3, <1>4, <2>1 DEF TypeOK, server
<1>7. Shape'
  BY <1>1, <1>2, <1>3, <1>5 DEF Shape, server
<1>8. Program'
  BY <1>1, <1>2, <1>3, <1>4 DEF Program
<1>9. Agreed'
  BY <1>4 DEF Agreed
<1>10. Broken'
  BY <1>3 DEF Broken
<1> QED
  BY <1>6, <1>7, <1>8, <1>9, <1>10 DEF IInv

\* Over an open connection the client has read the reply when it has all of it.
LEMMA ReplyRead ==
  ASSUME IInv, pc = "receive", NextReply(answer) = "done", ServerOpen
  PROVE  /\ ReplyOf(answer) /\ got = <<>> /\ toServer = <<>> /\ toClient = <<>> /\ reply = <<>>
         /\ worker = "read" /\ Known
<1>1. Shape /\ Program /\ Agreed
  BY DEF IInv
<1>2. connected /\ IsSeq(answer) /\ IsSeq(toClient) /\ IsSeq(reply) /\ IsSeq(documents)
  BY <1>1 DEF Program, Shape
<1>3. answer # <<>>
  BY DEF NextReply
<1>4. Answering
  BY <1>1, <1>2, <1>3 DEF Agreed, Asking
<1>5. PICK r : ReplyOf(r) /\ Split(r, answer, toClient, reply)
  BY <1>4 DEF Answering
<1>6. WholeReply(r)
  BY <1>2, <1>5, ReplyFacts
<1>7. Begins(answer, r) /\ (Len(answer) = Len(r) <=> toClient = <<>> /\ reply = <<>>)
  BY <1>2, <1>5, SplitBegins
<1>8. Len(answer) = Len(r)
  BY <1>2, <1>6, <1>7, ReplyEnds
<1>9. r = answer
  BY <1>2, <1>5, <1>7, <1>8, SplitAll
<1> QED
  BY <1>4, <1>5, <1>7, <1>8, <1>9 DEF Answering

\* The id that comes with the reply to a registration.
LEMMA IdRead ==
  ASSUME IInv, pc = "receive", command = "connect", NextReply(answer) = "done"
  PROVE  answer[2] \in Garbage \union 1 .. nextClientId - 1 /\ (ServerOpen => answer[2] = id)
<1>1. CASE ServerOpen
  <2>1. ReplyOf(answer)
    BY <1>1, ReplyRead
  <2>2. id \in 1 .. nextClientId - 1 /\ answer = <<REGISTER_REPLY, id>>
    BY <2>1 DEF ReplyOf
  <2> QED
    BY <2>2
<1>2. CASE ~ServerOpen
  <2>1. \A i \in DOMAIN answer : Proper(i, answer[i])
    BY <1>2 DEF IInv, Broken
  <2>2. IsSeq(answer) /\ answer # <<>>
    BY DEF IInv, Shape, NextReply
  <2>3. Len(answer) \in Nat /\ DOMAIN answer = 1 .. Len(answer) /\ Len(answer) # 0
    BY <2>2, SeqFacts
  <2>4. answer[1] = REGISTER_REPLY
    <3>1. 1 \in DOMAIN answer
      BY <2>3
    <3> QED
      BY <2>1, <3>1 DEF Proper
  <2>5. Len(answer) # 1
    BY <2>2, <2>4 DEF NextReply, REGISTER_REPLY, SEARCH_REPLY
  <2>6. 2 \in DOMAIN answer
    BY <2>3, <2>5
  <2> QED
    BY <1>2, <2>1, <2>6 DEF Proper
<1> QED
  BY <1>1, <1>2

\* The reply is read.
LEMMA ReturnedKeeps == IInv /\ Returned => IInv'
<1> SUFFICES ASSUME IInv, Returned PROVE IInv'
  OBVIOUS
<1>1. TypeOK /\ Shape /\ Program
  BY DEF IInv
<1>2. /\ pc = "receive" /\ NextReply(answer) = "done" /\ answer' = <<>>
      /\ UNCHANGED <<connected, command, files, out, toServer, toClient, server, origin>>
  BY DEF Returned
<1>3. \/ command = "connect" /\ pc' = "shell" /\ clientId' = answer[2]
      \/ command = "index" /\ pc' = "files" /\ clientId' = clientId
      \/ command = "search" /\ pc' = "shell" /\ clientId' = clientId
  BY DEF Returned
<1>4. out = <<>> /\ connected /\ (command # "index" => files = <<>>)
  BY <1>1, <1>2 DEF Program
<1>5. TypeOK'
  <2>1. clientId' \in Garbage \union -1 .. nextClientId
    <3>1. CASE command = "connect" /\ clientId' = answer[2]
      <4>1. answer[2] \in Garbage \union 1 .. nextClientId - 1
        BY <1>2, <3>1, IdRead
      <4>2. 1 .. nextClientId - 1 \subseteq -1 .. nextClientId
        BY <1>1 DEF TypeOK
      <4> QED
        BY <3>1, <4>1, <4>2
    <3>2. CASE clientId' = clientId
      BY <1>1, <3>2 DEF TypeOK
    <3> QED
      BY <1>3, <3>1, <3>2
  <2> QED
    BY <1>1, <1>2, <1>3, <1>4, <2>1 DEF TypeOK, server
<1>6. Shape'
  BY <1>1, <1>2, EmptySeqFacts DEF Shape, server
<1>7. Program'
  BY <1>1, <1>2, <1>3, <1>4 DEF Program
<1>8. Agreed'
  <2> SUFFICES ASSUME ServerOpen' PROVE Idle'
    BY <1>3 DEF Agreed
  <2>1. ServerOpen
    BY <1>2 DEF ServerOpen, server
  <2>2. /\ got = <<>> /\ toServer = <<>> /\ toClient = <<>> /\ reply = <<>>
        /\ worker = "read" /\ Known
    BY <1>2, <2>1, ReplyRead
  <2>3. clientId' = id
    BY <1>2, <1>3, <2>1, <2>2, IdRead DEF Known
  <2> QED
    BY <1>2, <2>2, <2>3 DEF Idle, server
<1>9. Broken'
  BY <1>3 DEF Broken
<1> QED
  BY <1>5, <1>6, <1>7, <1>8, <1>9 DEF IInv

\* A field of the request is read, or fails to come.
LEMMA ReadKeeps == IInv /\ Read => IInv'
<1> SUFFICES ASSUME IInv, Read PROVE IInv'
  OBVIOUS
<1>1. TypeOK /\ Shape /\ Program /\ Agreed /\ Broken
  BY DEF IInv
<1>2. /\ worker = "read"
      /\ UNCHANGED <<client, toClient, worker, id, reply, process, nextClientId, documents, meant, origin>>
  BY DEF Read
<1>3. IsSeq(got) /\ IsSeq(toServer) /\ IsSeq(out)
  BY <1>1 DEF Shape
<1>4. IsSeq(got') /\ IsSeq(toServer')
  <2>1. CASE toServer # <<>> /\ got' = Append(got, Head(toServer)) /\ toServer' = Tail(toServer)
    BY <1>3, <2>1, AppendFacts, TailFacts
  <2>2. CASE UNCHANGED toServer /\ \E v : got' = Append(got, v)
    BY <1>3, <2>2, AppendFacts
  <2> QED
    BY <2>1, <2>2 DEF Read
<1>5. TypeOK'
  BY <1>1, <1>2 DEF TypeOK, client
<1>6. Shape'
  BY <1>1, <1>2, <1>4 DEF Shape, client
<1>7. Program'
  BY <1>1, <1>2 DEF Program, client
<1>8. Agreed'
  <2> SUFFICES ASSUME connected, ServerOpen
               PROVE  /\ pc \in {"shell", "files"} => Idle'
                      /\ pc = "send" => Asking'
                      /\ pc = "receive" => (Asking \/ Answering)'
    BY <1>2 DEF Agreed, ServerOpen, client
  <2>1. CASE toServer # <<>> /\ got' = Append(got, Head(toServer)) /\ toServer' = Tail(toServer)
    <3>1. ASSUME Asking PROVE Asking'
      <4>1. PICK m : RequestOf(m) /\ Split(m, got, toServer, out)
        BY <3>1 DEF Asking
      <4>2. RequestOf(m)'
        BY <1>2, <4>1, SameRequest DEF client
      <4>3. Split(m, Append(got, Head(toServer)), Tail(toServer), out)
        BY <1>3, <2>1, <4>1, SplitRead
      <4>4. Split(m, got, toServer, out)'
        BY <1>2, <2>1, <4>3 DEF client, Split
      <4> QED
        BY <1>2, <3>1, <4>2, <4>4 DEF Asking, Known, client
    <3> QED
      BY <1>1, <2>1, <3>1 DEF Agreed, Idle, Answering
  <2>2. CASE Severed
    BY <1>1, <1>2, <2>2 DEF Agreed, Severed, ServerOpen, ClientOpen, client, TypeOK
  <2> QED
    BY <2>1, <2>2 DEF Read
<1>9. Broken'
  BY <1>1, <1>2 DEF Broken, Proper, ServerOpen, client
<1> QED
  BY <1>5, <1>6, <1>7, <1>8, <1>9 DEF IInv

\* Over an open connection the worker has read the request when it has all of it.
LEMMA RequestRead ==
  ASSUME IInv, connected, pc \notin {"dead", "gone"}, worker = "read", process = "up",
         NextRequest(got) = "done"
  PROVE  /\ pc = "receive" /\ RequestOf(got) /\ toServer = <<>> /\ toClient = <<>> /\ answer = <<>>
         /\ Known
<1>1. TypeOK /\ Shape /\ Program /\ Agreed
  BY DEF IInv
<1>2. got # <<>> /\ ServerOpen
  BY DEF NextRequest, ServerOpen
<1>3. pc \in {"send", "receive"} /\ Asking
  BY <1>1, <1>2 DEF TypeOK, Agreed, Idle, Answering
<1>4. PICK m : RequestOf(m) /\ Split(m, got, toServer, out)
  BY <1>3 DEF Asking
<1>5. WholeRequest(m)
  BY <1>4, RequestFacts
<1>6. IsSeq(got) /\ IsSeq(toServer) /\ IsSeq(out)
  BY <1>1 DEF Shape
<1>7. Begins(got, m) /\ (Len(got) = Len(m) <=> toServer = <<>> /\ out = <<>>)
  BY <1>4, <1>6, SplitBegins
<1>8. Len(got) = Len(m)
  BY <1>5, <1>6, <1>7, RequestEnds
<1>9. m = got
  BY <1>4, <1>6, <1>7, <1>8, SplitAll
<1>10. pc = "receive"
  BY <1>1, <1>3, <1>7, <1>8 DEF Program
<1> QED
  BY <1>3, <1>4, <1>7, <1>8, <1>9, <1>10 DEF Asking

\* What the worker answers is a reply to what the client asked.
LEMMA HandleAnswers ==
  ASSUME IInv, Handle, connected, pc \notin {"dead", "gone"}, process = "up"
  PROVE  Known' /\ \E r : r = reply' /\ ReplyOf(r)'
<1>0. PICK r : r = reply'
  OBVIOUS
<1>1. TypeOK /\ Shape
  BY DEF IInv
<1>2. /\ worker = "read" /\ NextRequest(got) = "done"
      /\ UNCHANGED <<client, toServer, toClient, process, meant>>
  BY DEF Handle
<1>3. RequestOf(got) /\ Known
  BY <1>2, RequestRead
<1>4. CASE command = "connect" /\ got = <<REGISTER_REQUEST>>
  <2>1. got[1] = REGISTER_REQUEST
    BY <1>4
  <2>2. Register
    BY <2>1 DEF Handle, Register, StoreDocument, AnswerSearch, REGISTER_REQUEST, INDEX_REQUEST, SEARCH_REQUEST
  <2>3. /\ id' = nextClientId /\ nextClientId' = nextClientId + 1
        /\ reply' = <<REGISTER_REPLY, nextClientId>> /\ nextClientId \in Nat \ {0}
    BY <1>1, <2>2 DEF Register, Answer, TypeOK
  <2>4. id' \in 1 .. nextClientId' - 1
    BY <2>3
  <2> QED
    BY <1>0, <1>2, <1>4, <2>3, <2>4 DEF ReplyOf, Known, client
<1>5. CASE /\ command = "index" /\ IsSeq(meant.content)
           /\ LET counts == Tokenize(meant.content)
              IN  \E order \in Orders(DOMAIN counts) :
                    got = IndexRequest(meant.owner, meant.path, counts, order)
  <2>1. got[1] = INDEX_REQUEST
    <3> DEFINE counts == Tokenize(meant.content)
    <3>1. PICK order \in Orders(DOMAIN counts) : got = IndexRequest(meant.owner, meant.path, counts, order)
      BY <1>5
    <3>2. IsFiniteSet(DOMAIN counts)
      BY <1>5, TokenizeFinite
    <3> HIDE DEF counts
    <3>3. ASSUME NEW o, NEW p PROVE IndexRequest(o, p, counts, order)[1] = INDEX_REQUEST
      BY ONLY <3>2, order \in Orders(DOMAIN counts), IndexRequestWhole
    <3> QED
      BY <3>1, <3>3
  <2>2. StoreDocument
    BY <2>1 DEF Handle, Register, StoreDocument, AnswerSearch, REGISTER_REQUEST, INDEX_REQUEST, SEARCH_REQUEST
  <2>3. reply' = <<INDEX_REPLY, 0>> /\ id' = id
    BY <2>2 DEF StoreDocument, Answer
  <2> QED
    BY <1>0, <1>2, <1>3, <1>5, <2>3 DEF ReplyOf, Known, client
<1>6. CASE command = "search" /\ meant \in Query /\ got = SearchRequest(meant)
  <2>1. got[1] = SEARCH_REQUEST /\ SubSeq(got, 3, Len(got)) = meant
    BY <1>6, QueryAssumption, SearchRequestWhole
  <2>2. AnswerSearch
    BY <2>1 DEF Handle, Register, StoreDocument, AnswerSearch, REGISTER_REQUEST, INDEX_REQUEST, SEARCH_REQUEST
  <2>3. reply' = SearchReply(Find(meant)) /\ id' = id /\ documents' = documents
    BY <2>1, <2>2 DEF AnswerSearch, Answer
  <2>4. Find(meant)' = Find(meant)
    <3>1. meant' = meant /\ documents' = documents
      BY <1>2, <2>3
    <3> QED
      BY ONLY <3>1 DEF Find
  <2> QED
    BY <1>0, <1>2, <1>3, <1>6, <2>3, <2>4 DEF ReplyOf, Known, client
<1> QED
  BY <1>3, <1>4, <1>5, <1>6 DEF RequestOf

\* The request is handled.
LEMMA HandleKeeps == IInv /\ Handle => IInv'
<1> SUFFICES ASSUME IInv, Handle PROVE IInv'
  OBVIOUS
<1>1. TypeOK /\ Shape /\ Program /\ Broken
  BY DEF IInv
<1>2. /\ worker = "read" /\ NextRequest(got) = "done" /\ got' = <<>>
      /\ UNCHANGED <<client, toServer, toClient, process, meant>>
  BY DEF Handle
<1>3. worker' = "write" /\ IsSeq(reply') /\ reply' # <<>>
  <2>1. CASE Register
    BY <2>1, TupleFacts DEF Register, Answer
  <2>2. CASE StoreDocument
    BY <2>2, TupleFacts DEF StoreDocument, Answer
  <2>3. CASE AnswerSearch
    <3>1. PICK q : reply' = SearchReply(Find(q))
      BY <2>3 DEF AnswerSearch, Answer
    <3>2. IsSeq(Find(q).hits)
      BY <1>1, FindFacts DEF Shape
    <3>3. WholeReply(SearchReply(Find(q)))
      BY <3>2, SearchReplyWhole
    <3>4. IsSeq(reply') /\ Len(reply') > 0
      BY <3>1, <3>3 DEF WholeReply
    <3>5. worker' = "write"
      BY <2>3 DEF AnswerSearch, Answer
    <3> QED
      BY <3>4, <3>5, SeqFacts
  <2> QED
    BY <2>1, <2>2, <2>3 DEF Handle
<1>4. /\ nextClientId' \in {nextClientId, nextClientId + 1} /\ id' \in -1 .. nextClientId' - 1
      /\ IsSeq(documents') /\ IsSeq(origin') /\ Len(origin') = Len(documents')
  <2>1. CASE Register
    BY <1>1, <2>1 DEF Register, TypeOK, Shape
  <2>2. CASE StoreDocument
    <3>1. PICK d, o : /\ documents' = Append(documents, d) /\ origin' = Append(origin, o)
                      /\ UNCHANGED <<id, nextClientId>>
      BY <2>2 DEF StoreDocument
    <3>2. IsSeq(documents) /\ IsSeq(origin) /\ Len(origin) = Len(documents)
      BY <1>1 DEF Shape
    <3>3. IsSeq(documents') /\ IsSeq(origin') /\ Len(origin') = Len(documents')
      BY <3>1, <3>2, AppendFacts
    <3> QED
      BY <1>1, <3>1, <3>3 DEF TypeOK
  <2>3. CASE AnswerSearch
    BY <1>1, <2>3 DEF AnswerSearch, TypeOK, Shape
  <2> QED
    BY <2>1, <2>2, <2>3 DEF Handle
<1>5. TypeOK'
  <2>1. DOMAIN origin' = DOMAIN documents'
    BY <1>4, SeqFacts
  <2>2. clientId' \in Garbage \union -1 .. nextClientId' /\ nextClientId' \in Nat \ {0}
    BY <1>1, <1>2, <1>4 DEF TypeOK, client
  <2> QED
    BY <1>1, <1>2, <1>3, <1>4, <2>1, <2>2 DEF TypeOK, client
<1>6. Shape'
  BY <1>1, <1>2, <1>3, <1>4, EmptySeqFacts DEF Shape, client
<1>7. Program'
  BY <1>1, <1>2 DEF Program, client
<1>8. Agreed'
  <2> SUFFICES ASSUME connected, pc \notin {"dead", "gone"}, process = "up"
               PROVE  pc = "receive" /\ Answering'
    BY <1>1, <1>2 DEF Agreed, ServerOpen, TypeOK, client
  <2>1. pc = "receive" /\ toServer = <<>> /\ toClient = <<>> /\ answer = <<>>
    BY <1>2, RequestRead
  <2>2. PICK r : Known' /\ r = reply' /\ ReplyOf(r)'
    BY HandleAnswers
  <2>3. Split(r, answer, toClient, reply)'
    <3>1. Split(r, <<>>, <<>>, r)
      BY <1>3, <2>2, SplitWhole
    <3> QED
      BY <1>2, <2>1, <2>2, <3>1 DEF Split, client
  <2> QED
    BY <1>2, <1>3, <2>1, <2>2, <2>3 DEF Answering, client
<1>9. Broken'
  <2>1. nextClientId' \in {nextClientId, nextClientId + 1} /\ nextClientId \in Nat
    BY <1>1, <1>4 DEF TypeOK
  <2>2. \A i, v : Proper(i, v) => Proper(i, v)'
    <3>1. PICK n : n = nextClientId
      OBVIOUS
    <3>2. PICK k : k = nextClientId'
      OBVIOUS
    <3>3. k \in {n, n + 1} /\ n \in Nat
      BY <2>1, <3>1, <3>2
    <3>4. 1 .. n - 1 \subseteq 1 .. k - 1
      BY ONLY <3>3
    <3>5. 1 .. nextClientId - 1 \subseteq 1 .. nextClientId' - 1
      BY <3>1, <3>2, <3>4
    <3> QED
      BY <3>5 DEF Proper
  <2> SUFFICES ASSUME pc \in {"send", "receive"}, command = "connect", process # "up" PROVE Broken'
    BY <1>2, <1>3 DEF Broken, ServerOpen, client
  <2>3. /\ \A i \in DOMAIN answer : Proper(i, answer[i])
        /\ \A i \in DOMAIN toClient : Proper(Len(answer) + i, toClient[i])
    BY <1>1 DEF Broken, ServerOpen
  <2> QED
    BY <1>2, <2>2, <2>3 DEF Broken, client
<1> QED
  BY <1>5, <1>6, <1>7, <1>8, <1>9 DEF IInv

\* The client of a registration whose connection breaks off finds no other fields than
\* those of a reply.
LEMMA BreaksOff ==
  ASSUME IInv, pc \in {"send", "receive"}, command = "connect"
  PROVE  /\ \A i \in DOMAIN answer : Proper(i, answer[i])
         /\ \A i \in DOMAIN toClient : Proper(Len(answer) + i, toClient[i])
<1>1. CASE ~ServerOpen
  BY <1>1 DEF IInv, Broken
<1>2. CASE ServerOpen
  <2>1. Asking \/ Answering
    BY <1>2 DEF IInv, Program, Agreed
  <2>2. CASE Asking
    <3>1. DOMAIN answer = {} /\ DOMAIN toClient = {}
      BY <2>2 DEF Asking
    <3> QED
      BY <3>1
  <2>3. CASE Answering
    <3>1. PICK r : ReplyOf(r) /\ Split(r, answer, toClient, reply)
      BY <2>3 DEF Answering
    <3>2. id \in 1 .. nextClientId - 1 /\ r = <<REGISTER_REPLY, id>>
      BY <3>1 DEF ReplyOf
    <3>3. \A i : Proper(i, r[i])
      BY <3>2 DEF Proper
    <3>4. IsSeq(answer) /\ IsSeq(toClient)
      BY DEF IInv, Shape
    <3>5. DOMAIN answer = 1 .. Len(answer) /\ DOMAIN toClient = 1 .. Len(toClient)
      BY <3>4, SeqFacts
    <3> QED
      BY <3>1, <3>3, <3>5 DEF Split
  <2> QED
    BY <2>1, <2>2, <2>3
<1> QED
  BY <1>1, <1>2

\* A field of the reply is written, or the process killed.
LEMMA WriteKeeps == IInv /\ Write => IInv'
<1> SUFFICES ASSUME IInv, Write PROVE IInv'
  OBVIOUS
<1>1. TypeOK /\ Shape /\ Program /\ Agreed /\ Broken
  BY DEF IInv
<1>2. /\ worker = "write"
      /\ UNCHANGED <<client, nextClientId, documents, meant, origin>>
  BY DEF Write
<1>3. Program'
  BY <1>1, <1>2 DEF Program, client
<1>4. CASE /\ reply' = Tail(reply)
           /\ toClient' = IF Severed THEN toClient ELSE Append(toClient, Head(reply))
           /\ IF Len(reply) > 1
                THEN UNCHANGED <<worker, id>>
                ELSE IF process = "up"
                       THEN worker' = "read" /\ UNCHANGED id
                       ELSE worker' = "none" /\ id' = -1
           /\ UNCHANGED <<process, got, toServer>>
  <2>1. IsSeq(reply) /\ reply # <<>> /\ IsSeq(toClient) /\ IsSeq(answer)
    BY <1>1, <1>2 DEF TypeOK, Shape
  <2>2. /\ IsSeq(reply') /\ worker' \in {"none", "read", "write"} /\ (reply' # <<>> <=> worker' = "write")
        /\ process = "up" => worker' # "none" /\ id' = id
        /\ id' \in {id, -1}
    <3>1. IsSeq(reply') /\ Len(reply') = Len(reply) - 1
      BY <1>4, <2>1, TailFacts
    <3>2. Len(reply) \in Nat /\ Len(reply') \in Nat /\ (reply' = <<>> <=> Len(reply') = 0)
      BY <2>1, <3>1, SeqFacts
    <3>3. reply' # <<>> <=> Len(reply) > 1
      BY <3>1, <3>2
    <3>4. CASE Len(reply) > 1
      BY <1>2, <1>4, <3>1, <3>3, <3>4
    <3>5. CASE ~(Len(reply) > 1)
      BY <1>4, <3>1, <3>3, <3>5
    <3> QED
      BY <3>4, <3>5
  <2>3. IsSeq(toClient')
    BY <1>4, <2>1, AppendFacts
  <2>4. TypeOK'
    <3>1. id' \in -1 .. nextClientId' - 1
      BY <1>1, <1>2, <2>2 DEF TypeOK
    <3> QED
      BY <1>1, <1>2, <1>4, <2>2, <3>1 DEF TypeOK, client
  <2>5. Shape'
    BY <1>1, <1>2, <1>4, <2>2, <2>3 DEF Shape, client
  <2>6. Agreed'
    <3> SUFFICES ASSUME connected, pc \notin {"dead", "gone"}, process = "up"
                 PROVE  pc = "receive" /\ Answering'
      BY <1>1, <1>2, <1>4 DEF Agreed, ServerOpen, TypeOK, client
    <3>1. pc = "receive" /\ Answering /\ ~Severed
      BY <1>1, <1>2 DEF Agreed, Idle, Asking, TypeOK, ServerOpen, ClientOpen, Severed
    <3>2. PICK r : ReplyOf(r) /\ Split(r, answer, toClient, reply)
      BY <3>1 DEF Answering
    <3>3. ReplyOf(r)'
      BY <1>2, <1>4, <2>2, <3>2, SameReply DEF client
    <3>4. Split(r, answer, Append(toClient, Head(reply)), Tail(reply))
      BY <2>1, <3>2, SplitSent
    <3>5. Split(r, answer, toClient, reply)'
      BY <1>2, <1>4, <3>1, <3>4 DEF client, Split
    <3> QED
      BY <1>2, <1>4, <2>2, <3>1, <3>3, <3>5 DEF Answering, Known, client
  <2>7. Broken'
    <3>1. CASE process = "up"
      BY <1>2, <1>4, <2>2, <3>1 DEF Broken, ServerOpen
    <3>2. CASE process # "up"
      <4>1. ~ServerOpen /\ toClient' = toClient
        BY <1>4, <3>2 DEF ServerOpen, Severed
      <4> QED
        BY <1>1, <1>2, <4>1 DEF Broken, Proper, client
    <3> QED
      BY <3>1, <3>2
  <2> QED
    BY <1>3, <2>4, <2>5, <2>6, <2>7 DEF IInv
<1>5. CASE Severed /\ Killed /\ UNCHANGED toClient
  <2>1. /\ process' = "killed" /\ worker' = "none" /\ id' = -1 /\ got' = <<>> /\ reply' = <<>>
        /\ toServer' = <<>>
    BY <1>5 DEF Killed
  <2>2. TypeOK'
    BY <1>1, <1>2, <2>1 DEF TypeOK, client
  <2>3. Shape'
    BY <1>1, <1>2, <1>5, <2>1, EmptySeqFacts DEF Shape, client
  <2>4. Agreed'
    BY <2>1 DEF Agreed, ServerOpen
  <2>5. Broken'
    <3> SUFFICES ASSUME pc \in {"send", "receive"}, command = "connect" PROVE Broken'
      BY <1>2 DEF Broken, client
    <3>1. /\ \A i \in DOMAIN answer : Proper(i, answer[i])
          /\ \A i \in DOMAIN toClient : Proper(Len(answer) + i, toClient[i])
      BY BreaksOff
    <3> QED
      BY <1>2, <1>5, <3>1 DEF Broken, Proper, client
  <2> QED
    BY <1>3, <2>2, <2>3, <2>4, <2>5 DEF IInv
<1> QED
  BY <1>4, <1>5 DEF Write

\* The worker ends.
LEMMA EndKeeps == IInv /\ End => IInv'
<1> SUFFICES ASSUME IInv, End PROVE IInv'
  OBVIOUS
<1>1. TypeOK /\ Shape /\ Program /\ Agreed
  BY DEF IInv
<1>2. /\ worker = "read" /\ worker' = "none" /\ id' = -1 /\ got' = <<>>
      /\ UNCHANGED <<client, toServer, toClient, reply, process, nextClientId, documents, meant, origin>>
  BY DEF End
<1>3. TypeOK'
  BY <1>1, <1>2 DEF TypeOK, client
<1>4. Shape'
  BY <1>1, <1>2, EmptySeqFacts DEF Shape, client
<1>5. Program'
  BY <1>1, <1>2 DEF Program, client
<1>6. Agreed'
  BY <1>2 DEF Agreed, ServerOpen
<1>7. Broken'
  <2> SUFFICES ASSUME pc \in {"send", "receive"}, command = "connect"
               PROVE  Broken'
    BY <1>2 DEF Broken, client
  <2>1. /\ \A i \in DOMAIN answer : Proper(i, answer[i])
        /\ \A i \in DOMAIN toClient : Proper(Len(answer) + i, toClient[i])
    BY BreaksOff
  <2> QED
    BY <1>2, <2>1 DEF Broken, Proper, client
<1> QED
  BY <1>3, <1>4, <1>5, <1>6, <1>7 DEF IInv

\* The server stops.
LEMMA StopKeeps == IInv /\ Stop => IInv'
<1> SUFFICES ASSUME IInv, Stop PROVE IInv'
  OBVIOUS
<1>1. TypeOK /\ Shape /\ Program
  BY DEF IInv
<1>2. /\ process' = "stopped" /\ toServer' = <<>>
      /\ UNCHANGED <<client, toClient, worker, id, got, reply, nextClientId, documents, meant, origin>>
  BY DEF Stop
<1>3. TypeOK'
  BY <1>1, <1>2 DEF TypeOK, client
<1>4. Shape'
  BY <1>1, <1>2, EmptySeqFacts DEF Shape, client
<1>5. Program'
  BY <1>1, <1>2 DEF Program, client
<1>6. Agreed'
  BY <1>2 DEF Agreed, ServerOpen
<1>7. Broken'
  <2> SUFFICES ASSUME pc \in {"send", "receive"}, command = "connect"
               PROVE  Broken'
    BY <1>2 DEF Broken, client
  <2>1. /\ \A i \in DOMAIN answer : Proper(i, answer[i])
        /\ \A i \in DOMAIN toClient : Proper(Len(answer) + i, toClient[i])
    BY BreaksOff
  <2> QED
    BY <1>2, <2>1 DEF Broken, Proper, client
<1> QED
  BY <1>3, <1>4, <1>5, <1>6, <1>7 DEF IInv
\* At the start nobody is connected.
LEMMA InitHolds == Init => IInv
<1> SUFFICES ASSUME Init PROVE IInv
  OBVIOUS
<1>1. TypeOK
  <2>1. (-1) \in -1 .. 1 /\ (-1) \in -1 .. 1 - 1 /\ DOMAIN <<>> = DOMAIN <<>> /\ 1 \in Nat \ {0}
    OBVIOUS
  <2>2. /\ pc = "shell" /\ connected = FALSE /\ clientId = -1 /\ command = "none" /\ files = <<>>
        /\ out = <<>> /\ answer = <<>> /\ worker = "none" /\ id = -1 /\ process = "up"
        /\ nextClientId = 1 /\ documents = <<>> /\ origin = <<>>
    BY DEF Init
  <2> QED
    BY <2>1, <2>2 DEF TypeOK
<1>2. Shape
  BY EmptySeqFacts DEF Init, Shape
<1>3. Program /\ Agreed /\ Broken
  BY DEF Init, Program, Agreed, Broken
<1> QED
  BY <1>1, <1>2, <1>3 DEF IInv

\* Nothing happens.
LEMMA StutterKeeps == IInv /\ UNCHANGED vars => IInv'
<1> SUFFICES ASSUME IInv, UNCHANGED vars PROVE IInv'
  OBVIOUS
<1>1. TypeOK' /\ Shape' /\ Program'
  BY DEF IInv, TypeOK, Shape, Program, vars, client, server
<1>2. UNCHANGED ServerOpen /\ UNCHANGED Idle
  BY DEF ServerOpen, Idle, vars, client, server
<1>3. Asking => Asking'
  BY SameRequest DEF Asking, Known, Split, vars, client, server
<1>4. Answering => Answering'
  BY SameReply DEF Answering, Known, Split, vars, client, server
<1>5. Agreed'
  BY <1>2, <1>3, <1>4 DEF IInv, Agreed, vars, client, server
<1>6. Broken'
  BY <1>2 DEF IInv, Broken, Proper, vars, client, server
<1> QED
  BY <1>1, <1>5, <1>6 DEF IInv

\* Every step of client, worker and server keeps the invariant.
LEMMA StepKeeps == IInv /\ [Next]_vars => IInv'
BY ConnectKeeps, IndexKeeps, SearchKeeps, QuitKeeps, VanishKeeps, NextClientKeeps, FileKeeps,
   FilesDoneKeeps, SendKeeps, ReceiveKeeps, NoReplyKeeps, ReturnedKeeps, ReadKeeps, HandleKeeps,
   WriteKeeps, EndKeeps, StopKeeps, StutterKeeps DEF Next, ClientStep, WorkerStep

\* The inductive invariant of the exchange: between commands nothing is under way, and
\* during one the request, then the reply, is spread over the three places it can be in.
THEOREM Invariance == Spec => []IInv
BY InitHolds, StepKeeps, PTL DEF Spec

\* Every variable has its type, and at the shell nothing is half read or half written,
\* however connections break off.
THEOREM TypesHold == Spec => []TypeOK
<1>1. IInv => TypeOK
  BY DEF IInv
<1> QED
  BY Invariance, <1>1, PTL

\* Client and worker agree on where every message ends, though neither checks the results
\* of its reads: between two commands over an open connection nothing is under way, the
\* worker waits for a message type, and the client has the id the worker registered.
THEOREM StaysInStep == Spec => []InStep
<1>1. IInv => InStep
  BY DEF IInv, Agreed, Idle, InStep, ServerOpen
<1> QED
  BY Invariance, <1>1, PTL

\* The hits the client makes of a whole reply are those it lists.
LEMMA HitsRead ==
  ASSUME NEW r, IsSeq(r.hits)
  PROVE  LET m == SearchReply(r)
         IN  m[2] = r.totalHits /\ Hits(m) = [i \in DOMAIN r.hits |-> [path |-> r.hits[i].path, freq |-> r.hits[i].freq]]
<1> DEFINE m == SearchReply(r)
<1>1. /\ m[2] = r.totalHits /\ m[3] = Len(r.hits)
      /\ \A i \in 1 .. Len(r.hits) : m[2 * i + 2] = r.hits[i].path /\ m[2 * i + 3] = r.hits[i].freq
  BY SearchReplyWhole
<1>2. DOMAIN r.hits = 1 .. Len(r.hits)
  BY SeqFacts
<1> HIDE DEF m
<1>3. Hits(m) = [i \in DOMAIN r.hits |-> [path |-> r.hits[i].path, freq |-> r.hits[i].freq]]
  BY <1>1, <1>2 DEF Hits
<1> QED
  BY <1>1, <1>3 DEF m

\* A search that returns over an open connection gives the user what findDocuments found
\* for the terms that were typed, for results of any size: the total, and the hits in order.
THEOREM SearchReturnsStore == Spec => SearchExact
<1> DEFINE Shows == result' = [totalHits |-> Find(meant).totalHits,
                              hits |-> [i \in DOMAIN Find(meant).hits |->
                                          [path |-> Find(meant).hits[i].path, freq |-> Find(meant).hits[i].freq]]]
           A == pc = "receive" /\ command = "search" /\ pc' = "shell" /\ ServerOpen => Shows
<1>1. IInv /\ [Next]_vars => [A]_vars
  <2> SUFFICES ASSUME IInv, [Next]_vars, pc = "receive", command = "search", pc' = "shell", ServerOpen
               PROVE  Shows
    OBVIOUS
  <2>1. Returned
    BY DEF Next, ClientStep, WorkerStep, Connect, Index, Search, Quit, Vanish, NextClient, Command, Dies,
           File, FilesDone, Send, Receive, NoReply, Read, Handle, Write, End, Stop, vars, client
  <2>2. NextReply(answer) = "done" /\ result' = [totalHits |-> answer[2], hits |-> Hits(answer)]
    BY <2>1 DEF Returned
  <2>3. answer = SearchReply(Find(meant))
    BY <2>2, ReplyRead DEF ReplyOf
  <2>4. IsSeq(Find(meant).hits)
    BY FindFacts DEF IInv, Shape
  <2> QED
    BY <2>2, <2>3, <2>4, HitsRead
<1>2. SearchExact <=> [][A]_vars
  BY DEF SearchExact
<1> QED
  BY Invariance, <1>1, <1>2, PTL DEF Spec
-----------------------------------------------------------------------------
(* What is stored.                                                         *)

\* What the worker reads out of the request is what the client counted.
LEMMA CountsRead ==
  ASSUME NEW owner, NEW path, NEW counts, IsFiniteSet(DOMAIN counts),
         counts = [w \in DOMAIN counts |-> counts[w]], NEW order \in Orders(DOMAIN counts)
  PROVE  LET m == IndexRequest(owner, path, counts, order)
         IN  m[1] = INDEX_REQUEST /\ m[2] = owner /\ m[3] = path /\ WordCounts(m) = counts
<1> DEFINE m == IndexRequest(owner, path, counts, order)
           K == DOMAIN counts
           n == Cardinality(K)
           last(w) == CHOOSE i \in 1 .. m[4] :
                        m[2 * i + 3] = w /\ \A j \in 1 .. m[4] : m[2 * j + 3] = w => j <= i
<1>1. /\ m[1] = INDEX_REQUEST /\ m[2] = owner /\ m[3] = path /\ m[4] = n
      /\ \A i \in 1 .. n : m[2 * i + 3] = order[i] /\ m[2 * i + 4] = counts[order[i]]
  BY IndexRequestWhole
<1>2. order \in Injection(1 .. n, K) /\ n \in Nat
  <2>1. n \in Nat
    BY FS_CardinalityType
  <2>2. order \in [1 .. n -> K] /\ \A i, j \in 1 .. n : order[i] = order[j] => i = j
    <3>1. order \in [1 .. n -> K] /\ \A i, j \in DOMAIN order : order[i] = order[j] => i = j
      BY DEF Orders
    <3> QED
      BY <3>1
  <2> HIDE DEF n, K
  <2> QED
    BY <2>1, <2>2 DEF Injection, IsInjective
<1>3. order \in Surjection(1 .. n, K)
  <2>1. IsFiniteSet(1 .. n) /\ Cardinality(1 .. n) = n
    <3>1. n \in Int /\ 1 \in Int /\ (IF 1 > n THEN 0 ELSE n - 1 + 1) = n
      BY <1>2
    <3> HIDE DEF n
    <3> QED
      BY <3>1, FS_Interval
  <2> QED
    BY <1>2, <2>1, FS_Injection
<1> HIDE DEF m, n
<1>4. \A w \in K : \E i \in 1 .. n : order[i] = w
  BY <1>3 DEF Surjection
<1>5. \A i, j \in 1 .. n : order[i] = order[j] => i = j
  BY <1>2 DEF Injection, IsInjective
<1>6. \A i \in 1 .. n : order[i] \in K
  BY <1>2 DEF Injection
<1>7. WordCounts(m) = [w \in {m[2 * i + 3] : i \in 1 .. m[4]} |-> m[2 * last(w) + 4]]
  BY DEF WordCounts
<1>8. {m[2 * i + 3] : i \in 1 .. m[4]} = K
  <2>1. {m[2 * i + 3] : i \in 1 .. m[4]} = {order[i] : i \in 1 .. n}
    BY <1>1
  <2>2. {order[i] : i \in 1 .. n} = K
    BY <1>4, <1>6
  <2> QED
    BY <2>1, <2>2
<1>9. ASSUME NEW w \in K PROVE m[2 * last(w) + 4] = counts[w]
  <2>1. PICK i \in 1 .. n : order[i] = w
    BY <1>4
  <2>2. i \in 1 .. m[4] /\ m[2 * i + 3] = w /\ \A j \in 1 .. m[4] : m[2 * j + 3] = w => j <= i
    <3>1. \A j \in 1 .. n : m[2 * j + 3] = w => j = i
      BY <1>1, <1>5, <2>1
    <3>2. i <= i
      BY <1>2
    <3> QED
      BY <1>1, <2>1, <3>1, <3>2
  <2>3. last(w) \in 1 .. m[4] /\ m[2 * last(w) + 3] = w
    BY <2>2
  <2> HIDE DEF last
  <2>4. order[last(w)] = w /\ m[2 * last(w) + 4] = counts[order[last(w)]]
    BY <1>1, <2>3
  <2> QED
    BY <2>4
<1> HIDE DEF last
<1>10. WordCounts(m) = [w \in K |-> counts[w]]
  BY <1>7, <1>8, <1>9
<1> QED
  BY <1>1, <1>10 DEF m
Faithful(doc, m) ==
  /\ doc.path = FullPath(m.owner, m.path)
  /\ doc.counts = [w \in WordsOf(m.content) |-> Cardinality(Occurrences(m.content, w))]

\* The client is gone or the server stops, and the worker has no request, nor will it get one.
Lost == /\ pc \in {"dead", "gone"} \/ process # "up"
        /\ worker # "none" => got = <<>> /\ toServer = <<>>

\* What was under way when the server stopped has gone with the connection.
Closed == process # "up" => toServer = <<>>

Attached == ServerOpen => connected \/ pc \in {"dead", "gone"}

\* What a client that has gone leaves for the worker: at most the rest of its request.
Leftover ==
  pc \in {"dead", "gone"} /\ ServerOpen =>
    \/ toServer = <<>>
    \/ got = <<>> /\ toServer = <<QUIT>>
    \/ \E m, c : WholeRequest(m) /\ IsSeq(c) /\ Split(m, got, toServer, c)

History ==
  /\ session \in Nat /\ \A d \in DOMAIN origin : origin[d].session \in Nat /\ origin[d].session <= session
  /\ \A d \in DOMAIN documents : ~origin[d].cut => Faithful(documents[d], origin[d].meant)
  /\ \A d, e \in DOMAIN documents : e > d /\ origin[d].cut => origin[e].session # origin[d].session
  /\ \A d \in DOMAIN documents : origin[d].cut /\ origin[d].session = session => Lost

SInv == IInv /\ Attached /\ Closed /\ Leftover /\ History

\* A whole request is read only when nothing of what a client left is under way.
LEMMA LeftoverRead ==
  ASSUME IsSeq(got), IsSeq(toServer), Leftover, pc \in {"dead", "gone"}, ServerOpen,
         NextRequest(got) = "done"
  PROVE  toServer = <<>>
<1>1. got # <<>>
  BY DEF NextRequest
<1>2. ASSUME NEW m, NEW c, WholeRequest(m), IsSeq(c), Split(m, got, toServer, c) PROVE toServer = <<>>
  <2>1. Begins(got, m) /\ (Len(got) = Len(m) <=> toServer = <<>> /\ c = <<>>)
    BY <1>2, SplitBegins
  <2>2. Len(got) = Len(m)
    BY <1>2, <2>1, RequestEnds
  <2> QED
    BY <2>1, <2>2
<1> QED
  BY <1>1, <1>2 DEF Leftover

\* When no document is stored, it is enough that a lost client stays lost.
LEMMA HistoryKept ==
  ASSUME History, UNCHANGED <<documents, origin, session>>, Lost => Lost'
  PROVE  History'
BY DEF History, Faithful

\* A client that takes a command is there, and its worker has stored what it meant.
LEMMA CommandKeeps == SInv /\ (Connect \/ Index \/ Search) => SInv'
<1> SUFFICES ASSUME SInv, Connect \/ Index \/ Search PROVE SInv'
  OBVIOUS
<1>1. IInv'
  BY ConnectKeeps, IndexKeeps, SearchKeeps DEF SInv
<1>2. /\ pc = "shell" /\ pc' \in {"files", "send"} /\ connected'
      /\ UNCHANGED <<documents, origin, session, process>>
      /\ process # "up" => UNCHANGED <<worker, got, toServer>>
  BY DEF Connect, Index, Search, Command, Request, server
<1>3. History'
  BY <1>2, HistoryKept DEF SInv, Lost
<1>4. Attached' /\ Closed' /\ Leftover'
  BY <1>2 DEF SInv, Attached, Closed, Leftover
<1> QED
  BY <1>1, <1>3, <1>4 DEF SInv

\* So is one in the middle of a command.
LEMMA ClientStepKeeps == SInv /\ ClientStep => SInv'
<1> SUFFICES ASSUME SInv, ClientStep PROVE SInv'
  OBVIOUS
<1>1. IInv'
  BY FileKeeps, FilesDoneKeeps, SendKeeps, ReceiveKeeps, NoReplyKeeps, ReturnedKeeps DEF SInv, ClientStep
<1>2. /\ pc \in {"files", "send", "receive"}
      /\ UNCHANGED <<documents, origin, session, worker, process, got>>
      /\ ~ServerOpen => UNCHANGED toServer
  BY DEF ClientStep, File, FilesDone, Send, Receive, NoReply, Returned, Disconnect, server
<1>3. History' /\ Closed'
  BY <1>2, HistoryKept DEF SInv, Lost, Closed, ServerOpen
<1>4. connected /\ UNCHANGED ServerOpen
  BY <1>2 DEF SInv, IInv, Program, ServerOpen
<1>5. ServerOpen => connected' /\ pc' \in {"shell", "files", "send", "receive"}
  <2> SUFFICES ASSUME ServerOpen PROVE connected' /\ pc' \in {"shell", "files", "send", "receive"}
    OBVIOUS
  <2>1. CASE File
    BY <1>4, <2>1 DEF File, Request
  <2>2. CASE FilesDone
    BY <1>4, <2>2 DEF FilesDone
  <2>3. CASE Send
    BY <1>4, <2>3 DEF Send
  <2>4. CASE Receive
    BY <1>4, <2>4 DEF Receive
  <2>5. CASE NoReply
    BY <2>5 DEF NoReply
  <2>6. CASE Returned
    BY <1>4, <2>6 DEF Returned
  <2> QED
    BY <2>1, <2>2, <2>3, <2>4, <2>5, <2>6 DEF ClientStep
<1>6. Attached' /\ Leftover'
  BY <1>4, <1>5 DEF Attached, Leftover
<1> QED
  BY <1>1, <1>3, <1>6 DEF SInv

\* quit leaves QUIT for the worker.
LEMMA QuitLeaves == SInv /\ Quit => SInv'
<1> SUFFICES ASSUME SInv, Quit PROVE SInv'
  OBVIOUS
<1>1. IInv' /\ IInv
  BY QuitKeeps DEF SInv
<1>2. /\ pc = "shell" /\ connected /\ pc' \in {"gone", "dead"}
      /\ toServer' = IF ServerOpen THEN Append(toServer, QUIT) ELSE toServer
      /\ UNCHANGED <<server, origin, session>>
  BY DEF Quit, Command, Disconnect
<1>3. History' /\ Closed'
  BY <1>2, HistoryKept DEF SInv, Lost, Closed, ServerOpen, server
<1>4. Leftover'
  <2> SUFFICES ASSUME ServerOpen PROVE got' = <<>> /\ toServer' = <<QUIT>>
    BY <1>2 DEF Leftover, ServerOpen, server
  <2>1. Idle
    BY <1>1, <1>2 DEF IInv, Agreed
  <2>2. Append(<<>>, QUIT) = <<QUIT>>
    OBVIOUS
  <2> QED
    BY <1>2, <2>1, <2>2 DEF Idle, server
<1>5. Attached'
  BY <1>2 DEF Attached
<1> QED
  BY <1>1, <1>3, <1>4, <1>5 DEF SInv

\* A client that dies leaves the rest of its request.
LEMMA VanishLeaves == SInv /\ Vanish => SInv'
<1> SUFFICES ASSUME SInv, Vanish PROVE SInv'
  OBVIOUS
<1>1. IInv' /\ IInv
  BY VanishKeeps DEF SInv
<1>2. /\ connected /\ pc \notin {"dead", "gone"} /\ pc' = "dead"
      /\ UNCHANGED <<toServer, server, origin, session>>
  BY DEF Vanish, ClientOpen, Dies
<1>3. History' /\ Closed'
  BY <1>2, HistoryKept DEF SInv, Lost, Closed, server
<1>4. Leftover'
  <2> SUFFICES ASSUME ServerOpen
               PROVE  \/ toServer = <<>>
                      \/ \E m, c : WholeRequest(m) /\ IsSeq(c) /\ Split(m, got, toServer, c)
    BY <1>2 DEF Leftover, ServerOpen, server
  <2>1. Idle \/ Asking \/ Answering
    BY <1>1, <1>2 DEF IInv, Agreed, TypeOK
  <2>2. CASE Asking
    <3>1. PICK m : RequestOf(m) /\ Split(m, got, toServer, out)
      BY <2>2 DEF Asking
    <3>2. WholeRequest(m) /\ IsSeq(out)
      BY <1>1, <3>1, RequestFacts DEF IInv, Shape
    <3> QED
      BY <3>1, <3>2
  <2> QED
    BY <2>1, <2>2 DEF Idle, Answering
<1>5. Attached'
  BY <1>2 DEF Attached
<1> QED
  BY <1>1, <1>3, <1>4, <1>5 DEF SInv

\* The next client program has a session of its own.
LEMMA NextClientStarts == SInv /\ NextClient => SInv'
<1> SUFFICES ASSUME SInv, NextClient PROVE SInv'
  OBVIOUS
<1>1. IInv'
  BY NextClientKeeps DEF SInv
<1>2. /\ worker = "none" /\ process = "up" /\ session' = session + 1 /\ pc' = "shell"
      /\ UNCHANGED <<server, origin>>
  BY DEF NextClient
<1>3. ~ServerOpen'
  BY <1>2 DEF ServerOpen, server
<1>4. History'
  <2>1. /\ session \in Nat /\ \A d \in DOMAIN origin : origin[d].session \in Nat /\ origin[d].session <= session
        /\ DOMAIN origin = DOMAIN documents
    BY DEF SInv, History, IInv, TypeOK
  <2>2. session' \in Nat /\ \A d \in DOMAIN origin : origin[d].session <= session' /\ origin[d].session # session'
    BY <1>2, <2>1
  <2> QED
    BY <1>2, <2>1, <2>2 DEF SInv, History, Faithful, server
<1>5. Attached' /\ Closed' /\ Leftover'
  BY <1>2, <1>3 DEF Attached, Closed, Leftover, server
<1> QED
  BY <1>1, <1>4, <1>5 DEF SInv

\* The worker goes on with what was left.
LEMMA ReadLeaves == SInv /\ Read => SInv'
<1> SUFFICES ASSUME SInv, Read PROVE SInv'
  OBVIOUS
<1>1. IInv' /\ IInv
  BY ReadKeeps DEF SInv
<1>2. /\ worker = "read" /\ NextRequest(got) # "done"
      /\ UNCHANGED <<pc, connected, worker, process, documents, session, origin>>
      /\ \/ toServer # <<>> /\ got' = Append(got, Head(toServer)) /\ toServer' = Tail(toServer)
         \/ toServer = <<>> /\ got # <<>> /\ toServer' = toServer
  BY DEF Read, client
<1>3. History' /\ Closed'
  BY <1>2, HistoryKept DEF SInv, Lost, Closed
<1>4. Attached' /\ UNCHANGED ServerOpen
  BY <1>2 DEF SInv, Attached, ServerOpen
<1>5. Leftover'
  <2> SUFFICES ASSUME pc \in {"dead", "gone"}, ServerOpen, toServer # <<>>
               PROVE  \/ toServer' = <<>>
                      \/ \E m, c : WholeRequest(m) /\ IsSeq(c) /\ Split(m, got', toServer', c)
    <3>1. CASE toServer = <<>>
      BY <1>2, <3>1 DEF Leftover
    <3>2. CASE toServer # <<>>
      BY <1>2, <1>4, <3>2 DEF Leftover, Split
    <3> QED
      BY <3>1, <3>2
  <2>1. got' = Append(got, Head(toServer)) /\ toServer' = Tail(toServer)
    BY <1>2
  <2>2. IsSeq(got) /\ IsSeq(toServer)
    BY <1>1 DEF IInv, Shape
  <2>3. CASE toServer = <<QUIT>>
    <3>1. Tail(<<QUIT>>) = <<>>
      OBVIOUS
    <3> QED
      BY <2>1, <2>3, <3>1
  <2>4. ASSUME NEW m, NEW c, WholeRequest(m), IsSeq(c), Split(m, got, toServer, c)
        PROVE  Split(m, Append(got, Head(toServer)), Tail(toServer), c)
    BY <2>2, <2>4, SplitRead
  <2> QED
    BY <2>1, <2>3, <2>4 DEF SInv, Leftover
<1> QED
  BY <1>1, <1>3, <1>4, <1>5 DEF SInv

\* What is stored for a client that is there is the file it meant.
LEMMA StoredMeant ==
  ASSUME SInv, Handle, StoreDocument, ~Severed
  PROVE  Faithful([path |-> FullPath(got[2], got[3]), counts |-> WordCounts(got)], meant)
<1>1. RequestOf(got)
  BY RequestRead DEF SInv, Handle, Severed, ClientOpen
<1>2. got[1] = INDEX_REQUEST
  BY DEF StoreDocument
<1>3. CASE command = "connect" /\ got = <<REGISTER_REQUEST>>
  <2>1. got[1] = REGISTER_REQUEST
    BY <1>3
  <2> QED
    BY <1>2, <2>1 DEF REGISTER_REQUEST, INDEX_REQUEST
<1>4. CASE command = "search" /\ meant \in Query /\ got = SearchRequest(meant)
  <2>1. got[1] = SEARCH_REQUEST
    BY <1>4, QueryAssumption, SearchRequestWhole
  <2> QED
    BY <1>2, <2>1 DEF SEARCH_REQUEST, INDEX_REQUEST
<1>5. CASE /\ command = "index" /\ IsSeq(meant.content)
           /\ LET counts == Tokenize(meant.content)
              IN  \E order \in Orders(DOMAIN counts) :
                    got = IndexRequest(meant.owner, meant.path, counts, order)
  <2> DEFINE counts == Tokenize(meant.content)
  <2>1. PICK order \in Orders(DOMAIN counts) : got = IndexRequest(meant.owner, meant.path, counts, order)
    BY <1>5
  <2>2. IsFiniteSet(DOMAIN counts) /\ counts \in UNION {[K -> Nat] : K \in SUBSET Words}
    BY <1>5, TokenizeFinite
  <2>3. counts = [w \in WordsOf(meant.content) |-> Cardinality(Occurrences(meant.content, w))]
    BY <1>5, TokenizeExact
  <2> HIDE DEF counts
  <2>4. counts = [w \in DOMAIN counts |-> counts[w]]
    BY <2>2
  <2>5. \A o, p : LET m == IndexRequest(o, p, counts, order)
                  IN  m[2] = o /\ m[3] = p /\ WordCounts(m) = counts
    BY <2>1, <2>2, <2>4, CountsRead
  <2>6. got[2] = meant.owner /\ got[3] = meant.path /\ WordCounts(got) = counts
    BY <2>1, <2>5
  <2> QED
    BY <2>3, <2>6 DEF Faithful
<1> QED
  BY <1>1, <1>3, <1>4, <1>5 DEF RequestOf

\* The request is handled, and what an index request stores has its place in History.
LEMMA HandleStores == SInv /\ Handle => SInv'
<1> SUFFICES ASSUME SInv, Handle PROVE SInv'
  OBVIOUS
<1>1. IInv' /\ IInv
  BY HandleKeeps DEF SInv
<1>2. /\ worker = "read" /\ NextRequest(got) = "done" /\ got' = <<>> /\ worker' = "write"
      /\ UNCHANGED <<pc, connected, toServer, process, session>>
  BY DEF Handle, client, Register, StoreDocument, AnswerSearch, Answer
<1>3. got # <<>> /\ UNCHANGED ServerOpen /\ (ServerOpen <=> process = "up")
  BY <1>2 DEF ServerOpen, NextRequest
<1>4. Attached' /\ Closed'
  BY <1>2, <1>3 DEF SInv, Attached, Closed
<1>5. pc \in {"dead", "gone"} \/ process # "up" => toServer = <<>>
  BY <1>1, <1>2, <1>3, LeftoverRead DEF SInv, Closed, IInv, Shape
<1>6. Leftover'
  BY <1>2, <1>5 DEF Leftover
<1>7. ~Lost
  BY <1>2, <1>3 DEF Lost
<1>8. CASE UNCHANGED <<documents, origin>>
  <2>1. History'
    BY <1>2, <1>7, <1>8, HistoryKept DEF SInv
  <2> QED
    BY <1>1, <1>4, <1>6, <2>1 DEF SInv
<1>9. CASE StoreDocument
  <2>1. PICK doc, from :
          /\ documents' = Append(documents, doc) /\ origin' = Append(origin, from)
          /\ doc = [path |-> FullPath(got[2], got[3]), counts |-> WordCounts(got)]
          /\ from = [meant |-> meant, cut |-> Severed, session |-> session]
    BY <1>9 DEF StoreDocument
  <2>2. from.meant = meant /\ from.cut = Severed /\ from.session = session
    BY <2>1
  <2>3. ~Severed => Faithful(doc, meant)
    BY <1>9, <2>1, StoredMeant
  <2>4. Severed => Lost'
    BY <1>2, <1>3, <1>5 DEF Severed, ClientOpen, SInv, Attached, Lost
  <2>5. IsSeq(documents) /\ IsSeq(origin) /\ Len(origin) = Len(documents)
    BY <1>1 DEF IInv, Shape
  <2>6. PICK n : n = Len(documents)
    OBVIOUS
  <2>7. /\ n \in Nat /\ DOMAIN documents = 1 .. n /\ DOMAIN origin = 1 .. n
        /\ DOMAIN documents' = 1 .. n + 1 /\ DOMAIN origin' = 1 .. n + 1
    <3>1. /\ IsSeq(documents') /\ Len(documents') = n + 1
          /\ IsSeq(origin') /\ Len(origin') = n + 1
      BY <2>1, <2>5, <2>6, AppendFacts
    <3> QED
      BY <2>5, <2>6, <3>1, SeqFacts
  <2>8. /\ documents'[n + 1] = doc /\ origin'[n + 1] = from
        /\ \A d \in 1 .. n : documents'[d] = documents[d] /\ origin'[d] = origin[d]
    BY <2>1, <2>5, <2>6, AppendFacts
  <2>9. \A d \in 1 .. n : origin[d].cut => origin[d].session # session
    BY <1>7, <2>7 DEF SInv, History
  <2>10. \A d \in 1 .. n + 1 : d \in 1 .. n \/ d = n + 1
    BY <2>7
  <2>11. session' \in Nat /\ \A d \in 1 .. n + 1 : origin'[d].session \in Nat /\ origin'[d].session <= session'
    BY <1>2, <2>2, <2>7, <2>8, <2>10 DEF SInv, History
  <2>12. \A d \in 1 .. n + 1 : ~origin'[d].cut => Faithful(documents'[d], origin'[d].meant)
    BY <2>2, <2>3, <2>7, <2>8, <2>10 DEF SInv, History
  <2>13. \A d, e \in 1 .. n + 1 : e > d /\ origin'[d].cut => origin'[e].session # origin'[d].session
    <3> SUFFICES ASSUME NEW d \in 1 .. n + 1, NEW e \in 1 .. n + 1, e > d, origin'[d].cut
                 PROVE  origin'[e].session # origin'[d].session
      OBVIOUS
    <3>1. d \in 1 .. n
      BY <2>7
    <3>2. CASE e \in 1 .. n
      BY <2>7, <2>8, <3>1, <3>2 DEF SInv, History
    <3>3. CASE e = n + 1
      BY <2>2, <2>8, <2>9, <3>1, <3>3
    <3> QED
      BY <2>10, <3>2, <3>3
  <2>14. \A d \in 1 .. n + 1 : origin'[d].cut /\ origin'[d].session = session' => Lost'
    BY <1>2, <2>2, <2>4, <2>8, <2>9, <2>10
  <2>15. History'
    BY <2>7, <2>11, <2>12, <2>13, <2>14 DEF History, Faithful
  <2> QED
    BY <1>1, <1>4, <1>6, <2>15 DEF SInv
<1> QED
  BY <1>8, <1>9 DEF Handle, Register, AnswerSearch

\* A reply is written, or the process killed.
LEMMA WriteLeaves == SInv /\ Write => SInv'
<1> SUFFICES ASSUME SInv, Write PROVE SInv'
  OBVIOUS
<1>1. IInv'
  BY WriteKeeps DEF SInv
<1>2. /\ worker = "write" /\ UNCHANGED <<pc, connected, documents, session, origin>>
      /\ \/ UNCHANGED <<process, got, toServer>>
         \/ process' = "killed" /\ worker' = "none" /\ toServer' = <<>>
  BY DEF Write, Killed, client
<1>3. ServerOpen' => ServerOpen
  BY <1>2 DEF ServerOpen
<1>4. ServerOpen' => UNCHANGED <<got, toServer>>
  BY <1>2 DEF ServerOpen
<1>5. History' /\ Closed'
  BY <1>2, HistoryKept DEF SInv, Lost, Closed
<1>6. Attached'
  BY <1>2, <1>3 DEF SInv, Attached
<1>7. Leftover'
  <2> SUFFICES ASSUME pc \in {"dead", "gone"}, ServerOpen' PROVE Leftover'
    BY <1>2 DEF Leftover
  <2>1. /\ got' = got /\ toServer' = toServer
        /\ \/ toServer = <<>>
           \/ got = <<>> /\ toServer = <<QUIT>>
           \/ \E m, c : WholeRequest(m) /\ IsSeq(c) /\ Split(m, got, toServer, c)
    BY <1>3, <1>4 DEF SInv, Leftover
  <2> QED
    BY <2>1 DEF Leftover, Split
<1> QED
  BY <1>1, <1>5, <1>6, <1>7 DEF SInv

\* After the worker nothing is stored for this session.
LEMMA EndLeaves == SInv /\ End => SInv'
<1> SUFFICES ASSUME SInv, End PROVE SInv'
  OBVIOUS
<1>1. IInv'
  BY EndKeeps DEF SInv
<1>2. worker' = "none" /\ UNCHANGED <<pc, process, toServer, documents, session, origin>>
  BY DEF End, client
<1>3. ~ServerOpen'
  BY <1>2 DEF ServerOpen
<1>4. History' /\ Closed'
  BY <1>2, <1>3, HistoryKept DEF SInv, Lost, Closed
<1>5. Attached' /\ Leftover'
  BY <1>3 DEF Attached, Leftover
<1> QED
  BY <1>1, <1>4, <1>5 DEF SInv

\* When the server stops, its worker keeps what it has read of a request, and gets no more.
LEMMA StopLeaves == SInv /\ Stop => SInv'
<1> SUFFICES ASSUME SInv, Stop PROVE SInv'
  OBVIOUS
<1>1. IInv'
  BY StopKeeps DEF SInv
<1>2. /\ process' = "stopped" /\ toServer' = <<>>
      /\ UNCHANGED <<pc, worker, got, documents, session, origin>>
  BY DEF Stop, client
<1>3. ~ServerOpen'
  BY <1>2 DEF ServerOpen
<1>4. History' /\ Closed'
  BY <1>2, HistoryKept DEF SInv, Lost, Closed
<1>5. Attached' /\ Leftover'
  BY <1>3 DEF Attached, Leftover
<1> QED
  BY <1>1, <1>4, <1>5 DEF SInv

\* Nothing happens.
LEMMA StutterLeaves == SInv /\ UNCHANGED vars => SInv'
<1> SUFFICES ASSUME SInv, UNCHANGED vars PROVE SInv'
  OBVIOUS
<1>1. IInv'
  BY StutterKeeps DEF SInv
<1>2. UNCHANGED <<pc, connected, worker, process, got, toServer, documents, session, origin>>
  BY DEF vars, client, server
<1>3. UNCHANGED ServerOpen
  BY <1>2 DEF ServerOpen
<1>4. History' /\ Closed'
  BY <1>2, HistoryKept DEF SInv, Lost, Closed
<1>5. Attached' /\ Leftover'
  BY <1>2, <1>3 DEF SInv, Attached, Leftover, Split
<1> QED
  BY <1>1, <1>4, <1>5 DEF SInv

\* The invariant of exchange and store.
LEMMA SInvHolds == Spec => []SInv
<1>1. Init => SInv
  <2> SUFFICES ASSUME Init PROVE SInv
    OBVIOUS
  <2>1. IInv
    BY InitHolds
  <2>2. ~ServerOpen /\ pc = "shell" /\ Closed
    BY DEF Init, ServerOpen, Closed
  <2>3. documents = <<>> /\ origin = <<>> /\ session = 1
    BY DEF Init
  <2>4. DOMAIN documents = {} /\ DOMAIN origin = {} /\ session \in Nat
    BY <2>3
  <2>5. Attached /\ Leftover /\ History
    BY <2>2, <2>4 DEF Attached, Leftover, History
  <2> QED
    BY <2>1, <2>2, <2>5 DEF SInv
<1>2. SInv /\ [Next]_vars => SInv'
  BY CommandKeeps, ClientStepKeeps, QuitLeaves, VanishLeaves, NextClientStarts, ReadLeaves,
     HandleStores, WriteLeaves, EndLeaves, StopLeaves, StutterLeaves DEF Next, WorkerStep
<1> QED
  BY <1>1, <1>2, PTL DEF Spec

\* A stored document has the id, the path and the exact word counts of the file its client
\* read, or its connection had broken off when it was stored, and it is the last one of that
\* connection (ServerProcessingEngine.cpp:107-133).
THEOREM StoresFaithfully == Spec => []StoredFaithfully
<1>1. SInv => StoredFaithfully
  BY DEF SInv, History, Faithful, StoredFaithfully
<1> QED
  BY SInvHolds, <1>1, PTL
=============================================================================
