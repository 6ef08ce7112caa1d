--------------------------- MODULE ZmqService_proof ---------------------------
(***************************************************************************)
(* Proofs about the ZeroMQ server's handlers of INDEX_REQUEST and          *)
(* SEARCH_REQUEST, for every set of workers, words and requests, and every *)
(* bound on them: the store numbers a path once; the codec reads back what *)
(* it wrote and refuses a message cut short; no count is lost; a search    *)
(* finds what was acknowledged before it began, with the counts sent; its  *)
(* client reads the best hits, best first.                                 *)
(***************************************************************************)
EXTENDS ZmqService, SequenceTheorems, FiniteSetTheorems, WellFoundedInduction, TLAPS

(* Numbers of documents.                                                   *)

\* The map from document numbers to paths has no gaps: putDocument gives the numbers
\* 1, 2, ... in turn, which is what makes the next number a new one.
Gapless == documents \in Seq({documents[d] : d \in Doc})

Inv == Gapless /\ PathsDistinct

\* A function on 1 .. n is a sequence.
LEMMA FunctionIsSeq ==
  ASSUME NEW S, NEW n \in Nat, NEW f \in [1 .. n -> S]
  PROVE  f \in Seq(S)
OBVIOUS

\* A sequence without repetition stays one when an element it lacks is appended.
LEMMA AppendNew ==
  ASSUME NEW s, s \in Seq({s[i] : i \in DOMAIN s}), NEW e,
         \A i, j \in DOMAIN s : s[i] = s[j] => i = j,
         \A i \in DOMAIN s : s[i] # e,
         NEW t, t = Append(s, e)
  PROVE  /\ t \in Seq({t[i] : i \in DOMAIN t})
         /\ \A i, j \in DOMAIN t : t[i] = t[j] => i = j
<1> DEFINE S == {s[i] : i \in DOMAIN s} \union {e}
<1>1. s \in Seq(S)
  OBVIOUS
<1>2. /\ Len(t) = Len(s) + 1
      /\ \A i \in 1 .. Len(s) : t[i] = s[i]
      /\ t[Len(s) + 1] = e
      /\ t \in Seq(S)
  BY <1>1, AppendProperties
<1>3. DOMAIN s = 1 .. Len(s) /\ DOMAIN t = 1 .. Len(s) + 1 /\ Len(s) \in Nat
  BY <1>1, <1>2, LenProperties
<1>4. t \in Seq({t[i] : i \in DOMAIN t})
  <2> DEFINE T == {t[i] : i \in DOMAIN t}
  <2>1. t \in [1 .. Len(t) -> S]
    BY <1>2, LenProperties
  <2>2. \A i \in 1 .. Len(t) : t[i] \in T
    BY <1>2, <1>3
  <2>3. Len(t) \in Nat
    BY <1>2, <1>3
  <2> HIDE DEF T
  <2>4. t \in [1 .. Len(t) -> T]
    BY <2>1, <2>2
  <2>5. t \in Seq(T)
    BY ONLY <2>3, <2>4, FunctionIsSeq
  <2> QED
    BY <2>5 DEF T
<1>5. ASSUME NEW i \in DOMAIN t, NEW j \in DOMAIN t, t[i] = t[j]
      PROVE  i = j
  BY <1>2, <1>3, <1>5
<1> QED
  BY <1>4, <1>5

\* putDocument leaves the map alone, or appends a path that has no number.
LEMMA PutDocumentKeeps ==
  ASSUME Inv, NEW w, NEW path, PutDocument(w, path)
  PROVE  Inv'
<1>1. CASE UNCHANGED documents
  BY <1>1 DEF Inv, Gapless, PathsDistinct, Doc
<1>2. CASE DocumentPathToId(path) = {} /\ documents' = Append(documents, path)
  <2>1. \A d \in DOMAIN documents : documents[d] # path
    BY <1>2 DEF DocumentPathToId
  <2>2. /\ documents' \in Seq({documents'[d] : d \in DOMAIN documents'})
        /\ \A d, e \in DOMAIN documents' : documents'[d] = documents'[e] => d = e
    BY <1>2, <2>1, AppendNew DEF Inv, Gapless, PathsDistinct, Doc
  <2> QED
    BY <2>2 DEF Inv, Gapless, PathsDistinct, Doc
<1> QED
  BY <1>1, <1>2 DEF PutDocument

\* The empty map is gapless.
LEMMA Initially == Init => Inv
<1> SUFFICES ASSUME Init
             PROVE  documents = <<>> /\ Inv
  OBVIOUS
<1>1. documents = <<>>
  BY DEF Init
<1>2. documents \in Seq({documents[d] : d \in Doc})
  BY <1>1, EmptySeq
<1> QED
  BY <1>1, <1>2 DEF Inv, Gapless, PathsDistinct, Doc

\* Only putDocument changes the map.
LEMMA Preserved == Inv /\ [Next]_vars => Inv'
<1> SUFFICES ASSUME Inv, [Next]_vars
             PROVE  Inv'
  OBVIOUS
<1>1. CASE UNCHANGED documents
  BY <1>1 DEF Inv, Gapless, PathsDistinct, Doc
<1>2. ASSUME NEW w \in Worker, ReceiveIndex(w)
      PROVE  Inv'
  <2>1. UNCHANGED documents \/ \E path : PutDocument(w, path)
    BY <1>2 DEF ReceiveIndex
  <2> QED
    BY <1>1, <2>1, PutDocumentKeeps
<1>3. ASSUME NEW w \in Worker, ReceiveSearch(w) \/ Step(w)
      PROVE  UNCHANGED documents
  BY <1>3 DEF ReceiveSearch, Step, Update, ReplyIndex, LookupTerm, ReplySearch, store
<1>4. ASSUME NEW w \in Worker, Skip(w)
      PROVE  UNCHANGED documents
  BY <1>4 DEF Skip, store
<1>5. CASE UNCHANGED vars
  BY <1>1, <1>5 DEF vars, store
<1> QED
  BY <1>1, <1>2, <1>3, <1>4, <1>5 DEF Next

\* A path has one number, however many workers put it at once (IndexStore.cpp:6-16):
\* putDocument looks for the path and gives it a number under one lock.
THEOREM PathsAreDistinct == Spec => []PathsDistinct
<1>1. Inv => PathsDistinct
  BY DEF Inv
<1> QED
  BY Initially, Preserved, <1>1, PTL DEF Spec

-----------------------------------------------------------------------------
(* Reading and writing in turns.                                           *)

\* What a reader keeps: its bytes, how far it is, and the fields it has read.
Field == Nat \union Seq(Byte)
ReaderSet == [bytes : Seq(Byte), offset : Nat, ok : BOOLEAN, fields : Seq(Field)]

\* A set of numbers that has 0 and with every number the next one has them all.
LEMMA SetInduction ==
  ASSUME NEW S, 0 \in S, \A n \in Nat : n \in S => n + 1 \in S
  PROVE  \A n \in Nat : n \in S
<1> DEFINE T == Nat \ S
           R == OpToRel(<, Nat)
<1>1. IsWellFoundedOn(R, Nat)
  BY NatLessThanWellFounded
<1>2. \A m, n \in Nat : m < n => <<m, n>> \in R
  BY DEF OpToRel
<1> SUFFICES ASSUME T # {} PROVE FALSE
  OBVIOUS
<1> HIDE DEF R
<1>3. PICK n \in T : \A m \in T : <<m, n>> \notin R
  BY <1>1, WFMin
<1>4. n - 1 \in Nat /\ n - 1 < n
  BY <1>3
<1>5. n - 1 \in S
  BY <1>2, <1>3, <1>4
<1> QED
  BY <1>3, <1>4, <1>5

\* The states of a loop of n turns that starts with x, step[<<i, y>>] being what turn i
\* makes of y.
Turns(f, n, x, step) == f[0] = x /\ \A i \in 1 .. n : f[i] = step[<<i, f[i - 1]>>]

\* A loop of n turns has its states, one before each turn and one after the last.
LEMMA Iteration ==
  ASSUME NEW n \in Nat, NEW D, NEW x \in D, NEW step \in [(1 .. n) \X D -> D]
  PROVE  \E f \in [0 .. n -> D] : Turns(f, n, x, step)
<1> DEFINE Good(f, m) == f[0] = x /\ \A i \in 1 .. m : f[i] = step[<<i, f[i - 1]>>]
           S == {m \in Nat : m <= n => \E f \in [0 .. m -> D] : Good(f, m)}
<1>1. 0 \in S
  <2>1. [i \in 0 .. 0 |-> x] \in [0 .. 0 -> D] /\ Good([i \in 0 .. 0 |-> x], 0)
    OBVIOUS
  <2> QED
    BY <2>1
<1>2. ASSUME NEW m \in Nat, m \in S
      PROVE  m + 1 \in S
  <2> SUFFICES ASSUME m + 1 <= n
               PROVE  \E f \in [0 .. m + 1 -> D] : Good(f, m + 1)
    OBVIOUS
  <2>1. PICK f \in [0 .. m -> D] : Good(f, m)
    BY <1>2
  <2> DEFINE g == [i \in 0 .. m + 1 |-> IF i <= m THEN f[i] ELSE step[<<m + 1, f[m]>>]]
  <2>2. g \in [0 .. m + 1 -> D]
    <3>1. f[m] \in D /\ m + 1 \in 1 .. n
      OBVIOUS
    <3>2. step[<<m + 1, f[m]>>] \in D
      BY <3>1
    <3>3. \A i \in 0 .. m + 1 : i <= m => f[i] \in D
      OBVIOUS
    <3> QED
      BY <3>2, <3>3
  <2>3. ASSUME NEW i \in 1 .. m + 1
        PROVE  g[i] = step[<<i, g[i - 1]>>]
    <3>1. CASE i <= m
      <4>1. g[i] = f[i] /\ g[i - 1] = f[i - 1]
        BY <3>1
      <4> QED
        BY <2>1, <3>1, <4>1
    <3>2. CASE i = m + 1
      <4>1. g[i] = step[<<m + 1, f[m]>>] /\ g[i - 1] = f[m]
        BY <3>2
      <4> QED
        BY <3>2, <4>1
    <3> QED
      BY <3>1, <3>2
  <2>4. Good(g, m + 1)
    <3>1. g[0] = f[0]
      OBVIOUS
    <3> QED
      BY <2>1, <2>3, <3>1
  <2> HIDE DEF g
  <2> QED
    BY <2>2, <2>4
<1> HIDE DEF S
<1>3. n \in S
  BY <1>1, <1>2, SetInduction
<1> QED
  BY <1>3 DEF S, Turns
-----------------------------------------------------------------------------
(* writeU32 and readU32.                                                   *)

\* A byte can hold the kind of any message.
LEMMA BaseType == Base \in Nat /\ Base > 7 /\ 0 \in Byte
BY BaseAssumption DEF Byte

\* A digit and the rest of a number, in any base.
LEMMA Digit ==
  ASSUME NEW v \in Nat
  PROVE  /\ v \div Base \in Nat /\ v % Base \in Byte
         /\ Shift(v \div Base, v % Base) = v
<1>1. Base \in Nat /\ Base > 0
  BY BaseType
<1> DEFINE q == v \div Base
           r == v % Base
<1>2. /\ q \in Nat
      /\ r \in 0 .. Base - 1
      /\ v = Base * q + r
  BY <1>1, SMTT(30)
<1> HIDE DEF q, r
<1>3. v = q * Base + r
  BY <1>1, <1>2, SMTT(30)
<1> QED
  BY <1>2, <1>3 DEF Shift, Byte, q, r

\* A uint32_t is written as four digits.
LEMMA LimitType ==
  /\ Base * Base \in Nat /\ Base * Base * Base \in Nat /\ Limit \in Nat
  /\ Base <= Limit
<1>1. Base \in Nat /\ Base > 7
  BY BaseType
<1> DEFINE b2 == Base * Base
           b3 == Base * Base * Base
<1>2. b2 \in Nat /\ b3 \in Nat /\ Limit \in Nat
  BY <1>1 DEF Limit
<1>3. \A a \in Nat : a > 7 => a <= a * Base /\ a * Base \in Nat
  BY <1>1, SMTT(30)
<1>4. Base <= b2 /\ b2 > 7
  BY <1>1, <1>3
<1> HIDE DEF b2
<1>5. b2 <= b3 /\ b3 > 7
  <2>1. b3 = b2 * Base
    BY DEF b2
  <2> QED
    BY <1>1, <1>2, <1>3, <1>4, <2>1
<1> HIDE DEF b3
<1>6. b3 <= Limit
  <2>1. Limit = b3 * Base
    BY DEF b3, b2, Limit
  <2> QED
    BY <1>2, <1>3, <1>5, <2>1
<1> QED
  BY <1>1, <1>2, <1>4, <1>5, <1>6 DEF b2, b3

\* What is written as four bytes is read back.
LEMMA U32Read ==
  ASSUME NEW v \in Nat, v < Limit
  PROVE  /\ U32(v) \in Seq(Byte) /\ Len(U32(v)) = 4
         /\ Shift(Shift(Shift(U32(v)[1], U32(v)[2]), U32(v)[3]), U32(v)[4]) = v
<1>1. Base \in Nat /\ Base > 7
  BY BaseType
<1> DEFINE u == v \div Base
           t == u \div Base
           s == t \div Base
<1>2. u \in Nat /\ v % Base \in Byte /\ Shift(u, v % Base) = v
  BY Digit
<1> HIDE DEF u
<1>3. t \in Nat /\ u % Base \in Byte /\ Shift(t, u % Base) = u
  BY <1>2, Digit
<1> HIDE DEF t
<1>4. s \in Nat /\ t % Base \in Byte /\ Shift(s, t % Base) = t
  BY <1>3, Digit
<1> HIDE DEF s
<1>5. Shift(0, s) = s /\ s % Base \in Byte
  BY <1>1, <1>4, Digit DEF Shift
<1>6. s < Base
  <2>1. SUFFICES ASSUME Base <= s PROVE FALSE
    BY <1>1, <1>4
  <2>2. \A a, c, d \in Nat : d <= c => d * Base <= Shift(c, a)
    <3>1. \A c, d \in Nat : d <= c => d * Base <= c * Base
      BY <1>1, SMTT(30)
    <3>2. \A c \in Nat : c * Base \in Nat
      BY <1>1
    <3> QED
      BY <3>1, <3>2 DEF Shift
  <2>3. Byte \subseteq Nat
    BY <1>1 DEF Byte
  <2>4. Base * Base <= t
    BY <1>1, <1>4, <2>1, <2>2, <2>3
  <2>5. Base * Base * Base <= u
    BY <1>3, <2>2, <2>3, <2>4, LimitType
  <2>6. Limit <= v
    BY <1>2, <2>2, <2>3, <2>5, LimitType DEF Limit
  <2> QED
    BY <2>6, LimitType
<1>7. s % Base = s
  BY <1>1, <1>4, <1>6
<1>8. U32(v) = <<s % Base, t % Base, u % Base, v % Base>>
  BY DEF U32, s, t, u
<1>9. U32(v) \in Seq(Byte) /\ Len(U32(v)) = 4
  BY <1>2, <1>3, <1>4, <1>5, <1>8
<1>10. U32(v)[1] = s % Base /\ U32(v)[2] = t % Base /\ U32(v)[3] = u % Base /\ U32(v)[4] = v % Base
  BY <1>8
<1> QED
  BY <1>2, <1>3, <1>4, <1>7, <1>9, <1>10

\* The bytes s are in m, the first of them after k others.
At(m, k, s) == k + Len(s) <= Len(m) /\ \A j \in 1 .. Len(s) : m[k + j] = s[j]

\* The bytes of b are the first bytes of m.
Prefix(b, m) == Len(b) <= Len(m) /\ \A j \in 1 .. Len(b) : b[j] = m[j]

\* The reader, over the first bytes of the message m or all of them, has read the first
\* k bytes as the fields F unless they were cut.
Reads(r, m, k, F) ==
  /\ r \in ReaderSet
  /\ Prefix(r.bytes, m)
  /\ r.ok => r.offset = k /\ r.fields = F /\ k <= Len(r.bytes)
  /\ r.bytes = m => r.ok

\* The parts of what is in a message are in it, the second after the first.
LEMMA AtParts ==
  ASSUME NEW m \in Seq(Byte), NEW k \in Nat, NEW s \in Seq(Byte), NEW t \in Seq(Byte),
         At(m, k, s \o t)
  PROVE  At(m, k, s) /\ At(m, k + Len(s), t)
<1>1. /\ Len(s) \in Nat /\ Len(t) \in Nat /\ Len(m) \in Nat /\ Len(s \o t) = Len(s) + Len(t)
      /\ \A j \in 1 .. Len(s) + Len(t) :
           (s \o t)[j] = IF j <= Len(s) THEN s[j] ELSE t[j - Len(s)]
  BY ConcatProperties, LenProperties
<1>2. At(m, k, s)
  BY <1>1 DEF At
<1>3. ASSUME NEW j \in 1 .. Len(t) PROVE m[k + Len(s) + j] = t[j]
  <2>1. Len(s) + j \in 1 .. Len(s) + Len(t) /\ ~(Len(s) + j <= Len(s)) /\ Len(s) + j - Len(s) = j
    BY <1>1
  <2>2. (s \o t)[Len(s) + j] = t[j]
    BY <1>1, <2>1
  <2>3. m[k + (Len(s) + j)] = t[j]
    <3>1. \A i \in 1 .. Len(s \o t) : m[k + i] = (s \o t)[i]
      BY DEF At
    <3>2. Len(s) + j \in 1 .. Len(s \o t)
      BY <1>1, <2>1
    <3> QED
      BY <2>2, <3>1, <3>2
  <2> QED
    BY <1>1, <2>3
<1> QED
  BY <1>1, <1>2, <1>3 DEF At

\* readU32 reads the number written where the reader is, unless it was cut.
LEMMA ReadU32Reads ==
  ASSUME NEW m \in Seq(Byte), NEW k \in Nat, NEW F, NEW r, Reads(r, m, k, F),
         NEW v \in Nat, v < Limit, At(m, k, U32(v))
  PROVE  /\ Reads(ReadU32(r), m, k + 4, Append(F, v))
         /\ ReadU32(r).bytes = r.bytes
         /\ ReadU32(r).ok => r.ok
<1> DEFINE value == Shift(Shift(Shift(r.bytes[r.offset + 1], r.bytes[r.offset + 2]),
                                r.bytes[r.offset + 3]), r.bytes[r.offset + 4])
           long == r.ok /\ r.offset + 4 <= Len(r.bytes)
<1>1. /\ r \in ReaderSet /\ r.bytes \in Seq(Byte) /\ r.offset \in Nat /\ r.ok \in BOOLEAN
      /\ r.fields \in Seq(Field)
      /\ Len(r.bytes) \in Nat /\ Len(m) \in Nat
  BY LenProperties DEF Reads, ReaderSet
<1>2. /\ Len(U32(v)) = 4
      /\ Shift(Shift(Shift(U32(v)[1], U32(v)[2]), U32(v)[3]), U32(v)[4]) = v
  BY U32Read
<1>3. ReadU32(r) = IF long THEN [r EXCEPT !.offset = @ + 4, !.fields = Append(@, value)]
                           ELSE Failed(r)
  BY <1>1 DEF ReadU32
<1>4. CASE long
  <2>1. r.offset = k /\ r.fields = F
    BY <1>4 DEF Reads
  <2>2. \A j \in 1 .. 4 : r.bytes[k + j] = U32(v)[j]
    <3>1. \A j \in 1 .. 4 : k + j \in 1 .. Len(r.bytes) /\ m[k + j] = U32(v)[j]
      <4>1. \A j \in 1 .. 4 : m[k + j] = U32(v)[j]
        BY <1>2 DEF At
      <4>2. \A j \in 1 .. 4 : k + j \in 1 .. Len(r.bytes)
        BY <1>1, <1>4, <2>1
      <4> QED
        BY <4>1, <4>2
    <3> QED
      BY <1>1, <3>1 DEF Reads, Prefix
  <2>3. value = v
    BY <1>2, <2>1, <2>2
  <2>4. v \in Field
    BY DEF Field
  <2>5. Append(F, v) \in Seq(Field)
    BY <1>1, <2>1, <2>4, AppendProperties
  <2>6. ReadU32(r) = [bytes |-> r.bytes, offset |-> k + 4, ok |-> r.ok, fields |-> Append(F, v)]
    <3> HIDE DEF value
    <3> QED
      BY <1>1, <1>3, <1>4, <2>1, <2>3 DEF ReaderSet
  <2> QED
    BY <1>1, <1>4, <2>1, <2>5, <2>6 DEF Reads, ReaderSet
<1>5. CASE ~long
  <2>1. ReadU32(r) = [bytes |-> r.bytes, offset |-> r.offset, ok |-> FALSE, fields |-> r.fields]
    BY <1>1, <1>3, <1>5 DEF ReaderSet, Failed
  <2>2. r.bytes # m
    <3>1. SUFFICES ASSUME r.bytes = m PROVE FALSE
      OBVIOUS
    <3>2. r.ok /\ r.offset = k
      BY <3>1 DEF Reads
    <3> QED
      BY <1>1, <1>2, <1>5, <3>1, <3>2 DEF At
  <2> QED
    BY <1>1, <2>1, <2>2 DEF Reads, ReaderSet
<1> QED
  BY <1>4, <1>5

\* readString reads the string written where the reader is, unless it was cut.
LEMMA ReadStringReads ==
  ASSUME NEW m \in Seq(Byte), NEW k \in Nat, NEW F \in Seq(Field), NEW r, Reads(r, m, k, F),
         NEW s, IsString(s), At(m, k, Str(s))
  PROVE  /\ Reads(ReadString(r), m, k + Len(Str(s)), Append(F, s))
         /\ ReadString(r).bytes = r.bytes
         /\ ReadString(r).ok => r.ok
<1> DEFINE l == ReadU32(r)
           n == Len(s)
<1>1. /\ s \in Seq(Byte) /\ n \in Nat /\ n < Limit /\ Str(s) = U32(n) \o s
      /\ Limit \in Nat
  BY LenProperties, LimitType DEF IsString, Str
<1>2. U32(n) \in Seq(Byte) /\ Len(U32(n)) = 4
  BY <1>1, U32Read
<1>3. Len(Str(s)) = 4 + n
  <2>1. Len(U32(n) \o s) = Len(U32(n)) + Len(s)
    BY <1>1, <1>2, ConcatProperties
  <2> QED
    BY <1>1, <1>2, <2>1
<1>4. At(m, k, U32(n)) /\ At(m, k + 4, s)
  BY <1>1, <1>2, AtParts
<1>5. Reads(l, m, k + 4, Append(F, n)) /\ l.bytes = r.bytes /\ (l.ok => r.ok)
  BY <1>1, <1>4, ReadU32Reads
<1>6. /\ r \in ReaderSet /\ l \in ReaderSet /\ l.bytes \in Seq(Byte) /\ l.offset \in Nat
      /\ l.ok \in BOOLEAN /\ Len(l.bytes) \in Nat /\ Len(m) \in Nat
      /\ r.fields \in Seq(Field) /\ r.ok \in BOOLEAN /\ r.offset \in Nat /\ r.bytes \in Seq(Byte)
  BY <1>5, LenProperties DEF Reads, ReaderSet
<1> HIDE DEF l
<1>7. ReadString(r) = IF ~l.ok \/ l.offset + LastField(l) > Len(r.bytes)
        THEN Failed(r)
        ELSE [l EXCEPT !.offset = @ + LastField(l),
                       !.fields = Append(r.fields, SubSeq(r.bytes, l.offset + 1,
                                                          l.offset + LastField(l)))]
  BY DEF ReadString, l
<1>8. l.ok => LastField(l) = n /\ l.offset = k + 4 /\ r.fields = F
  <2>1. SUFFICES ASSUME l.ok PROVE LastField(l) = n /\ l.offset = k + 4 /\ r.fields = F
    OBVIOUS
  <2>2. l.fields = Append(F, n) /\ l.offset = k + 4
    BY <1>5, <2>1 DEF Reads
  <2>3. Append(F, n)[Len(Append(F, n))] = n
    BY AppendProperties
  <2> QED
    BY <1>5, <2>1, <2>2, <2>3 DEF LastField, Reads
<1>9. CASE l.ok /\ k + 4 + n <= Len(r.bytes)
  <2> DEFINE b == SubSeq(r.bytes, k + 4 + 1, k + 4 + n)
  <2>1. b = s
    <3>1. /\ Len(b) = n
          /\ \A i \in 1 .. n : b[i] = r.bytes[k + 4 + i]
          /\ b \in Seq(Byte)
      <4>1. \A i \in k + 4 + 1 .. k + 4 + n : r.bytes[i] \in Byte
        BY <1>1, <1>5, <1>6, <1>9, ElementOfSeq
      <4> QED
        BY <1>1, <1>5, <1>6, <1>9
    <3>2. \A i \in 1 .. n : r.bytes[k + 4 + i] = s[i]
      <4>1. \A i \in 1 .. n : k + 4 + i \in 1 .. Len(r.bytes) /\ m[k + 4 + i] = s[i]
        <5>1. \A i \in 1 .. n : m[k + 4 + i] = s[i]
          BY <1>4 DEF At
        <5>2. Len(r.bytes) \in Nat
          BY <1>6, LenProperties
        <5>3. \A i \in 1 .. n : k + 4 + i \in 1 .. Len(r.bytes)
          BY <1>1, <1>9, <5>2
        <5> QED
          BY <5>1, <5>3
      <4> QED
        BY <1>5, <4>1 DEF Reads, Prefix
    <3> QED
      BY <1>1, <3>1, <3>2, SeqEqual
  <2>2. s \in Field
    BY <1>1 DEF Field
  <2>3. Append(F, s) \in Seq(Field)
    BY <2>2, AppendProperties
  <2>4. ReadString(r) = [bytes |-> r.bytes, offset |-> k + 4 + n, ok |-> TRUE,
                         fields |-> Append(F, s)]
    <3> HIDE DEF b
    <3>1. ReadString(r) = [l EXCEPT !.offset = k + 4 + n, !.fields = Append(F, b)]
      <4>1. l.ok /\ LastField(l) = n /\ l.offset = k + 4 /\ r.fields = F
        BY <1>8, <1>9
      <4>2. l.offset + n <= Len(r.bytes) /\ l.offset + n = k + 4 + n
        BY <1>1, <1>9, <4>1
      <4>3. ~(l.offset + n > Len(r.bytes))
        BY <1>1, <1>5, <1>6, <4>2
      <4>4. ReadString(r) = [l EXCEPT !.offset = @ + n,
                                     !.fields = Append(F, SubSeq(r.bytes, l.offset + 1,
                                                                 l.offset + n))]
        BY <1>7, <4>1, <4>3
      <4> QED
        BY <1>6, <4>1, <4>2, <4>4 DEF b, ReaderSet
    <3> QED
      BY <1>5, <1>6, <1>9, <2>1, <3>1 DEF ReaderSet
  <2> QED
    BY <1>1, <1>3, <1>5, <1>6, <1>8, <1>9, <2>3, <2>4 DEF Reads, ReaderSet
<1>10. CASE ~(l.ok /\ k + 4 + n <= Len(r.bytes))
  <2>1. ReadString(r) = [bytes |-> r.bytes, offset |-> r.offset, ok |-> FALSE,
                         fields |-> r.fields]
    <3>1. ~l.ok \/ l.offset + LastField(l) > Len(r.bytes)
      <4>1. Len(r.bytes) \in Nat
        BY <1>6, LenProperties
      <4>2. ~(k + 4 + n <= Len(r.bytes)) => k + 4 + n > Len(r.bytes)
        BY <1>1, <4>1
      <4> QED
        BY <1>8, <1>10, <4>2
    <3>2. ReadString(r) = Failed(r)
      BY <1>7, <3>1
    <3> QED
      BY <1>6, <3>2 DEF ReaderSet, Failed
  <2>2. r.bytes # m
    BY <1>1, <1>4, <1>5, <1>6, <1>10 DEF At, Reads
  <2>3. Prefix(r.bytes, m)
    BY DEF Reads
  <2> QED
    BY <1>6, <2>1, <2>2, <2>3 DEF Reads, ReaderSet
<1> QED
  BY <1>9, <1>10

\* readU32 leaves a reader of the same bytes.
LEMMA ReadU32Type ==
  ASSUME NEW r \in ReaderSet
  PROVE  /\ ReadU32(r) \in ReaderSet /\ ReadU32(r).bytes = r.bytes
         /\ ReadU32(r).ok => LastField(ReadU32(r)) \in Nat
<1> DEFINE byte(i) == r.bytes[r.offset + i]
           value == Shift(Shift(Shift(byte(1), byte(2)), byte(3)), byte(4))
           long == r.ok /\ r.offset + 4 <= Len(r.bytes)
<1>1. /\ r.bytes \in Seq(Byte) /\ r.offset \in Nat /\ r.ok \in BOOLEAN /\ r.fields \in Seq(Field)
      /\ Len(r.bytes) \in Nat
  BY LenProperties DEF ReaderSet
<1>2. ReadU32(r) = IF long THEN [r EXCEPT !.offset = @ + 4, !.fields = Append(@, value)]
                           ELSE Failed(r)
  BY <1>1 DEF ReadU32
<1>3. CASE long
  <2>1. \A i \in 1 .. 4 : byte(i) \in Nat
    <3>1. \A i \in 1 .. 4 : r.offset + i \in 1 .. Len(r.bytes)
      BY <1>1, <1>3
    <3>2. Byte \subseteq Nat
      BY BaseType DEF Byte
    <3> QED
      BY <1>1, <3>1, <3>2, ElementOfSeq
  <2>2. value \in Nat
    <3> HIDE DEF byte
    <3>1. \A a, b \in Nat : Shift(a, b) \in Nat
      BY BaseType DEF Shift
    <3>2. Shift(byte(1), byte(2)) \in Nat
      BY <2>1, <3>1
    <3>3. Shift(Shift(byte(1), byte(2)), byte(3)) \in Nat
      BY <2>1, <3>1, <3>2
    <3> QED
      BY <2>1, <3>1, <3>3
  <2>3. Append(r.fields, value) \in Seq(Field) /\ Append(r.fields, value)[Len(Append(r.fields, value))] = value
    <3> HIDE DEF value
    <3>1. value \in Field
      BY <2>2 DEF Field
    <3> QED
      BY <1>1, <3>1, AppendProperties
  <2>4. ReadU32(r) = [bytes |-> r.bytes, offset |-> r.offset + 4, ok |-> r.ok,
                      fields |-> Append(r.fields, value)]
    <3> HIDE DEF value
    <3> QED
      BY <1>1, <1>2, <1>3 DEF ReaderSet
  <2> HIDE DEF value
  <2> QED
    BY <1>1, <2>2, <2>3, <2>4 DEF ReaderSet, LastField
<1>4. CASE ~long
  BY <1>1, <1>2, <1>4 DEF ReaderSet, Failed
<1> QED
  BY <1>3, <1>4

\* readString leaves a reader of the same bytes.
LEMMA ReadStringType ==
  ASSUME NEW r \in ReaderSet
  PROVE  ReadString(r) \in ReaderSet /\ ReadString(r).bytes = r.bytes
<1> DEFINE l == ReadU32(r)
           n == LastField(l)
           s == SubSeq(r.bytes, l.offset + 1, l.offset + n)
           long == l.ok /\ l.offset + n <= Len(r.bytes)
<1>1. l \in ReaderSet /\ l.bytes = r.bytes /\ (l.ok => n \in Nat)
  BY ReadU32Type
<1>2. ReadString(r) = IF long THEN [l EXCEPT !.offset = @ + n, !.fields = Append(r.fields, s)]
                              ELSE Failed(r)
  <2>1. l.ok \in BOOLEAN /\ (l.ok => l.offset + n \in Nat) /\ Len(r.bytes) \in Nat
    BY <1>1, LenProperties DEF ReaderSet
  <2> QED
    BY <2>1 DEF ReadString
<1> HIDE DEF l, n
<1>3. CASE long
  <2>1. \A i \in l.offset + 1 .. l.offset + n : r.bytes[i] \in Byte
    <3>1. l.offset \in Nat /\ n \in Nat /\ r.bytes \in Seq(Byte) /\ Len(r.bytes) \in Nat
      BY <1>1, <1>3, LenProperties DEF ReaderSet
    <3>2. \A i \in l.offset + 1 .. l.offset + n : i \in 1 .. Len(r.bytes)
      BY <1>3, <3>1
    <3> QED
      BY <3>1, <3>2, ElementOfSeq
  <2>2. s \in Seq(Byte)
    BY <1>1, <1>3, <2>1, SubSeqProperties DEF ReaderSet
  <2>3. Append(r.fields, s) \in Seq(Field)
    <3> HIDE DEF s
    <3>1. s \in Field /\ r.fields \in Seq(Field)
      BY <2>2 DEF Field, ReaderSet
    <3> QED
      BY <3>1, AppendProperties
  <2>4. ReadString(r) = [bytes |-> r.bytes, offset |-> l.offset + n, ok |-> l.ok,
                         fields |-> Append(r.fields, s)]
    <3> HIDE DEF s
    <3> QED
      BY <1>1, <1>2, <1>3 DEF ReaderSet
  <2> HIDE DEF s
  <2> QED
    BY <1>1, <1>3, <2>3, <2>4 DEF ReaderSet
<1>4. CASE ~long
  BY <1>2, <1>4 DEF ReaderSet, Failed
<1> QED
  BY <1>3, <1>4

\* One turn of a loop that reads leaves a reader.
LEMMA ReadEntryType ==
  ASSUME NEW r \in ReaderSet, NEW kind \in {"pair", "string"}
  PROVE  ReadEntry(r, kind) \in ReaderSet
BY ReadStringType, ReadU32Type DEF ReadEntry
-----------------------------------------------------------------------------
(* Lists.                                                                  *)

\* The loop that joins the parts.
JoinedUpTo(parts) ==
  CHOOSE f : f = [i \in 0 .. Len(parts) |-> IF i = 0 THEN <<>> ELSE f[i - 1] \o parts[i]]

\* Joined is what a loop that appends the parts in turn writes.
LEMMA JoinedParts ==
  ASSUME NEW parts \in Seq(Seq(Byte)), NEW n, n = Len(parts)
  PROVE  \E f \in [0 .. n -> Seq(Byte)] :
           /\ f[0] = <<>> /\ \A i \in 1 .. n : f[i] = f[i - 1] \o parts[i]
           /\ Joined(parts) = f[n]
<1>1. n \in Nat /\ \A i \in 1 .. n : parts[i] \in Seq(Byte)
  BY LenProperties, ElementOfSeq
<1> DEFINE D == Seq(Byte)
           step == [p \in (1 .. n) \X D |-> p[2] \o parts[p[1]]]
<1>2. ASSUME NEW i \in 1 .. n, NEW y \in D
      PROVE  step[<<i, y>>] = y \o parts[i] /\ step[<<i, y>>] \in D
  BY <1>1, ConcatProperties
<1>3. <<>> \in D
  BY EmptySeq
<1>4. step \in [(1 .. n) \X D -> D]
  <2>1. \A p \in (1 .. n) \X D : p[2] \o parts[p[1]] \in D
    <3> SUFFICES ASSUME NEW p \in (1 .. n) \X D PROVE p[2] \o parts[p[1]] \in D
      OBVIOUS
    <3>1. p[1] \in 1 .. n /\ p[2] \in Seq(Byte)
      OBVIOUS
    <3>2. parts[p[1]] \in Seq(Byte)
      BY <1>1, <3>1
    <3> QED
      BY <3>1, <3>2, ConcatProperties
  <2> QED
    BY <2>1
<1> HIDE DEF D, step
<1>5. PICK f \in [0 .. n -> D] : Turns(f, n, <<>>, step)
  BY <1>1, <1>3, <1>4, Iteration
<1>6. \A i \in 1 .. n : f[i - 1] \in D
  <2>1. \A i \in 1 .. n : i - 1 \in 0 .. n
    BY <1>1
  <2> QED
    BY <2>1
<1>7. ASSUME NEW i \in 1 .. n PROVE f[i] = f[i - 1] \o parts[i]
  BY <1>2, <1>5, <1>6 DEF Turns
<1>8. f = [i \in 0 .. n |-> IF i = 0 THEN <<>> ELSE f[i - 1] \o parts[i]]
  <2>1. \A i \in 0 .. n : i # 0 => i \in 1 .. n
    BY <1>1
  <2> QED
    BY <1>5, <1>7, <2>1 DEF Turns
<1> DEFINE g == JoinedUpTo(parts)
<1>9. g = [i \in 0 .. n |-> IF i = 0 THEN <<>> ELSE g[i - 1] \o parts[i]]
  BY <1>8 DEF JoinedUpTo
<1>10. Joined(parts) = g[n]
  BY DEF Joined, JoinedUpTo
<1> HIDE DEF g
<1>11. \A i \in 0 .. n : g[i] = IF i = 0 THEN <<>> ELSE g[i - 1] \o parts[i]
  BY <1>9
<1> DEFINE S == {i \in Nat : i <= n => g[i] = f[i]}
<1>12. 0 \in S
  BY <1>1, <1>5, <1>11 DEF Turns
<1>13. ASSUME NEW i \in Nat, i \in S PROVE i + 1 \in S
  <2> SUFFICES ASSUME i + 1 <= n PROVE g[i + 1] = f[i + 1]
    OBVIOUS
  <2> DEFINE j == i + 1
  <2>1. g[i] = f[i] /\ j \in 0 .. n /\ j \in 1 .. n /\ j - 1 = i /\ j # 0
    BY <1>1, <1>13
  <2> HIDE DEF j
  <2>2. f[j] = f[j - 1] \o parts[j]
    BY <1>7, <2>1
  <2>3. g[j] = g[j - 1] \o parts[j]
    BY <1>11, <2>1
  <2> QED
    BY <2>1, <2>2, <2>3 DEF j
<1> HIDE DEF S
<1>14. g[n] = f[n]
  <2>1. n \in S
    BY <1>1, <1>12, <1>13, SetInduction
  <2> QED
    BY <1>1, <2>1 DEF S
<1> QED
  BY <1>5, <1>7, <1>10, <1>14 DEF D, Turns

\* Where a loop wrote a part, the message has it.
LEMMA JoinedAt ==
  ASSUME NEW m \in Seq(Byte), NEW k \in Nat, NEW n \in Nat, NEW parts,
         \A i \in 1 .. n : parts[i] \in Seq(Byte),
         NEW f \in [0 .. n -> Seq(Byte)],
         \A i \in 1 .. n : f[i] = f[i - 1] \o parts[i],
         At(m, k, f[n])
  PROVE  \A i \in 1 .. n : At(m, k + Len(f[i - 1]), parts[i])
<1> DEFINE S == {j \in Nat : j <= n => At(m, k, f[n - j])}
<1>1. 0 \in S
  OBVIOUS
<1>2. ASSUME NEW i \in 1 .. n, At(m, k, f[i])
      PROVE  At(m, k, f[i - 1]) /\ At(m, k + Len(f[i - 1]), parts[i])
  <2>0. i - 1 \in 0 .. n /\ i - 1 \in Nat
    OBVIOUS
  <2>1. f[i - 1] \in Seq(Byte) /\ parts[i] \in Seq(Byte) /\ f[i] = f[i - 1] \o parts[i]
    BY <2>0
  <2> QED
    BY <1>2, <2>1, AtParts
<1>3. ASSUME NEW j \in Nat, j \in S PROVE j + 1 \in S
  <2> SUFFICES ASSUME j + 1 <= n PROVE At(m, k, f[n - (j + 1)])
    OBVIOUS
  <2>1. n - j \in 1 .. n /\ n - (j + 1) = (n - j) - 1
    OBVIOUS
  <2> QED
    BY <1>2, <1>3, <2>1
<1> HIDE DEF S
<1>4. \A j \in Nat : j \in S
  BY <1>1, <1>3, SetInduction
<1>5. ASSUME NEW i \in 1 .. n PROVE At(m, k, f[i])
  <2>1. n - i \in Nat /\ n - i <= n /\ n - (n - i) = i
    OBVIOUS
  <2> QED
    BY <1>4, <2>1 DEF S
<1> QED
  BY <1>2, <1>5

\* The loop of readList.
Loop(r, kind) ==
  CHOOSE f : f = [i \in 0 .. LastField(r) |-> IF i = 0 THEN r ELSE ReadEntry(f[i - 1], kind)]

\* readList is a loop of as many turns as the number read last.
LEMMA ListTurns ==
  ASSUME NEW r \in ReaderSet, r.ok, LastField(r) \in Nat, NEW kind \in {"pair", "string"}
  PROVE  \E f \in [0 .. LastField(r) -> ReaderSet] :
           /\ f[0] = r /\ \A i \in 1 .. LastField(r) : f[i] = ReadEntry(f[i - 1], kind)
           /\ ReadList(r, kind) = f[LastField(r)]
<1> DEFINE n == LastField(r)
<1>0. n \in Nat
  OBVIOUS
<1> DEFINE step == [p \in (1 .. n) \X ReaderSet |-> ReadEntry(p[2], kind)]
<1>1. ASSUME NEW i \in 1 .. n, NEW y \in ReaderSet
      PROVE  step[<<i, y>>] = ReadEntry(y, kind)
  OBVIOUS
<1>2. step \in [(1 .. n) \X ReaderSet -> ReaderSet]
  BY ReadEntryType
<1> HIDE DEF step, n
<1>3. PICK f \in [0 .. n -> ReaderSet] : Turns(f, n, r, step)
  BY <1>0, <1>2, Iteration
<1>4. \A i \in 1 .. n : i - 1 \in 0 .. n /\ f[i - 1] \in ReaderSet
  BY <1>0
<1>5. f[0] = r /\ \A i \in 1 .. n : f[i] = ReadEntry(f[i - 1], kind)
  BY <1>0, <1>1, <1>3, <1>4 DEF Turns
<1>6. f = [i \in 0 .. n |-> IF i = 0 THEN r ELSE ReadEntry(f[i - 1], kind)]
  BY <1>0, <1>5
<1> DEFINE g == Loop(r, kind)
<1>7. g = [i \in 0 .. n |-> IF i = 0 THEN r ELSE ReadEntry(g[i - 1], kind)]
  BY <1>6 DEF Loop, n
<1>8. ReadList(r, kind) = g[n]
  BY DEF ReadList, Loop, n
<1> HIDE DEF g
<1>9. \A i \in 0 .. n : g[i] = IF i = 0 THEN r ELSE ReadEntry(g[i - 1], kind)
  BY <1>7
<1> DEFINE S == {i \in Nat : i <= n => g[i] = f[i]}
<1>10. 0 \in S
  BY <1>0, <1>5, <1>9
<1>11. ASSUME NEW i \in Nat, i \in S PROVE i + 1 \in S
  BY <1>0, <1>5, <1>9, <1>11
<1> HIDE DEF S
<1>12. g[n] = f[n]
  <2>1. n \in S
    BY <1>0, <1>10, <1>11, SetInduction
  <2> QED
    BY <2>1 DEF S
<1> QED
  BY <1>5, <1>8, <1>12 DEF n

\* The fields G are the fields F and the first n pairs, or strings, of a list.
HasPairs(G, F, names, numbers, n) ==
  /\ Len(G) = Len(F) + 2 * n /\ \A j \in 1 .. Len(F) : G[j] = F[j]
  /\ \A i \in 1 .. n : G[Len(F) + 2 * i - 1] = names[i] /\ G[Len(F) + 2 * i] = numbers[i]

HasStrings(G, F, names, n) ==
  /\ Len(G) = Len(F) + n /\ \A j \in 1 .. Len(F) : G[j] = F[j]
  /\ \A i \in 1 .. n : G[Len(F) + i] = names[i]

\* The parts are the bytes of n pairs, or strings.
WritePairs(parts, names, numbers, n) ==
  /\ parts \in Seq(Seq(Byte)) /\ Len(parts) = n
  /\ \A i \in 1 .. n : /\ IsString(names[i]) /\ numbers[i] \in Nat /\ numbers[i] < Limit
                       /\ parts[i] = Str(names[i]) \o U32(numbers[i])

WriteStrings(parts, names, n) ==
  /\ parts \in Seq(Seq(Byte)) /\ Len(parts) = n
  /\ \A i \in 1 .. n : IsString(names[i]) /\ parts[i] = Str(names[i])

\* The fields of a list of pairs, with one pair more.
LEMMA PairAppended ==
  ASSUME NEW G \in Seq(Field), NEW F \in Seq(Field), NEW names, NEW numbers, NEW n \in Nat,
         HasPairs(G, F, names, numbers, n),
         NEW H, H = Append(Append(G, names[n + 1]), numbers[n + 1])
  PROVE  HasPairs(H, F, names, numbers, n + 1)
<1> DEFINE c == Len(F)
<1>1. c \in Nat /\ Len(G) = c + 2 * n
  BY LenProperties DEF HasPairs
<1>2. /\ Len(H) = c + 2 * n + 2
      /\ \A j \in 1 .. c + 2 * n : H[j] = G[j]
      /\ H[c + 2 * n + 1] = names[n + 1] /\ H[c + 2 * n + 2] = numbers[n + 1]
  <2> DEFINE I == Append(G, names[n + 1])
  <2>1. /\ Len(I) = c + 2 * n + 1
        /\ \A j \in 1 .. c + 2 * n : I[j] = G[j]
        /\ I[c + 2 * n + 1] = names[n + 1]
    BY <1>1, AppendProperties
  <2>2. I \in Seq(Field \union {names[n + 1]})
    BY AppendProperties
  <2> HIDE DEF I
  <2>3. H = Append(I, numbers[n + 1])
    BY DEF I
  <2>4. /\ Len(H) = Len(I) + 1
        /\ \A j \in 1 .. Len(I) : H[j] = I[j]
        /\ H[Len(I) + 1] = numbers[n + 1]
    BY <2>2, <2>3, AppendProperties
  <2> QED
    BY <1>1, <2>1, <2>4
<1>3. \A j \in 1 .. c : H[j] = F[j]
  BY <1>1, <1>2 DEF HasPairs
<1>4. ASSUME NEW i \in 1 .. n + 1
      PROVE  H[c + 2 * i - 1] = names[i] /\ H[c + 2 * i] = numbers[i]
  <2>1. CASE i = n + 1
    <3>1. c + 2 * i - 1 = c + 2 * n + 1 /\ c + 2 * i = c + 2 * n + 2
      BY <1>1, <2>1
    <3> QED
      BY <1>2, <2>1, <3>1
  <2>2. CASE i \in 1 .. n
    <3>1. c + 2 * i - 1 \in 1 .. c + 2 * n /\ c + 2 * i \in 1 .. c + 2 * n
      BY <1>1, <2>2
    <3> QED
      BY <1>2, <2>2, <3>1 DEF HasPairs
  <2>3. i = n + 1 \/ i \in 1 .. n
    OBVIOUS
  <2> HIDE DEF c
  <2> QED
    BY <2>1, <2>2, <2>3
<1>5. Len(H) = c + 2 * (n + 1)
  BY <1>1, <1>2
<1> QED
  BY <1>3, <1>4, <1>5 DEF HasPairs

\* The fields of a list of strings, with one more.
LEMMA StringAppended ==
  ASSUME NEW G \in Seq(Field), NEW F \in Seq(Field), NEW names, NEW n \in Nat,
         HasStrings(G, F, names, n), NEW H, H = Append(G, names[n + 1])
  PROVE  HasStrings(H, F, names, n + 1)
<1> DEFINE c == Len(F)
<1>1. c \in Nat /\ Len(G) = c + n
  BY LenProperties DEF HasStrings
<1>2. /\ Len(H) = c + n + 1
      /\ \A j \in 1 .. c + n : H[j] = G[j]
      /\ H[c + n + 1] = names[n + 1]
  BY <1>1, AppendProperties
<1>3. \A j \in 1 .. c : H[j] = F[j]
  BY <1>1, <1>2 DEF HasStrings
<1>4. ASSUME NEW i \in 1 .. n + 1
      PROVE  H[c + i] = names[i]
  <2>1. CASE i = n + 1
    BY <1>1, <1>2, <2>1
  <2>2. CASE i \in 1 .. n
    <3>1. c + i \in 1 .. c + n
      BY <1>1, <2>2
    <3> QED
      BY <1>2, <2>2, <3>1 DEF HasStrings
  <2>3. i = n + 1 \/ i \in 1 .. n
    OBVIOUS
  <2> HIDE DEF c
  <2> QED
    BY <2>1, <2>2, <2>3
<1>5. Len(H) = c + (n + 1)
  BY <1>1, <1>2
<1> QED
  BY <1>3, <1>4, <1>5 DEF HasStrings

\* What is written of a string, and its length.
LEMMA StrType ==
  ASSUME NEW s, IsString(s)
  PROVE  /\ s \in Seq(Byte) /\ Len(s) \in Nat /\ Len(s) < Limit
         /\ U32(Len(s)) \in Seq(Byte) /\ Len(U32(Len(s))) = 4
         /\ Str(s) = U32(Len(s)) \o s
         /\ Str(s) \in Seq(Byte) /\ Len(Str(s)) = 4 + Len(s)
<1>1. s \in Seq(Byte) /\ Len(s) \in Nat /\ Len(s) < Limit
  BY LenProperties DEF IsString
<1>2. ~(Len(s) >= Limit)
  BY <1>1, LimitType
<1>3. Str(s) = U32(Len(s)) \o s
  BY <1>2 DEF Str
<1>4. U32(Len(s)) \in Seq(Byte) /\ Len(U32(Len(s))) = 4
  BY <1>1, U32Read
<1>5. U32(Len(s)) \o s \in Seq(Byte) /\ Len(U32(Len(s)) \o s) = Len(U32(Len(s))) + Len(s)
  BY <1>1, <1>4, ConcatProperties
<1> QED
  BY <1>1, <1>3, <1>4, <1>5

\* One entry of a list is read as it was written.
LEMMA ReadPairReads ==
  ASSUME NEW m \in Seq(Byte), NEW k \in Nat, NEW F \in Seq(Field), NEW r, Reads(r, m, k, F),
         NEW s, IsString(s), NEW v \in Nat, v < Limit, At(m, k, Str(s) \o U32(v))
  PROVE  /\ Reads(ReadEntry(r, "pair"), m, k + Len(Str(s) \o U32(v)), Append(Append(F, s), v))
         /\ ReadEntry(r, "pair").bytes = r.bytes
         /\ ReadEntry(r, "pair").ok => r.ok
<1> DEFINE q == ReadString(r)
           l == Len(Str(s))
           part == Str(s) \o U32(v)
           R == ReadEntry(r, "pair")
<1>1. Str(s) \in Seq(Byte) /\ l \in Nat
  BY StrType
<1>2. U32(v) \in Seq(Byte) /\ Len(U32(v)) = 4
  BY U32Read
<1>3. At(m, k, Str(s)) /\ At(m, k + l, U32(v))
  BY <1>1, <1>2, AtParts
<1>4. Len(part) = l + 4
  <2>1. Len(Str(s) \o U32(v)) = Len(Str(s)) + Len(U32(v))
    BY <1>1, <1>2, ConcatProperties
  <2> QED
    BY <1>2, <2>1
<1>5. Reads(q, m, k + l, Append(F, s)) /\ q.bytes = r.bytes /\ (q.ok => r.ok)
  BY <1>3, ReadStringReads
<1>6. R = ReadU32(q)
  BY DEF ReadEntry
<1> HIDE DEF q, l, R
<1>7. /\ Reads(R, m, k + l + 4, Append(Append(F, s), v))
      /\ R.bytes = q.bytes /\ (R.ok => q.ok)
  BY <1>1, <1>3, <1>5, <1>6, ReadU32Reads
<1>8. k + l + 4 = k + Len(part)
  BY <1>1, <1>4
<1> QED
  BY <1>5, <1>7, <1>8 DEF R

\* What a loop that writes parts has written, and the loop that reads them back.
LEMMA ReadPairsReads ==
  ASSUME NEW m \in Seq(Byte), NEW k \in Nat, NEW F \in Seq(Field), NEW r, Reads(r, m, k, F),
         NEW n \in Nat, F[Len(F)] = n,
         NEW names, NEW numbers, NEW parts, WritePairs(parts, names, numbers, n),
         At(m, k, Joined(parts))
  PROVE  LET R == ReadList(r, "pair")
         IN  /\ Reads(R, m, k + Len(Joined(parts)), R.fields)
             /\ R.bytes = r.bytes
             /\ R.ok => r.ok /\ HasPairs(R.fields, F, names, numbers, n)
<1> DEFINE R == ReadList(r, "pair")
<1> HIDE DEF R
<1>1. PICK w \in [0 .. n -> Seq(Byte)] :
        /\ w[0] = <<>> /\ \A i \in 1 .. n : w[i] = w[i - 1] \o parts[i]
        /\ Joined(parts) = w[n]
  BY JoinedParts DEF WritePairs
<1>2. \A i \in 1 .. n : parts[i] \in Seq(Byte)
  BY ElementOfSeq DEF WritePairs
<1>3. \A i \in 1 .. n : At(m, k + Len(w[i - 1]), parts[i])
  BY <1>1, <1>2, JoinedAt
<1>4. \A i \in 0 .. n : Len(w[i]) \in Nat
  BY LenProperties
<1>5. r \in ReaderSet /\ Len(F) \in Nat
  BY LenProperties DEF Reads
<1>6. CASE ~r.ok
  <2>1. R = r
    BY <1>6 DEF ReadList, R
  <2> QED
    BY <1>6, <2>1 DEF Reads, R
<1>7. CASE r.ok
  <2>1. r.fields = F /\ LastField(r) = n
    BY <1>7 DEF Reads, LastField
  <2>2. PICK f \in [0 .. n -> ReaderSet] :
          /\ f[0] = r /\ \A i \in 1 .. n : f[i] = ReadEntry(f[i - 1], "pair")
          /\ ReadList(r, "pair") = f[n]
    <3>1. "pair" \in {"pair", "string"} /\ n \in Nat
      BY LenProperties
    <3>2. \E f \in [0 .. LastField(r) -> ReaderSet] :
            /\ f[0] = r /\ \A i \in 1 .. LastField(r) : f[i] = ReadEntry(f[i - 1], "pair")
            /\ ReadList(r, "pair") = f[LastField(r)]
      BY <1>5, <1>7, <2>1, <3>1, ListTurns
    <3> QED
      BY <2>1, <3>2
  <2> DEFINE P(i) == /\ Reads(f[i], m, k + Len(w[i]), f[i].fields)
                     /\ f[i].bytes = r.bytes
                     /\ f[i].ok => HasPairs(f[i].fields, F, names, numbers, i)
             S == {i \in Nat : i <= n => P(i)}
  <2>3. 0 \in S
    <3>1. Len(w[0]) = 0 /\ f[0] = r
      BY <1>1, <2>2
    <3>2. HasPairs(F, F, names, numbers, 0)
      BY <1>5 DEF HasPairs
    <3>3. Reads(f[0], m, k + Len(w[0]), f[0].fields) /\ f[0].bytes = r.bytes
      BY <2>1, <3>1
    <3> QED
      BY <2>1, <3>1, <3>2, <3>3
  <2>4. ASSUME NEW i \in Nat, i \in S PROVE i + 1 \in S
    <3> SUFFICES ASSUME i + 1 <= n PROVE P(i + 1)
      OBVIOUS
    <3> DEFINE j == i + 1
               G == f[i].fields
               a == k + Len(w[i])
    <3>1. P(i) /\ j \in 1 .. n /\ j - 1 = i /\ i \in 0 .. n
      BY <2>4
    <3>2. f[i] \in ReaderSet /\ G \in Seq(Field)
      BY <3>1 DEF ReaderSet
    <3> HIDE DEF j
    <3>3. f[j] = ReadEntry(f[i], "pair") /\ w[j] = w[i] \o parts[j]
      BY <1>1, <2>2, <3>1
    <3>4. a \in Nat /\ At(m, a, parts[j])
      <4>1. Len(w[i]) \in Nat
        BY <1>4, <3>1
      <4>2. At(m, k + Len(w[j - 1]), parts[j])
        BY <1>3, <3>1
      <4> QED
        BY <3>1, <4>1, <4>2
    <3>5. Len(w[j]) = Len(w[i]) + Len(parts[j]) /\ Len(parts[j]) \in Nat
      <4>1. w[i] \in Seq(Byte) /\ parts[j] \in Seq(Byte)
        BY <1>2, <3>1
      <4> QED
        BY <3>3, <4>1, ConcatProperties, LenProperties
    <3>6. k + Len(w[j]) = a + Len(parts[j])
      <4> DEFINE x == Len(w[i])
                 y == Len(parts[j])
      <4>1. x \in Nat /\ y \in Nat /\ Len(w[j]) = x + y
        BY <1>4, <3>1, <3>5
      <4> HIDE DEF x, y
      <4>2. k + (x + y) = (k + x) + y
        BY <4>1
      <4> QED
        BY <4>1, <4>2 DEF x, y
    <3>7. Reads(f[i], m, a, G)
      BY <3>1
    <3> HIDE DEF P, G, a
    <3>8. /\ Reads(f[j], m, a + Len(parts[j]), Append(Append(G, names[j]), numbers[j]))
          /\ f[j].bytes = f[i].bytes /\ (f[j].ok => f[i].ok)
      <4>1. /\ IsString(names[j]) /\ numbers[j] \in Nat /\ numbers[j] < Limit
            /\ parts[j] = Str(names[j]) \o U32(numbers[j])
        BY <3>1 DEF WritePairs
      <4> DEFINE s == names[j]
                 v == numbers[j]
                 part == parts[j]
                 x == f[i]
                 y == f[j]
      <4>2. IsString(s) /\ v \in Nat /\ v < Limit /\ part = Str(s) \o U32(v)
        BY <4>1
      <4>3. Reads(x, m, a, G) /\ At(m, a, part) /\ y = ReadEntry(x, "pair")
        BY <3>3, <3>4, <3>7
      <4> HIDE DEF s, v, part, x, y
      <4>4. /\ Reads(ReadEntry(x, "pair"), m, a + Len(Str(s) \o U32(v)),
                    Append(Append(G, s), v))
            /\ ReadEntry(x, "pair").bytes = x.bytes
            /\ ReadEntry(x, "pair").ok => x.ok
        BY <3>2, <3>4, <4>2, <4>3, ReadPairReads
      <4> QED
        BY <4>2, <4>3, <4>4 DEF s, v, part, x, y
    <3>9. Reads(f[j], m, k + Len(w[j]), f[j].fields) /\ f[j].bytes = r.bytes
      BY <3>1, <3>6, <3>8 DEF Reads, P
    <3>10. ASSUME f[j].ok PROVE HasPairs(f[j].fields, F, names, numbers, j)
      <4>1. f[j].fields = Append(Append(G, names[j]), numbers[j])
        BY <3>8, <3>10 DEF Reads
      <4>2. HasPairs(G, F, names, numbers, i)
        BY <3>1, <3>8, <3>10 DEF P, G
      <4> QED
        BY <3>2, <4>1, <4>2, PairAppended DEF j
    <3> QED
      BY <3>9, <3>10 DEF P, j
  <2> HIDE DEF S
  <2>5. n \in S
    BY <2>3, <2>4, SetInduction
  <2>6. P(n)
    BY <2>5 DEF S
  <2> QED
    BY <1>1, <1>7, <2>2, <2>6 DEF R
<1> QED
  BY <1>6, <1>7 DEF R

\* The same for a list of strings.
LEMMA ReadStringsReads ==
  ASSUME NEW m \in Seq(Byte), NEW k \in Nat, NEW F \in Seq(Field), NEW r, Reads(r, m, k, F),
         NEW n \in Nat, F[Len(F)] = n,
         NEW names, NEW parts, WriteStrings(parts, names, n),
         At(m, k, Joined(parts))
  PROVE  LET R == ReadList(r, "string")
         IN  /\ Reads(R, m, k + Len(Joined(parts)), R.fields)
             /\ R.bytes = r.bytes
             /\ R.ok => r.ok /\ HasStrings(R.fields, F, names, n)
<1> DEFINE R == ReadList(r, "string")
<1> HIDE DEF R
<1>1. PICK w \in [0 .. n -> Seq(Byte)] :
        /\ w[0] = <<>> /\ \A i \in 1 .. n : w[i] = w[i - 1] \o parts[i]
        /\ Joined(parts) = w[n]
  BY JoinedParts DEF WriteStrings
<1>2. \A i \in 1 .. n : parts[i] \in Seq(Byte)
  BY ElementOfSeq DEF WriteStrings
<1>3. \A i \in 1 .. n : At(m, k + Len(w[i - 1]), parts[i])
  BY <1>1, <1>2, JoinedAt
<1>4. \A i \in 0 .. n : Len(w[i]) \in Nat
  BY LenProperties
<1>5. r \in ReaderSet /\ Len(F) \in Nat
  BY LenProperties DEF Reads
<1>6. CASE ~r.ok
  <2>1. R = r
    BY <1>6 DEF ReadList, R
  <2> QED
    BY <1>6, <2>1 DEF Reads, R
<1>7. CASE r.ok
  <2>1. r.fields = F /\ LastField(r) = n
    BY <1>7 DEF Reads, LastField
  <2>2. PICK f \in [0 .. n -> ReaderSet] :
          /\ f[0] = r /\ \A i \in 1 .. n : f[i] = ReadEntry(f[i - 1], "string")
          /\ ReadList(r, "string") = f[n]
    <3>1. "string" \in {"pair", "string"} /\ n \in Nat
      BY LenProperties
    <3>2. \E f \in [0 .. LastField(r) -> ReaderSet] :
            /\ f[0] = r /\ \A i \in 1 .. LastField(r) : f[i] = ReadEntry(f[i - 1], "string")
            /\ ReadList(r, "string") = f[LastField(r)]
      BY <1>5, <1>7, <2>1, <3>1, ListTurns
    <3> QED
      BY <2>1, <3>2
  <2> DEFINE P(i) == /\ Reads(f[i], m, k + Len(w[i]), f[i].fields)
                     /\ f[i].bytes = r.bytes
                     /\ f[i].ok => HasStrings(f[i].fields, F, names, i)
             S == {i \in Nat : i <= n => P(i)}
  <2>3. 0 \in S
    <3>1. Len(w[0]) = 0 /\ f[0] = r
      BY <1>1, <2>2
    <3>2. HasStrings(F, F, names, 0)
      BY <1>5 DEF HasStrings
    <3>3. Reads(f[0], m, k + Len(w[0]), f[0].fields) /\ f[0].bytes = r.bytes
      BY <2>1, <3>1
    <3> QED
      BY <2>1, <3>1, <3>2, <3>3
  <2>4. ASSUME NEW i \in Nat, i \in S PROVE i + 1 \in S
    <3> SUFFICES ASSUME i + 1 <= n PROVE P(i + 1)
      OBVIOUS
    <3> DEFINE j == i + 1
               G == f[i].fields
               a == k + Len(w[i])
    <3>1. P(i) /\ j \in 1 .. n /\ j - 1 = i /\ i \in 0 .. n
      BY <2>4
    <3>2. f[i] \in ReaderSet /\ G \in Seq(Field)
      BY <3>1 DEF ReaderSet
    <3> HIDE DEF j
    <3>3. f[j] = ReadEntry(f[i], "string") /\ w[j] = w[i] \o parts[j]
      BY <1>1, <2>2, <3>1
    <3>4. a \in Nat /\ At(m, a, parts[j])
      <4>1. Len(w[i]) \in Nat
        BY <1>4, <3>1
      <4>2. At(m, k + Len(w[j - 1]), parts[j])
        BY <1>3, <3>1
      <4> QED
        BY <3>1, <4>1, <4>2
    <3>5. Len(w[j]) = Len(w[i]) + Len(parts[j]) /\ Len(parts[j]) \in Nat
      <4>1. w[i] \in Seq(Byte) /\ parts[j] \in Seq(Byte)
        BY <1>2, <3>1
      <4> QED
        BY <3>3, <4>1, ConcatProperties, LenProperties
    <3>6. k + Len(w[j]) = a + Len(parts[j])
      <4> DEFINE x == Len(w[i])
                 y == Len(parts[j])
      <4>1. x \in Nat /\ y \in Nat /\ Len(w[j]) = x + y
        BY <1>4, <3>1, <3>5
      <4> HIDE DEF x, y
      <4>2. k + (x + y) = (k + x) + y
        BY <4>1
      <4> QED
        BY <4>1, <4>2 DEF x, y
    <3>7. Reads(f[i], m, a, G)
      BY <3>1
    <3> HIDE DEF P, G, a
    <3>8. /\ Reads(f[j], m, a + Len(parts[j]), Append(G, names[j]))
          /\ f[j].bytes = f[i].bytes /\ (f[j].ok => f[i].ok)
      <4>1. IsString(names[j]) /\ parts[j] = Str(names[j])
        BY <3>1 DEF WriteStrings
      <4> DEFINE s == names[j]
                 x == f[i]
      <4>2. IsString(s) /\ parts[j] = Str(s)
        BY <4>1
      <4>3. Reads(x, m, a, G) /\ At(m, a, Str(s)) /\ f[j] = ReadString(x)
        BY <3>3, <3>4, <3>7, <4>2 DEF ReadEntry
      <4> HIDE DEF s, x
      <4>4. /\ Reads(ReadString(x), m, a + Len(Str(s)), Append(G, s))
            /\ ReadString(x).bytes = x.bytes
            /\ ReadString(x).ok => x.ok
        BY <3>2, <3>4, <4>2, <4>3, ReadStringReads
      <4> QED
        BY <4>2, <4>3, <4>4 DEF s, x
    <3>9. Reads(f[j], m, k + Len(w[j]), f[j].fields) /\ f[j].bytes = r.bytes
      BY <3>1, <3>6, <3>8 DEF Reads, P
    <3>10. ASSUME f[j].ok PROVE HasStrings(f[j].fields, F, names, j)
      <4>1. f[j].fields = Append(G, names[j])
        BY <3>8, <3>10 DEF Reads
      <4>2. HasStrings(G, F, names, i)
        BY <3>1, <3>8, <3>10 DEF P, G
      <4> QED
        BY <3>2, <4>1, <4>2, StringAppended DEF j
    <3> QED
      BY <3>9, <3>10 DEF P, j
  <2> HIDE DEF S
  <2>5. n \in S
    BY <2>3, <2>4, SetInduction
  <2>6. P(n)
    BY <2>5 DEF S
  <2> QED
    BY <1>1, <1>7, <2>2, <2>6 DEF R
<1> QED
  BY <1>6, <1>7 DEF R

\* Word counts, bytes and the kinds of messages fit a uint32_t.
LEMMA Numbers ==
  /\ \A v \in 0 .. IntMax : v \in Nat /\ v < Limit
  /\ \A v \in Byte : v \in Nat /\ v < Limit
  /\ INDEX_REQUEST \in Byte /\ INDEX_REPLY \in Byte /\ SEARCH_REQUEST \in Byte
  /\ SEARCH_REPLY \in Byte /\ 0 \in Byte /\ 1 \in Byte
<1>1. Base \in Nat /\ Base > 7 /\ Limit \in Nat /\ Base <= Limit
  BY BaseType, LimitType
<1>2. \A v \in 0 .. IntMax : v \in Nat /\ v < Limit
  <2>1. Limit \div 2 \in Nat /\ Limit \div 2 <= Limit
    BY <1>1
  <2> QED
    BY <1>1, <2>1 DEF IntMax
<1> QED
  BY <1>1, <1>2 DEF Byte, INDEX_REQUEST, INDEX_REPLY, SEARCH_REQUEST, SEARCH_REPLY

\* A new reader has read nothing.
LEMMA ReaderReads ==
  ASSUME NEW m \in Seq(Byte), NEW b \in Seq(Byte), Prefix(b, m)
  PROVE  Reads(Reader(b), m, 0, <<>>) /\ Reader(b).bytes = b
BY EmptySeq, LenProperties DEF Reads, Reader, ReaderSet

\* A reader that is at the end of the message had all of it.
LEMMA Whole ==
  ASSUME NEW m \in Seq(Byte), NEW b \in Seq(Byte), Prefix(b, m), NEW r, NEW F,
         Reads(r, m, Len(m), F), r.bytes = b
  PROVE  r.ok <=> b = m
<1>1. ASSUME r.ok PROVE b = m
  <2>1. Len(m) = Len(b)
    BY <1>1, LenProperties DEF Reads, Prefix
  <2> QED
    BY <2>1, SeqEqual DEF Prefix
<1> QED
  BY <1>1 DEF Reads

\* A payload is a prefix of its message, and the whole message only if it is as long.
LEMMA PayloadType ==
  ASSUME NEW m \in Seq(Byte), NEW b \in Payloads(m)
  PROVE  b \in Seq(Byte) /\ Prefix(b, m)
<1>1. PICK n \in Dropped \intersect 0 .. Len(m) : b = SubSeq(m, 1, Len(m) - n)
  BY DEF Payloads, Arrivals
<1>2. Len(m) \in Nat /\ Len(m) - n \in 0 .. Len(m)
  BY LenProperties
<1>3. /\ b \in Seq(Byte) /\ Len(b) = Len(m) - n
      /\ \A i \in 1 .. Len(m) - n : b[i] = m[i]
  <2>1. \A i \in 1 .. Len(m) - n : m[i] \in Byte
    BY <1>2, ElementOfSeq
  <2> QED
    BY <1>1, <1>2, <2>1, SubSeqProperties
<1> QED
  BY <1>2, <1>3 DEF Prefix

\* Every byte of a message is in it.
LEMMA AtWhole == \A m \in Seq(Byte) : At(m, 0, m)
BY LenProperties DEF At

\* Parts that are bytes, joined, are bytes.
LEMMA JoinedType ==
  ASSUME NEW parts \in Seq(Seq(Byte))
  PROVE  Joined(parts) \in Seq(Byte)
<1> DEFINE n == Len(parts)
<1>1. n \in Nat
  BY LenProperties
<1>2. PICK f \in [0 .. n -> Seq(Byte)] : Joined(parts) = f[n]
  BY JoinedParts
<1> QED
  BY <1>1, <1>2

\* What clients send to be indexed has its types, and fits the fields it is written in.
LEMMA RequestType ==
  ASSUME NEW q \in Requests
  PROVE  /\ q.id \in Byte /\ IsString(q.path) /\ IsString(FullPath(q.id, q.path))
         /\ q.terms \in Seq([term : Word, frequency : 0 .. IntMax])
         /\ Len(q.terms) \in Nat /\ Len(q.terms) < Limit
         /\ DOMAIN q.terms = 1 .. Len(q.terms)
         /\ \A i \in 1 .. Len(q.terms) :
              /\ q.terms[i].term \in Word /\ IsString(q.terms[i].term)
              /\ q.terms[i].frequency \in Nat /\ q.terms[i].frequency < Limit
<1>1. /\ q.id \in Byte /\ IsString(q.path) /\ IsString(FullPath(q.id, q.path))
      /\ q.terms \in Seq([term : Word, frequency : 0 .. IntMax]) /\ Len(q.terms) < Limit
  BY RequestsAssumption
<1>2. Len(q.terms) \in Nat /\ DOMAIN q.terms = 1 .. Len(q.terms)
  BY <1>1, LenProperties
<1>3. \A i \in 1 .. Len(q.terms) : q.terms[i] \in [term : Word, frequency : 0 .. IntMax]
  BY <1>1, ElementOfSeq
<1> QED
  BY <1>1, <1>2, <1>3, WordAssumption, Numbers

\* The two fields of an entry.
LEMMA PairType ==
  ASSUME NEW s, IsString(s), NEW v \in Nat, v < Limit
  PROVE  Str(s) \o U32(v) \in Seq(Byte)
<1>1. Str(s) \in Seq(Byte) /\ U32(v) \in Seq(Byte)
  BY StrType, U32Read
<1> QED
  BY <1>1, ConcatProperties

\* A field is appended after those read.
LEMMA AppendField ==
  ASSUME NEW F \in Seq(Field), NEW x \in Field
  PROVE  /\ Append(F, x) \in Seq(Field) /\ Len(Append(F, x)) = Len(F) + 1
         /\ Append(F, x)[Len(F) + 1] = x
         /\ \A i \in 1 .. Len(F) : Append(F, x)[i] = F[i]
BY AppendProperties

\* What encodeIndexRequest wrote (Protocol.cpp:146-159) runWorker reads back field by field
\* (ServerProcessingEngine.cpp:159-176); a payload that lacks bytes at its end is refused.
THEOREM IndexRequestRead ==
  ASSUME NEW q \in Requests, NEW b \in Payloads(EncodeIndexRequest(q.id, q.path, q.terms))
  PROVE  LET r == DecodeIndexRequest(b)
             n == Len(q.terms)
         IN  /\ r.ok <=> b = EncodeIndexRequest(q.id, q.path, q.terms)
             /\ r.ok => /\ r.fields[2] = q.id /\ r.fields[3] = q.path /\ r.fields[4] = n
                        /\ \A i \in 1 .. n : /\ r.fields[2 * i + 3] = q.terms[i].term
                                             /\ r.fields[2 * i + 4] = q.terms[i].frequency
<1> DEFINE m == EncodeIndexRequest(q.id, q.path, q.terms)
           n == Len(q.terms)
           parts == [i \in DOMAIN q.terms |-> TermFrequency(q.terms[i])]
           names == [i \in 1 .. n |-> q.terms[i].term]
           numbers == [i \in 1 .. n |-> q.terms[i].frequency]
           J == Joined(parts)
           a1 == U32(INDEX_REQUEST)
           a2 == a1 \o U32(q.id)
           a3 == a2 \o Str(q.path)
           a4 == a3 \o U32(n)
<1>1. n \in Nat /\ n < Limit /\ DOMAIN q.terms = 1 .. n
  BY RequestType
<1>2. \A i \in 1 .. n : /\ IsString(names[i]) /\ numbers[i] \in Nat /\ numbers[i] < Limit
                        /\ parts[i] = Str(names[i]) \o U32(numbers[i])
  BY <1>1, RequestType DEF TermFrequency
<1>3. parts \in Seq(Seq(Byte)) /\ WritePairs(parts, names, numbers, n)
  <2>1. DOMAIN parts = 1 .. n /\ parts = [i \in 1 .. n |-> parts[i]]
    BY <1>1
  <2> HIDE DEF parts, names, numbers
  <2>2. \A i \in 1 .. n : parts[i] \in Seq(Byte)
    BY <1>2, PairType
  <2>3. parts \in [1 .. n -> Seq(Byte)]
    BY <2>1, <2>2
  <2>4. parts \in Seq(Seq(Byte)) /\ Len(parts) = n
    BY <1>1, <2>3, LenProperties
  <2> QED
    BY <1>2, <2>4 DEF WritePairs
<1>4. J \in Seq(Byte) /\ Len(J) \in Nat
  BY <1>3, JoinedType, LenProperties
<1>5. m = a4 \o J
  BY DEF EncodeIndexRequest
<1> HIDE DEF parts, J, n
<1>6. /\ a1 \in Seq(Byte) /\ Len(a1) = 4
      /\ U32(q.id) \in Seq(Byte) /\ Len(U32(q.id)) = 4
      /\ U32(n) \in Seq(Byte) /\ Len(U32(n)) = 4
      /\ q.id \in Nat /\ q.id < Limit /\ INDEX_REQUEST \in Nat /\ INDEX_REQUEST < Limit
  BY <1>1, Numbers, RequestType, U32Read
<1>7. Str(q.path) \in Seq(Byte) /\ Len(Str(q.path)) \in Nat /\ IsString(q.path)
  <2>1. IsString(q.path)
    BY RequestType
  <2> QED
    BY <2>1, StrType, LenProperties
<1> DEFINE l == Len(Str(q.path))
<1>8. a2 \in Seq(Byte) /\ Len(a2) = 8
  <2>1. a2 \in Seq(Byte) /\ Len(a2) = Len(a1) + Len(U32(q.id))
    BY <1>6, ConcatProperties
  <2> QED
    BY <1>6, <2>1
<1> HIDE DEF a1
<1>9. a3 \in Seq(Byte) /\ Len(a3) = 8 + l
  <2> HIDE DEF a2
  <2>1. a3 \in Seq(Byte) /\ Len(a3) = Len(a2) + Len(Str(q.path))
    BY <1>7, <1>8, ConcatProperties
  <2> QED
    BY <1>8, <2>1
<1>10. a4 \in Seq(Byte) /\ Len(a4) = 12 + l
  <2> HIDE DEF a3
  <2>1. a4 \in Seq(Byte) /\ Len(a4) = Len(a3) + Len(U32(n))
    BY <1>6, <1>9, ConcatProperties
  <2> QED
    BY <1>6, <1>7, <1>9, <2>1
<1>11. m \in Seq(Byte) /\ Len(m) = 12 + l + Len(J)
  <2> HIDE DEF a4
  <2>1. m \in Seq(Byte) /\ Len(m) = Len(a4) + Len(J)
    BY <1>4, <1>5, <1>10, ConcatProperties
  <2> QED
    BY <1>10, <2>1
<1> HIDE DEF l, m
<1>12. At(m, 0, a4) /\ At(m, 12 + l, J)
  <2> HIDE DEF a4
  <2>1. At(m, 0, a4 \o J)
    BY <1>5, <1>11, AtWhole
  <2>2. At(m, 0, a4) /\ At(m, 0 + Len(a4), J)
    BY <1>4, <1>10, <1>11, <2>1, AtParts
  <2> QED
    BY <1>7, <1>10, <2>2 DEF l
<1>13. At(m, 0, a3) /\ At(m, 8 + l, U32(n))
  <2> HIDE DEF a3
  <2>1. At(m, 0, a3) /\ At(m, 0 + Len(a3), U32(n))
    BY <1>6, <1>9, <1>11, <1>12, AtParts
  <2> QED
    BY <1>7, <1>9, <2>1 DEF l
<1>14. At(m, 0, a2) /\ At(m, 8, Str(q.path))
  <2> HIDE DEF a2
  <2>1. At(m, 0, a2) /\ At(m, 0 + Len(a2), Str(q.path))
    BY <1>7, <1>8, <1>11, <1>13, AtParts
  <2> QED
    BY <1>8, <2>1
<1>15. At(m, 0, a1) /\ At(m, 4, U32(q.id))
  <2>1. At(m, 0, a1) /\ At(m, 0 + Len(a1), U32(q.id))
    BY <1>6, <1>11, <1>14, AtParts
  <2> QED
    BY <1>6, <2>1
<1> DEFINE r0 == Reader(b)
           r1 == ReadU32(r0)
           r2 == ReadU32(r1)
           r3 == ReadString(r2)
           r4 == ReadU32(r3)
           R == ReadList(r4, "pair")
           F1 == Append(<<>>, INDEX_REQUEST)
           F2 == Append(F1, q.id)
           F3 == Append(F2, q.path)
           F4 == Append(F3, n)
<1>16. b \in Seq(Byte) /\ Prefix(b, m)
  BY <1>11, PayloadType DEF m
<1>17. Reads(r0, m, 0, <<>>) /\ r0.bytes = b
  BY <1>11, <1>16, ReaderReads
<1> HIDE DEF r0
<1>18. Reads(r1, m, 4, F1) /\ r1.bytes = b
  <2>1. 0 \in Nat /\ 0 + 4 = 4
    OBVIOUS
  <2>2. m \in Seq(Byte) /\ At(m, 0, U32(INDEX_REQUEST)) /\ INDEX_REQUEST \in Nat /\ INDEX_REQUEST < Limit
    BY <1>6, <1>11, <1>15 DEF a1
  <2>3. Reads(r1, m, 0 + 4, F1) /\ r1.bytes = b
    BY <1>17, <2>1, <2>2, ReadU32Reads
  <2> QED
    BY <2>1, <2>3
<1> HIDE DEF r1, F1
<1>19. Reads(r2, m, 8, F2) /\ r2.bytes = b
  BY <1>6, <1>11, <1>15, <1>18, ReadU32Reads
<1> HIDE DEF r2
<1>20. /\ F1 \in Seq(Field) /\ Len(F1) = 1
       /\ F2 \in Seq(Field) /\ Len(F2) = 2 /\ F2[2] = q.id
  <2>1. INDEX_REQUEST \in Field /\ q.id \in Field /\ <<>> \in Seq(Field) /\ Len(<<>>) = 0
    BY <1>6, EmptySeq DEF Field
  <2>2. F1 \in Seq(Field) /\ Len(F1) = 1
    BY <2>1, AppendProperties DEF F1
  <2> QED
    BY <2>1, <2>2, AppendProperties
<1> HIDE DEF F2
<1>21. Reads(r3, m, 8 + l, F3) /\ r3.bytes = b
  BY <1>7, <1>11, <1>14, <1>19, <1>20, ReadStringReads DEF l
<1> HIDE DEF r3, F3
<1>22. Reads(r4, m, 12 + l, F4) /\ r4.bytes = b
  <2>1. 8 + l \in Nat /\ 8 + l + 4 = 12 + l
    BY <1>7 DEF l
  <2>2. Reads(r4, m, 8 + l + 4, F4) /\ r4.bytes = b
    BY <1>1, <1>11, <1>13, <1>21, <2>1, ReadU32Reads
  <2> QED
    BY <2>1, <2>2
<1>23. /\ F4 \in Seq(Field) /\ Len(F4) = 4
       /\ F4[2] = q.id /\ F4[3] = q.path /\ F4[4] = n
  <2>1. q.path \in Field /\ n \in Field
    BY <1>1, <1>7, StrType DEF Field
  <2>2. /\ F3 \in Seq(Field) /\ Len(F3) = Len(F2) + 1 /\ F3[Len(F2) + 1] = q.path
        /\ \A i \in 1 .. Len(F2) : F3[i] = F2[i]
    <3>1. F2 \in Seq(Field)
      BY <1>20
    <3> QED
      BY <2>1, <3>1, AppendField DEF F3
  <2>3. F3 \in Seq(Field) /\ Len(F3) = 3 /\ F3[3] = q.path /\ F3[2] = q.id
    BY <1>20, <2>2
  <2>4. /\ F4 \in Seq(Field) /\ Len(F4) = Len(F3) + 1 /\ F4[Len(F3) + 1] = n
        /\ \A i \in 1 .. Len(F3) : F4[i] = F3[i]
    <3>1. F3 \in Seq(Field)
      BY <2>2
    <3> QED
      BY <2>1, <3>1, AppendField
  <2> HIDE DEF F4
  <2> QED
    BY <2>3, <2>4
<1> HIDE DEF r4, F4
<1>25. /\ Reads(R, m, Len(m), R.fields) /\ R.bytes = b
       /\ R.ok => HasPairs(R.fields, F4, names, numbers, n)
  <2>1. 12 + l \in Nat /\ 12 + l + Len(J) = Len(m)
    BY <1>7, <1>11 DEF l
  <2>2. F4[Len(F4)] = n
    BY <1>23
  <2> HIDE DEF names, numbers, R
  <2>3. /\ Reads(R, m, 12 + l + Len(J), R.fields) /\ R.bytes = r4.bytes
        /\ R.ok => HasPairs(R.fields, F4, names, numbers, n)
    BY <1>1, <1>2, <1>3, <1>11, <1>12, <1>22, <1>23, <2>1, <2>2, ReadPairsReads DEF J, R
  <2> QED
    BY <1>22, <2>1, <2>3
<1>26. R = DecodeIndexRequest(b)
  BY DEF DecodeIndexRequest, ReadMessageType, r0, r1, r2, r3, r4
<1> HIDE DEF R
<1>27. R.ok <=> b = m
  BY <1>11, <1>16, <1>25, Whole
<1>28. ASSUME R.ok
       PROVE  /\ R.fields[2] = q.id /\ R.fields[3] = q.path /\ R.fields[4] = n
              /\ \A i \in 1 .. n : /\ R.fields[2 * i + 3] = q.terms[i].term
                                   /\ R.fields[2 * i + 4] = q.terms[i].frequency
  <2>1. \A j \in 1 .. 4 : R.fields[j] = F4[j]
    BY <1>23, <1>25, <1>28 DEF HasPairs
  <2>2. ASSUME NEW i \in 1 .. n
        PROVE  /\ R.fields[2 * i + 3] = q.terms[i].term
               /\ R.fields[2 * i + 4] = q.terms[i].frequency
    <3>1. 4 + 2 * i - 1 = 2 * i + 3 /\ 4 + 2 * i = 2 * i + 4
      BY <1>1
    <3>2. R.fields[4 + 2 * i - 1] = names[i] /\ R.fields[4 + 2 * i] = numbers[i]
      BY <1>23, <1>25, <1>28 DEF HasPairs
    <3> QED
      BY <3>1, <3>2
  <2> QED
    BY <1>23, <2>1, <2>2
<1> QED
  BY <1>26, <1>27, <1>28 DEF m, n

\* What clients search for has its types, and fits the fields it is written in.
LEMMA QueryType ==
  ASSUME NEW q \in Query
  PROVE  /\ q \in Seq(Word) /\ Len(q) \in Nat /\ Len(q) < Limit /\ DOMAIN q = 1 .. Len(q)
         /\ \A i \in 1 .. Len(q) : q[i] \in Word /\ IsString(q[i])
<1>1. q \in Seq(Word) /\ Len(q) \in Nat /\ Len(q) < Limit /\ DOMAIN q = 1 .. Len(q)
  BY QueryAssumption, LenProperties
<1>2. \A i \in 1 .. Len(q) : q[i] \in Word
  BY <1>1, ElementOfSeq
<1> QED
  BY <1>1, <1>2, WordAssumption

\* What encodeSearchRequest wrote (Protocol.cpp:172-180) runWorker reads back term by term
\* (ServerProcessingEngine.cpp:187-208); one for no terms, or short of bytes, is refused.
THEOREM SearchRequestRead ==
  ASSUME NEW q \in Query, NEW b \in Payloads(EncodeSearchRequest(q))
  PROVE  LET r == DecodeSearchRequest(b)
         IN  /\ r.ok <=> b = EncodeSearchRequest(q) /\ Len(q) > 0
             /\ r.ok => TermsOf(r) = q
<1> DEFINE m == EncodeSearchRequest(q)
           n == Len(q)
           parts == [i \in DOMAIN q |-> Str(q[i])]
           J == Joined(parts)
           a1 == U32(SEARCH_REQUEST)
           a2 == a1 \o U32(n)
<1>1. n \in Nat /\ n < Limit /\ DOMAIN q = 1 .. n
  BY QueryType
<1>2. parts \in Seq(Seq(Byte)) /\ WriteStrings(parts, q, n)
  <2>1. DOMAIN parts = 1 .. n /\ \A i \in 1 .. n : parts[i] = Str(q[i]) /\ IsString(q[i])
    BY <1>1, QueryType
  <2>2. parts = [i \in 1 .. n |-> parts[i]]
    BY <1>1
  <2> HIDE DEF parts
  <2>3. \A i \in 1 .. n : parts[i] \in Seq(Byte)
    BY <2>1, StrType
  <2>4. parts \in [1 .. n -> Seq(Byte)]
    BY <2>2, <2>3
  <2>5. parts \in Seq(Seq(Byte)) /\ Len(parts) = n
    BY <1>1, <2>4, LenProperties
  <2> QED
    BY <2>1, <2>5 DEF WriteStrings
<1>3. J \in Seq(Byte) /\ Len(J) \in Nat
  BY <1>2, JoinedType, LenProperties
<1>4. m = a2 \o J
  BY DEF EncodeSearchRequest
<1> HIDE DEF parts, J, n
<1>5. /\ a1 \in Seq(Byte) /\ Len(a1) = 4
      /\ U32(n) \in Seq(Byte) /\ Len(U32(n)) = 4
      /\ SEARCH_REQUEST \in Nat /\ SEARCH_REQUEST < Limit
  BY <1>1, Numbers, U32Read
<1>6. a2 \in Seq(Byte) /\ Len(a2) = 8
  <2>1. a2 \in Seq(Byte) /\ Len(a2) = Len(a1) + Len(U32(n))
    BY <1>5, ConcatProperties
  <2> QED
    BY <1>5, <2>1
<1>7. m \in Seq(Byte) /\ Len(m) = 8 + Len(J)
  <2> HIDE DEF a2
  <2>1. a2 \o J \in Seq(Byte) /\ Len(a2 \o J) = Len(a2) + Len(J)
    BY <1>3, <1>6, ConcatProperties
  <2> QED
    BY <1>4, <1>6, <2>1
<1> HIDE DEF m, a1
<1>8. At(m, 0, a2) /\ At(m, 8, J)
  <2> HIDE DEF a2
  <2>1. At(m, 0, a2 \o J)
    BY <1>4, <1>7, AtWhole
  <2>2. At(m, 0, a2) /\ At(m, 0 + Len(a2), J)
    BY <1>3, <1>6, <1>7, <2>1, AtParts
  <2> QED
    BY <1>6, <2>2
<1>9. At(m, 0, a1) /\ At(m, 4, U32(n))
  <2>1. At(m, 0, a1) /\ At(m, 0 + Len(a1), U32(n))
    BY <1>5, <1>7, <1>8, AtParts
  <2> QED
    BY <1>5, <2>1
<1> DEFINE r0 == Reader(b)
           r1 == ReadU32(r0)
           r2 == ReadU32(r1)
           R == ReadList(r2, "string")
           F1 == Append(<<>>, SEARCH_REQUEST)
           F2 == Append(F1, n)
<1>10. b \in Seq(Byte) /\ Prefix(b, m)
  BY <1>7, PayloadType DEF m
<1>11. Reads(r0, m, 0, <<>>) /\ r0.bytes = b
  BY <1>7, <1>10, ReaderReads
<1> HIDE DEF r0
<1>12. Reads(r1, m, 4, F1) /\ r1.bytes = b
  <2>1. 0 \in Nat /\ 0 + 4 = 4
    OBVIOUS
  <2>2. m \in Seq(Byte) /\ At(m, 0, U32(SEARCH_REQUEST)) /\ SEARCH_REQUEST \in Nat /\ SEARCH_REQUEST < Limit
    BY <1>5, <1>7, <1>9 DEF a1
  <2>3. Reads(r1, m, 0 + 4, F1) /\ r1.bytes = b
    BY <1>11, <2>1, <2>2, ReadU32Reads
  <2> QED
    BY <2>1, <2>3
<1> HIDE DEF r1, F1
<1>13. Reads(r2, m, 8, F2) /\ r2.bytes = b
  BY <1>1, <1>5, <1>7, <1>9, <1>12, ReadU32Reads
<1>14. F2 \in Seq(Field) /\ Len(F2) = 2 /\ F2[2] = n
  <2>1. SEARCH_REQUEST \in Field /\ n \in Field /\ <<>> \in Seq(Field) /\ Len(<<>>) = 0
    BY <1>1, <1>5, EmptySeq DEF Field
  <2>2. F1 \in Seq(Field) /\ Len(F1) = 1
    BY <2>1, AppendField DEF F1
  <2>3. F2 \in Seq(Field) /\ Len(F2) = Len(F1) + 1 /\ F2[Len(F1) + 1] = n
    <3>1. F1 \in Seq(Field)
      BY <2>2
    <3> QED
      BY <2>1, <3>1, AppendField
  <2> HIDE DEF F2
  <2> QED
    BY <2>2, <2>3
<1> HIDE DEF r2, F2
<1>15. /\ Reads(R, m, Len(m), R.fields) /\ R.bytes = b
       /\ R.ok => r2.ok /\ HasStrings(R.fields, F2, q, n)
  <2>1. 8 + Len(J) = Len(m) /\ F2[Len(F2)] = n
    BY <1>7, <1>14
  <2> HIDE DEF R
  <2>2. /\ Reads(R, m, 8 + Len(J), R.fields) /\ R.bytes = r2.bytes
        /\ R.ok => r2.ok /\ HasStrings(R.fields, F2, q, n)
    BY <1>1, <1>2, <1>7, <1>8, <1>13, <1>14, <2>1, ReadStringsReads DEF J, R
  <2> QED
    BY <1>13, <2>1, <2>2
<1> DEFINE r == DecodeSearchRequest(b)
<1>16. r = IF r2.ok /\ r2.fields[2] > 0 THEN R ELSE Failed(r2)
  BY DEF DecodeSearchRequest, ReadMessageType, r0, r1, r2
<1>17. r2.ok => r2.fields[2] = n
  BY <1>13, <1>14 DEF Reads
<1>18. ~Failed(r2).ok
  BY <1>13 DEF Failed, Reads, ReaderSet
<1> HIDE DEF R, r
<1>19. R.ok <=> b = m
  BY <1>7, <1>10, <1>15, Whole
<1>20. r.ok <=> b = m /\ n > 0
  BY <1>15, <1>16, <1>17, <1>18, <1>19
<1>21. ASSUME r.ok PROVE TermsOf(r) = q
  <2>1. r = R /\ R.ok
    BY <1>15, <1>16, <1>18, <1>21
  <2>2. Len(R.fields) = 2 + n /\ \A i \in 1 .. n : R.fields[2 + i] = q[i]
    BY <1>14, <1>15, <2>1 DEF HasStrings
  <2>3. q \in Seq(Word)
    BY QueryType
  <2> DEFINE t == SubSeq(R.fields, 3, 2 + n)
  <2>4. /\ t \in Seq(Word) /\ Len(t) = n
        /\ \A i \in 1 .. n : t[i] = R.fields[2 + i]
    <3>1. \A i \in 3 .. 2 + n : R.fields[i] \in Word
      <4>1. \A i \in 3 .. 2 + n : i - 2 \in 1 .. n /\ 2 + (i - 2) = i
        BY <1>1
      <4>2. \A i \in 1 .. n : q[i] \in Word
        BY <1>1, QueryType DEF n
      <4> QED
        BY <2>2, <4>1, <4>2
    <3> DEFINE e == 2 + n
    <3>2. e \in Int /\ e - 3 + 1 = n /\ (3 <= e <=> n > 0)
      BY <1>1
    <3> HIDE DEF e
    <3>3. /\ SubSeq(R.fields, 3, e) \in Seq(Word)
          /\ Len(SubSeq(R.fields, 3, e)) = IF 3 <= e THEN e - 3 + 1 ELSE 0
          /\ \A i \in 1 .. e - 3 + 1 : SubSeq(R.fields, 3, e)[i] = R.fields[3 + i - 1]
      <4>1. \A i \in 3 .. e : R.fields[i] \in Word
        BY <3>1 DEF e
      <4> QED
        BY <3>2, <4>1, SubSeqProperties
    <3>4. \A i \in 1 .. n : 3 + i - 1 = 2 + i
      BY <1>1
    <3>5. t = SubSeq(R.fields, 3, e)
      BY DEF e
    <3> HIDE DEF t
    <3> QED
      BY <1>1, <3>2, <3>3, <3>4, <3>5
  <2> HIDE DEF t
  <2>5. t = q
    BY <2>2, <2>3, <2>4, SeqEqual DEF n
  <2> QED
    BY <2>1, <2>2, <2>5 DEF TermsOf, t
<1> QED
  BY <1>20, <1>21 DEF r, m, n

\* Two fields, one after the other.
LEMMA AppendPair == \A x, y \in Nat : Append(<<x>>, y) = <<x, y>>
<1> SUFFICES ASSUME NEW x \in Nat, NEW y \in Nat PROVE Append(<<x>>, y) = <<x, y>>
  OBVIOUS
<1>1. <<x>> \in Seq(Nat) /\ Len(<<x>>) = 1 /\ <<x>>[1] = x
  OBVIOUS
<1>2. <<x, y>> \in Seq(Nat) /\ Len(<<x, y>>) = 2 /\ <<x, y>>[1] = x /\ <<x, y>>[2] = y
  OBVIOUS
<1> DEFINE s == <<x>>
           t == <<x, y>>
           u == Append(s, y)
<1> HIDE DEF s, t
<1>3. u \in Seq(Nat) /\ Len(u) = Len(s) + 1 /\ u[Len(s) + 1] = y /\ \A i \in 1 .. Len(s) : u[i] = s[i]
  <2>1. s \in Seq(Nat)
    BY <1>1 DEF s
  <2> QED
    BY <2>1, AppendProperties
<1> HIDE DEF u
<1>4. Len(u) = Len(t) /\ \A i \in 1 .. Len(u) : u[i] = t[i]
  BY <1>1, <1>2, <1>3 DEF s, t
<1>5. u = t
  BY <1>2, <1>3, <1>4, SeqEqual DEF t
<1> QED
  BY <1>5 DEF s, t, u

\* decodeIndexReply (Protocol.cpp:161-170) reads the status that runWorker wrote.
THEOREM IndexReplyRead ==
  ASSUME NEW v \in Byte
  PROVE  DecodeIndexReply(IndexReply(v)).ok /\ DecodeIndexReply(IndexReply(v)).fields = <<INDEX_REPLY, v>>
<1> DEFINE m == IndexReply(v)
           a1 == U32(INDEX_REPLY)
           a2 == U32(v)
           r0 == Reader(m)
           r1 == ReadU32(r0)
           r2 == ReadU32(r1)
           F1 == Append(<<>>, INDEX_REPLY)
           F2 == Append(F1, v)
<1>1. /\ a1 \in Seq(Byte) /\ Len(a1) = 4 /\ a2 \in Seq(Byte) /\ Len(a2) = 4
      /\ INDEX_REPLY \in Nat /\ INDEX_REPLY < Limit /\ v \in Nat /\ v < Limit
  BY Numbers, U32Read
<1>2. m = a1 \o a2
  BY DEF IndexReply
<1> HIDE DEF m, a1, a2
<1>3. m \in Seq(Byte) /\ Len(m) = 8
  <2>1. a1 \o a2 \in Seq(Byte) /\ Len(a1 \o a2) = Len(a1) + Len(a2)
    BY <1>1, ConcatProperties
  <2> QED
    BY <1>1, <1>2, <2>1
<1>4. At(m, 0, a1) /\ At(m, 4, a2)
  <2>1. At(m, 0, a1 \o a2)
    BY <1>2, <1>3, AtWhole
  <2>2. At(m, 0, a1) /\ At(m, 0 + Len(a1), a2)
    BY <1>1, <1>3, <2>1, AtParts
  <2> QED
    BY <1>1, <2>2
<1>5. Reads(r0, m, 0, <<>>) /\ r0.bytes = m
  BY <1>3, ReaderReads DEF Prefix
<1> HIDE DEF r0
<1>6. Reads(r1, m, 4, F1) /\ r1.bytes = m
  <2>1. 0 \in Nat /\ 0 + 4 = 4
    OBVIOUS
  <2>2. Reads(r1, m, 0 + 4, F1) /\ r1.bytes = m
    <3>1. m \in Seq(Byte) /\ At(m, 0, U32(INDEX_REPLY)) /\ INDEX_REPLY \in Nat /\ INDEX_REPLY < Limit
      BY <1>1, <1>3, <1>4 DEF a1
    <3> HIDE DEF F1
    <3>2. Reads(ReadU32(r0), m, 0 + 4, Append(<<>>, INDEX_REPLY)) /\ ReadU32(r0).bytes = r0.bytes
      BY <1>5, <2>1, <3>1, ReadU32Reads
    <3> QED
      BY <1>5, <3>2 DEF F1
  <2> QED
    BY <2>1, <2>2
<1> HIDE DEF r1, F1
<1>7. Reads(r2, m, 8, F2) /\ r2.bytes = m
  <2>1. 4 \in Nat /\ 4 + 4 = 8
    OBVIOUS
  <2>2. m \in Seq(Byte) /\ At(m, 4, U32(v)) /\ v \in Nat /\ v < Limit
    BY <1>1, <1>3, <1>4 DEF a2
  <2>3. Reads(ReadU32(r1), m, 4 + 4, Append(F1, v)) /\ ReadU32(r1).bytes = r1.bytes
    BY <1>6, <2>1, <2>2, ReadU32Reads
  <2> QED
    BY <1>6, <2>1, <2>3
<1>8. r2.ok /\ r2.fields = F2
  BY <1>7 DEF Reads
<1>9. F2 = <<INDEX_REPLY, v>>
  <2>1. F1 = <<INDEX_REPLY>>
    BY DEF F1
  <2>2. Append(<<INDEX_REPLY>>, v) = <<INDEX_REPLY, v>>
    BY Numbers, AppendPair
  <2> QED
    BY <2>1, <2>2
<1>10. DecodeIndexReply(m) = IF IsMessage(r2, INDEX_REPLY) THEN r2 ELSE Failed(r2)
  BY DEF DecodeIndexReply, ReadMessageType, r0, r1
<1> HIDE DEF r2, F2
<1>11. IsMessage(r2, INDEX_REPLY)
  BY <1>8, <1>9 DEF IsMessage
<1> QED
  BY <1>8, <1>9, <1>10, <1>11 DEF m

\* Whatever it writes, a loop of the worker appends bytes.
LEMMA U32Type == \A v \in Nat : U32(v) \in Seq(Byte) /\ Len(U32(v)) = 4
<1> SUFFICES ASSUME NEW v \in Nat PROVE U32(v) \in Seq(Byte) /\ Len(U32(v)) = 4
  OBVIOUS
<1> DEFINE u == v \div Base
           t == u \div Base
           s == t \div Base
<1>1. u \in Nat /\ v % Base \in Byte
  BY Digit
<1> HIDE DEF u
<1>2. t \in Nat /\ u % Base \in Byte
  BY <1>1, Digit
<1> HIDE DEF t
<1>3. s \in Nat /\ t % Base \in Byte
  BY <1>2, Digit
<1> HIDE DEF s
<1>4. s % Base \in Byte
  BY <1>3, Digit
<1>5. U32(v) = <<s % Base, t % Base, u % Base, v % Base>>
  BY DEF U32, s, t, u
<1> QED
  BY <1>1, <1>2, <1>3, <1>4, <1>5

\* A string of any length is written as bytes.
LEMMA StrBytes == \A s \in Seq(Byte) : Str(s) \in Seq(Byte)
<1> SUFFICES ASSUME NEW s \in Seq(Byte) PROVE Str(s) \in Seq(Byte)
  OBVIOUS
<1>1. Len(s) \in Nat /\ U32(Len(s)) \in Seq(Byte) /\ U32(0) \in Seq(Byte)
  BY LenProperties, U32Type
<1>2. U32(Len(s)) \o s \in Seq(Byte)
  BY <1>1, ConcatProperties
<1> QED
  BY <1>1, <1>2 DEF Str

\* A line of a reply.
Hit == [path : Seq(Byte), freq : Nat]

\* What is written of a list of hits is bytes.
LEMMA HitsWritten ==
  ASSUME NEW hits \in Seq(Hit)
  PROVE  LET parts == [i \in DOMAIN hits |-> Str(hits[i].path) \o U32(hits[i].freq)]
         IN  parts \in Seq(Seq(Byte)) /\ Len(parts) = Len(hits)
<1> DEFINE parts == [i \in DOMAIN hits |-> Str(hits[i].path) \o U32(hits[i].freq)]
           n == Len(hits)
<1>1. n \in Nat /\ DOMAIN hits = 1 .. n
  BY LenProperties
<1>2. ASSUME NEW i \in 1 .. n PROVE parts[i] \in Seq(Byte)
  <2>1. hits[i].path \in Seq(Byte) /\ hits[i].freq \in Nat
    <3>1. hits[i] \in Hit
      BY <1>1, ElementOfSeq
    <3> QED
      BY <3>1 DEF Hit
  <2>2. Str(hits[i].path) \in Seq(Byte) /\ U32(hits[i].freq) \in Seq(Byte)
    BY <2>1, StrBytes, U32Type
  <2>3. Str(hits[i].path) \o U32(hits[i].freq) \in Seq(Byte)
    BY <2>2, ConcatProperties
  <2> QED
    BY <1>1, <2>3
<1>3. parts = [i \in 1 .. n |-> parts[i]]
  BY <1>1
<1> HIDE DEF parts
<1>4. parts \in [1 .. n -> Seq(Byte)]
  BY <1>2, <1>3
<1> QED
  BY <1>1, <1>4, LenProperties DEF parts

\* SEARCH_REPLY is bytes, whatever it lists.
LEMMA SearchReplyType ==
  ASSUME NEW hits \in Seq(Hit), NEW total \in Nat
  PROVE  SearchReply(total, hits) \in Seq(Byte)
<1> DEFINE parts == [i \in DOMAIN hits |-> Str(hits[i].path) \o U32(hits[i].freq)]
           J == Joined(parts)
           a1 == U32(SEARCH_REPLY)
           a2 == U32(total)
           a3 == U32(Len(hits))
<1>1. J \in Seq(Byte)
  BY HitsWritten, JoinedType
<1>2. a1 \in Seq(Byte) /\ a2 \in Seq(Byte) /\ a3 \in Seq(Byte)
  BY Numbers, U32Type, LenProperties
<1>3. SearchReply(total, hits) = a1 \o a2 \o a3 \o J
  BY DEF SearchReply
<1> HIDE DEF J, a1, a2, a3
<1>4. a1 \o a2 \in Seq(Byte)
  BY <1>2, ConcatProperties
<1>5. a1 \o a2 \o a3 \in Seq(Byte)
  BY <1>2, <1>4, ConcatProperties
<1>6. a1 \o a2 \o a3 \o J \in Seq(Byte)
  BY <1>1, <1>5, ConcatProperties
<1> QED
  BY <1>3, <1>6

\* decodeSearchReply (Protocol.cpp:182-203) reads the total and every hit that runWorker
\* wrote, when the numbers and the lengths of the paths fit the four bytes they get.
THEOREM SearchReplyRead ==
  ASSUME NEW hits \in Seq(Hit), NEW total \in Nat, total < Limit, Len(hits) < Limit,
         \A i \in 1 .. Len(hits) : IsString(hits[i].path) /\ hits[i].freq < Limit
  PROVE  LET r == DecodeSearchReply(SearchReply(total, hits))
         IN  /\ r.ok /\ Len(r.fields) = 3 + 2 * Len(hits) /\ r.fields \in Seq(Field)
             /\ r.fields[1] = SEARCH_REPLY /\ r.fields[2] = total /\ r.fields[3] = Len(hits)
             /\ \A i \in 1 .. Len(hits) : /\ r.fields[2 * i + 2] = hits[i].path
                                          /\ r.fields[2 * i + 3] = hits[i].freq
<1> DEFINE m == SearchReply(total, hits)
           n == Len(hits)
           parts == [i \in DOMAIN hits |-> Str(hits[i].path) \o U32(hits[i].freq)]
           names == [i \in 1 .. n |-> hits[i].path]
           numbers == [i \in 1 .. n |-> hits[i].freq]
           J == Joined(parts)
           a1 == U32(SEARCH_REPLY)
           a2 == a1 \o U32(total)
           a3 == a2 \o U32(n)
<1>1. n \in Nat /\ n < Limit /\ DOMAIN hits = 1 .. n
  BY LenProperties
<1>2. WritePairs(parts, names, numbers, n)
  <2>1. \A i \in 1 .. n : hits[i] \in Hit
    BY <1>1, ElementOfSeq
  <2>2. \A i \in 1 .. n : /\ IsString(names[i]) /\ numbers[i] \in Nat /\ numbers[i] < Limit
                          /\ parts[i] = Str(names[i]) \o U32(numbers[i])
    BY <1>1, <2>1 DEF Hit
  <2>3. parts \in Seq(Seq(Byte)) /\ Len(parts) = n
    BY HitsWritten
  <2> HIDE DEF parts, names, numbers
  <2> QED
    BY <2>2, <2>3 DEF WritePairs
<1>3. J \in Seq(Byte) /\ Len(J) \in Nat
  BY <1>2, JoinedType, LenProperties DEF WritePairs
<1>4. m = a3 \o J
  BY DEF SearchReply
<1> HIDE DEF parts, J, n
<1>5. /\ a1 \in Seq(Byte) /\ Len(a1) = 4
      /\ U32(total) \in Seq(Byte) /\ Len(U32(total)) = 4
      /\ U32(n) \in Seq(Byte) /\ Len(U32(n)) = 4
      /\ SEARCH_REPLY \in Nat /\ SEARCH_REPLY < Limit
  BY <1>1, Numbers, U32Read
<1>6. a2 \in Seq(Byte) /\ Len(a2) = 8
  <2>1. a2 \in Seq(Byte) /\ Len(a2) = Len(a1) + Len(U32(total))
    BY <1>5, ConcatProperties
  <2> QED
    BY <1>5, <2>1
<1> HIDE DEF a1
<1>7. a3 \in Seq(Byte) /\ Len(a3) = 12
  <2> HIDE DEF a2
  <2>1. a3 \in Seq(Byte) /\ Len(a3) = Len(a2) + Len(U32(n))
    BY <1>5, <1>6, ConcatProperties
  <2> QED
    BY <1>5, <1>6, <2>1
<1>8. m \in Seq(Byte) /\ Len(m) = 12 + Len(J)
  <2> HIDE DEF a3
  <2>1. a3 \o J \in Seq(Byte) /\ Len(a3 \o J) = Len(a3) + Len(J)
    BY <1>3, <1>7, ConcatProperties
  <2> QED
    BY <1>4, <1>7, <2>1
<1> HIDE DEF m
<1>9. At(m, 0, a3) /\ At(m, 12, J)
  <2> HIDE DEF a3
  <2>1. At(m, 0, a3 \o J)
    BY <1>4, <1>8, AtWhole
  <2>2. At(m, 0, a3) /\ At(m, 0 + Len(a3), J)
    BY <1>3, <1>7, <1>8, <2>1, AtParts
  <2> QED
    BY <1>7, <2>2
<1>10. At(m, 0, a2) /\ At(m, 8, U32(n))
  <2> HIDE DEF a2
  <2>1. At(m, 0, a2) /\ At(m, 0 + Len(a2), U32(n))
    BY <1>5, <1>6, <1>8, <1>9, AtParts
  <2> QED
    BY <1>6, <2>1
<1>11. At(m, 0, a1) /\ At(m, 4, U32(total))
  <2>1. At(m, 0, a1) /\ At(m, 0 + Len(a1), U32(total))
    BY <1>5, <1>8, <1>10, AtParts
  <2> QED
    BY <1>5, <2>1
<1> DEFINE r0 == Reader(m)
           r1 == ReadU32(r0)
           r2 == ReadU32(r1)
           r3 == ReadU32(r2)
           R == ReadList(r3, "pair")
           F1 == Append(<<>>, SEARCH_REPLY)
           F2 == Append(F1, total)
           F3 == Append(F2, n)
<1>12. Reads(r0, m, 0, <<>>) /\ r0.bytes = m
  BY <1>8, ReaderReads DEF Prefix
<1> HIDE DEF r0
<1>13. Reads(r1, m, 4, F1) /\ r1.bytes = m
  <2>1. 0 \in Nat /\ 0 + 4 = 4
    OBVIOUS
  <2>2. Reads(r1, m, 0 + 4, F1) /\ r1.bytes = m
    <3>1. At(m, 0, U32(SEARCH_REPLY)) /\ SEARCH_REPLY \in Nat /\ SEARCH_REPLY < Limit
      BY <1>5, <1>11 DEF a1
    <3> HIDE DEF F1
    <3>2. Reads(ReadU32(r0), m, 0 + 4, Append(<<>>, SEARCH_REPLY)) /\ ReadU32(r0).bytes = r0.bytes
      BY <1>8, <1>12, <2>1, <3>1, ReadU32Reads
    <3> QED
      BY <1>12, <3>2 DEF F1
  <2> QED
    BY <2>1, <2>2
<1> HIDE DEF r1, F1
<1>14. Reads(r2, m, 8, F2) /\ r2.bytes = m
  BY <1>5, <1>8, <1>11, <1>13, ReadU32Reads
<1> HIDE DEF r2
<1>15. /\ F2 \in Seq(Field) /\ Len(F2) = 2 /\ F2[1] = SEARCH_REPLY /\ F2[2] = total
  <2>1. /\ SEARCH_REPLY \in Field /\ total \in Field
        /\ <<>> \in Seq(Field) /\ Len(<<>>) = 0
    BY <1>5, EmptySeq DEF Field
  <2>2. F1 \in Seq(Field) /\ Len(F1) = 1 /\ F1[1] = SEARCH_REPLY
    BY <2>1, AppendField DEF F1
  <2>3. /\ F2 \in Seq(Field) /\ Len(F2) = Len(F1) + 1 /\ F2[Len(F1) + 1] = total
        /\ \A i \in 1 .. Len(F1) : F2[i] = F1[i]
    <3>1. F1 \in Seq(Field)
      BY <2>2
    <3> QED
      BY <2>1, <3>1, AppendField
  <2> HIDE DEF F2
  <2> QED
    BY <2>2, <2>3
<1> HIDE DEF F2
<1>16. Reads(r3, m, 12, F3) /\ r3.bytes = m
  BY <1>1, <1>8, <1>10, <1>14, ReadU32Reads
<1>17. /\ F3 \in Seq(Field) /\ Len(F3) = 3
       /\ F3[1] = SEARCH_REPLY /\ F3[2] = total /\ F3[3] = n
  <2>1. n \in Field /\ F2 \in Seq(Field)
    BY <1>1, <1>15 DEF Field
  <2>2. /\ F3 \in Seq(Field) /\ Len(F3) = Len(F2) + 1 /\ F3[Len(F2) + 1] = n
        /\ \A i \in 1 .. Len(F2) : F3[i] = F2[i]
    BY <2>1, AppendField
  <2> HIDE DEF F3
  <2> QED
    BY <1>15, <2>2
<1> HIDE DEF r3, F3
<1>18. /\ Reads(R, m, Len(m), R.fields) /\ R.bytes = m
       /\ R.ok => HasPairs(R.fields, F3, names, numbers, n)
  <2>1. 12 + Len(J) = Len(m) /\ F3[Len(F3)] = n
    BY <1>8, <1>17
  <2> HIDE DEF names, numbers, R
  <2>2. /\ Reads(R, m, 12 + Len(J), R.fields) /\ R.bytes = r3.bytes
        /\ R.ok => HasPairs(R.fields, F3, names, numbers, n)
    <3>1. At(m, 12, Joined(parts)) /\ 12 \in Nat
      BY <1>9 DEF J
    <3>2. Reads(r3, m, 12, F3) /\ F3 \in Seq(Field)
      BY <1>16, <1>17
    <3>3. LET Q == ReadList(r3, "pair")
          IN  /\ Reads(Q, m, 12 + Len(Joined(parts)), Q.fields) /\ Q.bytes = r3.bytes
              /\ Q.ok => HasPairs(Q.fields, F3, names, numbers, n)
      BY <1>1, <1>2, <1>8, <2>1, <3>1, <3>2, ReadPairsReads
    <3> QED
      BY <3>3 DEF J, R
  <2> QED
    BY <1>16, <2>1, <2>2
<1>19. R = DecodeSearchReply(m)
  <2>1. r3.ok /\ r3.fields = F3
    BY <1>16 DEF Reads
  <2>2. IsMessage(r3, SEARCH_REPLY)
    BY <1>17, <2>1 DEF IsMessage
  <2> QED
    BY <2>2 DEF DecodeSearchReply, ReadMessageType, r0, r1, r2, r3
<1> HIDE DEF R
<1>20. R.ok /\ R.fields \in Seq(Field)
  BY <1>18 DEF Reads, ReaderSet
<1>21. Len(R.fields) = 3 + 2 * n /\ \A j \in 1 .. 3 : R.fields[j] = F3[j]
  BY <1>17, <1>18, <1>20 DEF HasPairs
<1>22. ASSUME NEW i \in 1 .. n
       PROVE  R.fields[2 * i + 2] = hits[i].path /\ R.fields[2 * i + 3] = hits[i].freq
  <2>1. 3 + 2 * i - 1 = 2 * i + 2 /\ 3 + 2 * i = 2 * i + 3
    BY <1>1
  <2>2. R.fields[3 + 2 * i - 1] = names[i] /\ R.fields[3 + 2 * i] = numbers[i]
    BY <1>17, <1>18, <1>20 DEF HasPairs
  <2> QED
    BY <2>1, <2>2
<1> QED
  BY <1>17, <1>19, <1>20, <1>21, <1>22 DEF m, n
-----------------------------------------------------------------------------
\* readU32 adds a field, or fails.
LEMMA ReadU32Grows ==
  ASSUME NEW r \in ReaderSet, ReadU32(r).ok
  PROVE  r.ok /\ Len(ReadU32(r).fields) = Len(r.fields) + 1
<1>1. r.ok \in BOOLEAN /\ r.fields \in Seq(Field) /\ Len(r.fields) \in Nat
  BY LenProperties DEF ReaderSet
<1>2. PICK v : ReadU32(r) = Failed(r) \/ (r.ok /\ ReadU32(r) = [r EXCEPT !.offset = @ + 4, !.fields = Append(@, v)])
  BY <1>1 DEF ReadU32
<1>3. ~Failed(r).ok
  BY DEF Failed, ReaderSet
<1>4. ReadU32(r).fields = Append(r.fields, v)
  BY <1>2, <1>3 DEF ReaderSet
<1> QED
  BY <1>1, <1>2, <1>3, <1>4

\* readString adds a field, or fails.
LEMMA ReadStringGrows ==
  ASSUME NEW r \in ReaderSet, ReadString(r).ok
  PROVE  r.ok /\ Len(ReadString(r).fields) = Len(r.fields) + 1
<1>1. r.ok \in BOOLEAN /\ r.fields \in Seq(Field) /\ Len(r.fields) \in Nat
  BY LenProperties DEF ReaderSet
<1> DEFINE l == ReadU32(r)
<1>2. l \in ReaderSet /\ (l.ok => r.ok)
  BY ReadU32Type, ReadU32Grows
<1> HIDE DEF l
<1>3. PICK n, s : \/ ReadString(r) = Failed(r)
                  \/ l.ok /\ ReadString(r) = [l EXCEPT !.offset = @ + n, !.fields = Append(r.fields, s)]
  BY <1>2 DEF ReadString, l, ReaderSet
<1>4. ~Failed(r).ok
  BY DEF Failed, ReaderSet
<1>5. ReadString(r).fields = Append(r.fields, s)
  BY <1>2, <1>3, <1>4 DEF ReaderSet
<1> QED
  BY <1>1, <1>2, <1>3, <1>4, <1>5

\* What a client accepts as a reply to its search has the three fields of one.
LEMMA SearchReplyLong ==
  ASSUME NEW m \in Seq(Byte), DecodeSearchReply(m).ok
  PROVE  Len(DecodeSearchReply(m).fields) >= 3
<1> DEFINE r0 == Reader(m)
           r1 == ReadU32(r0)
           r2 == ReadU32(r1)
           r3 == ReadU32(r2)
           n == LastField(r3)
<1>0. 0 + 1 = 1 /\ 1 + 1 = 2 /\ 2 + 1 = 3
  OBVIOUS
<1>1. r0 \in ReaderSet /\ Len(r0.fields) = 0
  BY EmptySeq DEF Reader, ReaderSet
<1> HIDE DEF r0
<1>2. r1 \in ReaderSet /\ (r1.ok => r0.ok /\ Len(r1.fields) = 1)
  <2>1. r0 \in ReaderSet
    BY <1>1
  <2>2. r1 \in ReaderSet /\ (r1.ok => r0.ok /\ Len(r1.fields) = Len(r0.fields) + 1)
    BY <2>1, ReadU32Type, ReadU32Grows
  <2> HIDE DEF r1
  <2> QED
    BY <1>0, <1>1, <2>2
<1> HIDE DEF r1
<1>3. r2 \in ReaderSet /\ (r2.ok => r1.ok /\ Len(r2.fields) = 2)
  <2>1. r1 \in ReaderSet
    BY <1>2
  <2>2. r2 \in ReaderSet /\ (r2.ok => r1.ok /\ Len(r2.fields) = Len(r1.fields) + 1)
    BY <2>1, ReadU32Type, ReadU32Grows
  <2> HIDE DEF r2
  <2> QED
    BY <1>0, <1>2, <2>2
<1> HIDE DEF r2
<1>4. r3 \in ReaderSet /\ (r3.ok => Len(r3.fields) = 3 /\ n \in Nat)
  <2>1. r2 \in ReaderSet
    BY <1>3
  <2>2. r3 \in ReaderSet /\ (r3.ok => r2.ok /\ Len(r3.fields) = Len(r2.fields) + 1 /\ n \in Nat)
    BY <2>1, ReadU32Type, ReadU32Grows
  <2> HIDE DEF r3, n
  <2> QED
    BY <1>0, <1>3, <2>2
<1>5. DecodeSearchReply(m) = IF IsMessage(r3, SEARCH_REPLY) THEN ReadList(r3, "pair") ELSE Failed(r3)
  BY DEF DecodeSearchReply, ReadMessageType, r0, r1, r2
<1> HIDE DEF r3, n
<1>6. ~Failed(r3).ok
  BY <1>4 DEF Failed, ReaderSet
<1>7. r3.ok /\ DecodeSearchReply(m) = ReadList(r3, "pair")
  BY <1>5, <1>6 DEF IsMessage
<1>8. PICK f \in [0 .. n -> ReaderSet] :
        /\ f[0] = r3 /\ \A i \in 1 .. n : f[i] = ReadEntry(f[i - 1], "pair")
        /\ ReadList(r3, "pair") = f[n]
  <2>1. "pair" \in {"pair", "string"} /\ LastField(r3) = n
    BY DEF n
  <2> QED
    BY <1>4, <1>7, <2>1, ListTurns
<1> DEFINE S == {i \in Nat : i <= n /\ f[i].ok => Len(f[i].fields) >= 3}
<1>9. 0 \in S
  BY <1>4, <1>7, <1>8
<1>10. ASSUME NEW i \in Nat, i \in S PROVE i + 1 \in S
  <2> SUFFICES ASSUME i + 1 <= n, f[i + 1].ok PROVE Len(f[i + 1].fields) >= 3
    OBVIOUS
  <2> DEFINE j == i + 1
             x == f[i]
             y == ReadString(x)
             z == ReadU32(y)
  <2>1. j \in 1 .. n /\ j - 1 = i /\ i \in 0 .. n /\ x \in ReaderSet
    BY <1>4, <1>7
  <2>2. f[j] = z
    <3>1. f[j] = ReadEntry(f[j - 1], "pair")
      BY <1>8, <2>1
    <3> QED
      BY <2>1, <3>1 DEF ReadEntry
  <2>3. x.ok => Len(x.fields) >= 3
    BY <1>4, <1>7, <1>10, <2>1
  <2>4. y \in ReaderSet /\ (y.ok => x.ok /\ Len(y.fields) = Len(x.fields) + 1)
    <3> HIDE DEF x
    <3> QED
      BY <2>1, ReadStringType, ReadStringGrows
  <2>5. z.ok => y.ok /\ Len(z.fields) = Len(y.fields) + 1
    <3> HIDE DEF y
    <3> QED
      BY <2>4, ReadU32Grows
  <2>6. Len(x.fields) \in Nat
    BY <2>1, LenProperties DEF ReaderSet
  <2> HIDE DEF x, y, z
  <2> QED
    BY <2>2, <2>3, <2>4, <2>5, <2>6
<1> HIDE DEF S
<1>11. n \in S
  BY <1>4, <1>7, <1>9, <1>10, SetInduction
<1> QED
  BY <1>4, <1>7, <1>8, <1>11 DEF S

-----------------------------------------------------------------------------
(* Word counts and postings.                                               *)

\* Posting lists hold documents and frequencies; scores, and word counts, are functions on some
\* of the documents, or words.
Postings(D) == [doc : D, freq : Nat]
Scores(D) == UNION {[E -> Nat] : E \in SUBSET D}

\* A set of positions that is not empty has a last one.
LEMMA LastOf ==
  ASSUME NEW n \in Nat, NEW S \in SUBSET (1 .. n), S # {}
  PROVE  \E i \in S : \A j \in S : j <= i
<1> DEFINE T == {m \in Nat : n - m \in S}
           R == OpToRel(<, Nat)
<1>1. IsWellFoundedOn(R, Nat)
  BY NatLessThanWellFounded
<1>2. \A m, k \in Nat : m < k => <<m, k>> \in R
  BY DEF OpToRel
<1>3. \A i \in S : n - i \in T
  OBVIOUS
<1>4. T # {}
  BY <1>3
<1> HIDE DEF R
<1>5. PICK m \in T : \A k \in T : <<k, m>> \notin R
  BY <1>1, <1>4, WFMin
<1>6. ASSUME NEW j \in S PROVE j <= n - m
  <2>1. n - j \in T /\ n - j \in Nat
    BY <1>3
  <2>2. ~(n - j < m)
    BY <1>2, <1>5, <2>1
  <2> QED
    BY <2>1, <2>2
<1> QED
  BY <1>5, <1>6

\* Scores are natural numbers.
LEMMA ScoresType ==
  ASSUME NEW D, NEW f \in Scores(D)
  PROVE  /\ DOMAIN f \subseteq D /\ \A x \in DOMAIN f : f[x] \in Nat
         /\ f = [x \in DOMAIN f |-> f[x]]
BY DEF Scores

\* wordCounts holds every word of the request, with a count it was sent with.
LEMMA WordCountsRead ==
  ASSUME NEW q \in Requests, NEW b \in Payloads(EncodeIndexRequest(q.id, q.path, q.terms)),
         DecodeIndexRequest(b).ok
  PROVE  LET c == WordCountsOf(DecodeIndexRequest(b))
         IN  /\ c \in Scores(Word)
             /\ DOMAIN c = {q.terms[i].term : i \in 1 .. Len(q.terms)}
             /\ \A k \in DOMAIN c : [term |-> k, frequency |-> c[k]] \in Range(q.terms)
<1> DEFINE r == DecodeIndexRequest(b)
           c == WordCountsOf(r)
           n == Len(q.terms)
           D == {q.terms[i].term : i \in 1 .. n}
           of(k) == {i \in 1 .. n : q.terms[i].term = k}
           last(k) == CHOOSE i \in of(k) : \A j \in of(k) : j <= i
<1>1. /\ r.fields[4] = n
      /\ \A i \in 1 .. n : /\ r.fields[2 * i + 3] = q.terms[i].term
                           /\ r.fields[2 * i + 4] = q.terms[i].frequency
  BY IndexRequestRead
<1>2. n \in Nat /\ DOMAIN q.terms = 1 .. n /\ q.terms \in Seq([term : Word, frequency : 0 .. IntMax])
  BY RequestType
<1>3. \A i \in 1 .. n : q.terms[i] \in [term : Word, frequency : 0 .. IntMax]
  BY <1>2, ElementOfSeq
<1>4. D \subseteq Word
  BY <1>3
<1>5. ASSUME NEW k \in D
      PROVE  /\ last(k) \in 1 .. n /\ q.terms[last(k)].term = k
             /\ (CHOOSE i \in 1 .. n : /\ r.fields[2 * i + 3] = k
                                       /\ \A j \in 1 .. n : r.fields[2 * j + 3] = k => j <= i)
                  \in of(k)
  <2>1. of(k) # {} /\ of(k) \in SUBSET (1 .. n)
    OBVIOUS
  <2>2. \E i \in of(k) : \A j \in of(k) : j <= i
    BY <1>2, <2>1, LastOf
  <2>3. last(k) \in of(k)
    BY <2>2
  <2>4. \E i \in 1 .. n : /\ r.fields[2 * i + 3] = k
                          /\ \A j \in 1 .. n : r.fields[2 * j + 3] = k => j <= i
    BY <1>1, <2>2
  <2> DEFINE chosen == CHOOSE i \in 1 .. n : /\ r.fields[2 * i + 3] = k
                                             /\ \A j \in 1 .. n : r.fields[2 * j + 3] = k => j <= i
  <2>5. chosen \in 1 .. n /\ r.fields[2 * chosen + 3] = k
    BY <2>4
  <2> HIDE DEF chosen
  <2>6. chosen \in of(k)
    BY <1>1, <2>5
  <2> QED
    BY <2>3, <2>6 DEF chosen
<1> HIDE DEF r
<1> DEFINE chosen(k) == CHOOSE i \in 1 .. n : /\ r.fields[2 * i + 3] = k
                                             /\ \A j \in 1 .. n : r.fields[2 * j + 3] = k => j <= i
<1>6. c = [k \in D |-> r.fields[2 * chosen(k) + 4]]
  <2> DEFINE W == {r.fields[2 * i + 3] : i \in 1 .. n}
  <2>1. c = [k \in W |-> r.fields[2 * chosen(k) + 4]]
    BY <1>1 DEF WordCountsOf
  <2>2. \A i \in 1 .. n : r.fields[2 * i + 3] = q.terms[i].term
    BY <1>1
  <2>3. W = D
    <3> HIDE DEF n
    <3> QED
      BY <2>2, Zenon
  <2> HIDE DEF W, D, c, chosen
  <2> QED
    BY <2>1, <2>3
<1>7. \A k \in D : chosen(k) \in 1 .. n /\ q.terms[chosen(k)].term = k
  BY <1>5
<1> HIDE DEF chosen, c
<1>8. \A k \in D : c[k] = q.terms[chosen(k)].frequency
  BY <1>1, <1>6, <1>7
<1>9. ASSUME NEW k \in D
      PROVE  c[k] \in Nat /\ [term |-> k, frequency |-> c[k]] \in Range(q.terms)
  <2> DEFINE t == q.terms[chosen(k)]
  <2>1. t \in [term : Word, frequency : 0 .. IntMax] /\ t.term = k /\ t.frequency = c[k]
    BY <1>3, <1>7, <1>8
  <2>2. t \in Range(q.terms)
    BY <1>2, <1>7 DEF Range
  <2>3. t.frequency \in Nat
    BY <2>1, Numbers
  <2> HIDE DEF t
  <2>4. t = [term |-> k, frequency |-> c[k]]
    BY <2>1
  <2> QED
    BY <2>1, <2>2, <2>3, <2>4
<1>10. DOMAIN c = D /\ c \in [D -> Nat]
  BY <1>6, <1>9
<1>11. c \in Scores(Word)
  BY <1>4, <1>10 DEF Scores
<1> QED
  BY <1>9, <1>10, <1>11 DEF c, r

\* The frequency of a document that lookup finds is the one of a posting of it.
LEMMA LastFreqsType ==
  ASSUME NEW D, NEW list \in Seq(Postings(D))
  PROVE  LET f == LastFreqs(list)
         IN  /\ f \in Scores(D) /\ DOMAIN f = {list[i].doc : i \in 1 .. Len(list)}
             /\ \A d \in DOMAIN f : \E i \in 1 .. Len(list) : list[i].doc = d /\ list[i].freq = f[d]
<1> DEFINE f == LastFreqs(list)
           n == Len(list)
           E == {list[i].doc : i \in 1 .. n}
           chosen(d) == CHOOSE i \in 1 .. n :
                          list[i].doc = d /\ \A j \in 1 .. n : list[j].doc = d => j <= i
<1>1. n \in Nat /\ DOMAIN list = 1 .. n
  BY LenProperties
<1>2. \A i \in 1 .. n : list[i].doc \in D /\ list[i].freq \in Nat
  <2>1. \A i \in 1 .. n : list[i] \in Postings(D)
    BY <1>1, ElementOfSeq
  <2> QED
    BY <2>1 DEF Postings
<1>3. ASSUME NEW d \in E PROVE chosen(d) \in 1 .. n /\ list[chosen(d)].doc = d
  <2> DEFINE P == {i \in 1 .. n : list[i].doc = d}
  <2>1. \E i \in P : \A j \in P : j <= i
    BY <1>1, LastOf
  <2> QED
    BY <2>1
<1>4. f = [d \in E |-> list[chosen(d)].freq]
  BY <1>1 DEF LastFreqs
<1> HIDE DEF f, chosen
<1>5. E \in SUBSET D /\ f \in [E -> Nat] /\ DOMAIN f = E
  BY <1>2, <1>3, <1>4
<1>6. f \in Scores(D)
  BY <1>5 DEF Scores
<1>7. \A d \in E : \E i \in 1 .. n : list[i].doc = d /\ list[i].freq = f[d]
  BY <1>3, <1>4
<1> QED
  BY <1>5, <1>6, <1>7 DEF f

\* addUnchecked changes the last posting of the list, or appends one.
LEMMA AddUncheckedCases ==
  ASSUME NEW D, NEW list \in Seq(Postings(D)), NEW d \in D, NEW n \in Nat
  PROVE  LET u == AddUnchecked(list, d, n)
             l == Len(list)
         IN  /\ u \in Seq(Postings(D))
             /\ \/ /\ l > 0 /\ Len(u) = l /\ list[l].doc = d /\ u[l].doc = d
                   /\ u[l].freq = list[l].freq + n
                   /\ \A i \in 1 .. l - 1 : u[i] = list[i]
                \/ /\ Len(u) = l + 1 /\ u[l + 1].doc = d /\ u[l + 1].freq = n
                   /\ \A i \in 1 .. l : u[i] = list[i]
<1> DEFINE u == AddUnchecked(list, d, n)
           l == Len(list)
<1>1. l \in Nat /\ DOMAIN list = 1 .. l /\ \A i \in 1 .. l : list[i] \in Postings(D)
  BY LenProperties, ElementOfSeq
<1>2. CASE EndsWith(list, d)
  <2>1. l > 0
    BY <1>1, <1>2, EmptySeq DEF EndsWith, EmptyList
  <2> DEFINE p == Posting(d, list[l].freq + n)
  <2>2. l \in 1 .. l /\ list[l].doc = d /\ list[l].freq \in Nat
    BY <1>1, <1>2, <2>1 DEF EndsWith, Postings
  <2>3. p \in Postings(D) /\ p.doc = d /\ p.freq = list[l].freq + n
    BY <2>2 DEF Posting, Postings
  <2>4. u = [list EXCEPT ![l] = p]
    BY <1>2 DEF AddUnchecked
  <2> HIDE DEF p, u
  <2>5. u \in [1 .. l -> Postings(D)] /\ u[l] = p /\ \A i \in 1 .. l - 1 : u[i] = list[i]
    <3>1. list = [i \in 1 .. l |-> list[i]] /\ l \notin 1 .. l - 1 /\ 1 .. l - 1 \subseteq 1 .. l
      BY <1>1
    <3> HIDE DEF l
    <3> QED
      BY <1>1, <2>2, <2>3, <2>4, <3>1
  <2>6. u \in Seq(Postings(D)) /\ Len(u) = l
    BY <1>1, <2>5, FunctionIsSeq, LenProperties
  <2> QED
    BY <2>1, <2>2, <2>3, <2>5, <2>6 DEF u
<1>3. CASE ~EndsWith(list, d)
  <2> DEFINE p == Posting(d, n)
  <2>1. p \in Postings(D) /\ p.doc = d /\ p.freq = n
    BY DEF Posting, Postings
  <2>2. u = Append(list, p)
    BY <1>3 DEF AddUnchecked
  <2> HIDE DEF p, u
  <2>3. /\ u \in Seq(Postings(D)) /\ Len(u) = l + 1 /\ u[l + 1] = p
        /\ \A i \in 1 .. l : u[i] = list[i]
    BY <2>1, <2>2, AppendProperties
  <2> QED
    BY <2>1, <2>3 DEF u
<1> QED
  BY <1>2, <1>3

-----------------------------------------------------------------------------
(* Types, and what each worker serves.                                     *)

\* The type of every variable, and that every document has the requests sent for it.
Typed ==
  /\ documents \in Seq(Seq(Byte))
  /\ termInvertedIndex \in [Word -> Seq(Postings(Doc))]
  /\ pc \in [Worker -> {"receive", "update", "lookup", "deaf"}]
  /\ docNum \in [Worker -> Nat]
  /\ left \in [Worker -> Scores(Word)]
  /\ terms \in [Worker -> Seq(Word)]
  /\ at \in [Worker -> Nat]
  /\ docScores \in [Worker -> Scores(Doc)]
  /\ answer = [w \in Worker |-> [fields |-> answer[w].fields, whole |-> answer[w].whole]]
  /\ requests \in 0 .. MaxRequests
  /\ DOMAIN asked = Worker
  /\ sent \in Seq(Seq(Scores(Word))) /\ Len(sent) = Len(documents)
  /\ acked \subseteq Doc \X Word

\* A worker holds a number and counts only while it updates the index, and terms and
\* scores only while it looks them up.
Serving(w) ==
  /\ pc[w] = "update" => docNum[w] \in Doc /\ asked[w].q \in Requests
  /\ pc[w] # "update" => docNum[w] = 0 /\ left[w] = NoScores
  /\ pc[w] = "lookup" => asked[w].q \in Query
  /\ pc[w] # "lookup" => terms[w] = <<>> /\ at[w] = 1
  /\ at[w] \in 1 .. Len(terms[w]) + 1
  /\ at[w] = 1 => docScores[w] = NoScores

\* What RequestsUnderstood says of worker w.
Understood(w) ==
  LET q == asked[w].q
  IN  /\ pc[w] = "update" =>
           /\ asked[w].whole
           /\ documents[docNum[w]] = FullPath(q.id, q.path)
           /\ \A k \in DOMAIN left[w] : [term |-> k, frequency |-> left[w][k]] \in Range(q.terms)
      /\ pc[w] = "lookup" => terms[w] = IF asked[w].whole THEN q ELSE <<>>
      /\ ~answer[w].whole =>
           answer[w].fields \in {<<INDEX_REPLY, 1>>, <<SEARCH_REPLY, 0, 0>>}
      /\ answer[w].whole => answer[w].fields # <<INDEX_REPLY, 1>>

WorkersInv == Typed /\ \A w \in Worker : Serving(w) /\ Understood(w)

\* The invariant of the workers gives the two properties that are stated of them.
LEMMA TypedInvImplies == WorkersInv => TypeOK /\ RequestsUnderstood
<1> SUFFICES ASSUME WorkersInv PROVE TypeOK /\ RequestsUnderstood
  OBVIOUS
<1>1. RequestsUnderstood
  BY DEF WorkersInv, Understood, RequestsUnderstood
<1>2. ASSUME NEW w \in Worker
      PROVE  /\ pc[w] = "update" => docNum[w] \in Doc
             /\ DOMAIN left[w] \subseteq Word
             /\ at[w] \in 1 .. Len(terms[w]) + 1
             /\ DOMAIN docScores[w] \subseteq Doc
             /\ DOMAIN answer[w] = {"fields", "whole"}
  <2>1. left[w] \in Scores(Word) /\ docScores[w] \in Scores(Doc)
    BY DEF WorkersInv, Typed
  <2>2. DOMAIN left[w] \subseteq Word /\ DOMAIN docScores[w] \subseteq Doc
    BY <2>1, ScoresType
  <2>3. DOMAIN answer[w] = {"fields", "whole"}
    <3>1. answer[w] = [fields |-> answer[w].fields, whole |-> answer[w].whole]
      BY DEF WorkersInv, Typed
    <3>2. ASSUME NEW a, NEW b PROVE DOMAIN [fields |-> a, whole |-> b] = {"fields", "whole"}
      OBVIOUS
    <3> QED
      BY <3>1, <3>2
  <2> QED
    BY <2>2, <2>3 DEF WorkersInv, Serving
<1>3. DOMAIN sent = Doc
  BY LenProperties DEF WorkersInv, Typed, Doc
<1> QED
  BY <1>1, <1>2, <1>3 DEF WorkersInv, Typed, TypeOK, Postings, Byte
-----------------------------------------------------------------------------
\* No scores are scores.
LEMMA NoScoresType == \A D : NoScores \in Scores(D)
BY DEF NoScores, Scores

\* Workers wait for a request, over an empty store.
LEMMA TypedInitially == Init => WorkersInv
<1> SUFFICES ASSUME Init PROVE WorkersInv
  OBVIOUS
<1>1. Typed
  <2>1. documents = <<>> /\ sent = <<>> /\ acked = {} /\ requests = 0
    BY DEF Init
  <2>2. documents \in Seq(Seq(Byte)) /\ sent \in Seq(Seq(Scores(Word))) /\ Len(sent) = Len(documents)
    BY <2>1, EmptySeq
  <2>3. termInvertedIndex \in [Word -> Seq(Postings(Doc))]
    BY EmptySeq DEF Init, EmptyList
  <2>4. left \in [Worker -> Scores(Word)] /\ docScores \in [Worker -> Scores(Doc)]
    BY NoScoresType DEF Init
  <2>5. /\ pc \in [Worker -> {"receive", "update", "lookup", "deaf"}]
        /\ docNum \in [Worker -> Nat] /\ at \in [Worker -> Nat] /\ DOMAIN asked = Worker
    BY DEF Init
  <2>6. terms \in [Worker -> Seq(Word)]
    BY EmptySeq DEF Init
  <2>7. answer = [w \in Worker |-> [fields |-> answer[w].fields, whole |-> answer[w].whole]]
    BY DEF Init, None
  <2>8. requests \in 0 .. MaxRequests
    BY <2>1, BoundsAssumption
  <2> QED
    BY <2>1, <2>2, <2>3, <2>4, <2>5, <2>6, <2>7, <2>8 DEF Typed
<1>2. ASSUME NEW w \in Worker PROVE Serving(w) /\ Understood(w)
  <2>1. /\ pc[w] = "receive" /\ docNum[w] = 0 /\ left[w] = NoScores /\ terms[w] = <<>>
        /\ at[w] = 1 /\ docScores[w] = NoScores /\ answer[w] = None
    BY DEF Init
  <2>2. Serving(w)
    BY <2>1 DEF Serving
  <2>3. <<>> # <<INDEX_REPLY, 1>>
    BY DEF INDEX_REPLY
  <2> QED
    BY <2>1, <2>2, <2>3 DEF Understood, None
<1> QED
  BY <1>1, <1>2 DEF WorkersInv

\* Nothing that Serving(v) or Understood(v) says of v changes, and paths keep their numbers.
KeptFor(v) ==
  /\ pc'[v] = pc[v] /\ docNum'[v] = docNum[v] /\ left'[v] = left[v] /\ terms'[v] = terms[v]
  /\ at'[v] = at[v] /\ docScores'[v] = docScores[v] /\ answer'[v] = answer[v]
  /\ asked'[v] = asked[v]
  /\ \A d \in Doc : d \in Doc' /\ documents'[d] = documents[d]

\* A step of one worker leaves the others what they serve.
LEMMA OthersKept ==
  ASSUME NEW v, Serving(v), Understood(v), KeptFor(v)
  PROVE  Serving(v)' /\ Understood(v)'
<1>1. Serving(v)'
  BY DEF Serving, KeptFor
<1>2. Understood(v)'
  BY DEF Serving, Understood, KeptFor
<1> QED
  BY <1>1, <1>2

\* putDocument gives the path a number, new or not.
LEMMA PutDocumentPuts ==
  ASSUME WorkersInv, NEW w \in Worker, NEW path \in Seq(Byte), PutDocument(w, path)
  PROVE  /\ documents' \in Seq(Seq(Byte)) /\ docNum' \in [Worker -> Nat]
         /\ \A d \in Doc : d \in Doc' /\ documents'[d] = documents[d]
         /\ docNum'[w] \in Doc' /\ documents'[docNum'[w]] = path
         /\ \A v \in Worker : v # w => docNum'[v] = docNum[v]
         /\ \/ UNCHANGED documents /\ docNum'[w] \in Doc
            \/ Len(documents') = Len(documents) + 1 /\ docNum'[w] = Len(documents) + 1
<1> DEFINE n == Len(documents)
<1>1. n \in Nat /\ Doc = 1 .. n /\ documents \in Seq(Seq(Byte)) /\ docNum \in [Worker -> Nat]
  BY LenProperties DEF WorkersInv, Typed, Doc
<1>2. CASE DocumentPathToId(path) # {}
  <2> DEFINE e == CHOOSE d \in DocumentPathToId(path) : TRUE
  <2>1. e \in Doc /\ documents[e] = path
    <3>1. e \in DocumentPathToId(path)
      BY <1>2
    <3> QED
      BY <3>1 DEF DocumentPathToId, Doc
  <2>2. docNum' = [docNum EXCEPT ![w] = e] /\ UNCHANGED documents
    BY <1>2 DEF PutDocument
  <2> HIDE DEF e
  <2> QED
    <3>1. docNum' \in [Worker -> Nat] /\ docNum'[w] = e /\ \A v \in Worker : v # w => docNum'[v] = docNum[v]
      BY <1>1, <2>1, <2>2
    <3>2. Doc' = Doc
      BY <2>2 DEF Doc
    <3> QED
      BY <1>1, <2>1, <2>2, <3>1, <3>2
<1>3. CASE DocumentPathToId(path) = {}
  <2>1. docNum' = [docNum EXCEPT ![w] = n + 1] /\ documents' = Append(documents, path)
    BY <1>3 DEF PutDocument
  <2>2. /\ documents' \in Seq(Seq(Byte)) /\ Len(documents') = n + 1 /\ documents'[n + 1] = path
        /\ \A i \in 1 .. n : documents'[i] = documents[i]
    BY <1>1, <2>1, AppendProperties
  <2>3. Doc' = 1 .. n + 1
    BY <1>1, <2>2, LenProperties DEF Doc
  <2> QED
    BY <1>1, <2>1, <2>2, <2>3
<1> QED
  BY <1>2, <1>3

\* Postings stay postings when documents are added.
LEMMA PostingsGrow ==
  ASSUME NEW D, NEW E, D \subseteq E, NEW s \in Seq(Postings(D))
  PROVE  s \in Seq(Postings(E))
<1>1. Postings(D) \subseteq Postings(E)
  BY DEF Postings
<1> HIDE DEF Postings
<1> QED
  BY <1>1

\* Scores stay scores when documents are added.
LEMMA ScoresGrow ==
  ASSUME NEW D, NEW E, D \subseteq E
  PROVE  Scores(D) \subseteq Scores(E)
BY DEF Scores

\* Only w's client has a new answer.
LEMMA AnswerType ==
  ASSUME Typed, NEW w \in Worker, NEW F, NEW b,
         answer' = [answer EXCEPT ![w] = [fields |-> F, whole |-> b]]
  PROVE  /\ answer' = [v \in Worker |-> [fields |-> answer'[v].fields, whole |-> answer'[v].whole]]
         /\ answer'[w].fields = F /\ answer'[w].whole = b
         /\ \A v \in Worker : v # w => answer'[v] = answer[v]
<1>1. DOMAIN answer = Worker /\ \A v \in Worker : answer[v] = [fields |-> answer[v].fields, whole |-> answer[v].whole]
  BY DEF Typed
<1> DEFINE a == [fields |-> F, whole |-> b]
<1>2. a.fields = F /\ a.whole = b /\ a = [fields |-> a.fields, whole |-> a.whole]
  OBVIOUS
<1> HIDE DEF a
<1>3. answer' = [answer EXCEPT ![w] = a]
  BY DEF a
<1>4. answer'[w] = a /\ \A v \in Worker : v # w => answer'[v] = answer[v]
  BY <1>1, <1>3
<1>5. answer' = [v \in Worker |-> answer'[v]]
  BY <1>1, <1>3
<1>6. \A v \in Worker : answer'[v] = [fields |-> answer'[v].fields, whole |-> answer'[v].whole]
  BY <1>1, <1>2, <1>4
<1> QED
  BY <1>2, <1>4, <1>5, <1>6

\* The word counts of a request are added to those sent for its document.
LEMMA Recorded ==
  ASSUME sent \in Seq(Seq(Scores(Word))), NEW c \in Scores(Word), NEW d \in 1 .. Len(sent) + 1
  PROVE  LET t == Record(d, c)
         IN  /\ t \in Seq(Seq(Scores(Word)))
             /\ d \in 1 .. Len(sent) => Len(t) = Len(sent) /\ t[d] = Append(sent[d], c)
             /\ d = Len(sent) + 1 => Len(t) = d /\ t[d] = <<c>>
             /\ \A i \in 1 .. Len(sent) : i # d => t[i] = sent[i]
<1> DEFINE s == sent
           n == Len(s)
           t == Record(d, c)
<1>1. n \in Nat /\ DOMAIN s = 1 .. n /\ \A i \in 1 .. n : s[i] \in Seq(Scores(Word))
  BY LenProperties, ElementOfSeq
<1>2. CASE d \in 1 .. n
  <2>1. t = [s EXCEPT ![d] = Append(s[d], c)]
    <3>1. ~(d > Len(sent))
      BY <1>1, <1>2
    <3> QED
      BY <3>1 DEF Record
  <2>2. Append(s[d], c) \in Seq(Scores(Word))
    BY <1>1, <1>2, AppendProperties
  <2> DEFINE e == Append(s[d], c)
  <2> HIDE DEF t, e
  <2>3. t \in [1 .. n -> Seq(Scores(Word))] /\ t[d] = e /\ \A i \in 1 .. n : i # d => t[i] = s[i]
    <3>1. s = [i \in 1 .. n |-> s[i]]
      BY <1>1
    <3> QED
      BY <1>1, <1>2, <2>1, <2>2, <3>1 DEF e
  <2>4. t \in Seq(Seq(Scores(Word))) /\ Len(t) = n
    <3>1. t \in Seq(Seq(Scores(Word)))
      BY <1>1, <2>3, FunctionIsSeq
    <3>2. DOMAIN t = 1 .. n /\ DOMAIN t = 1 .. Len(t) /\ Len(t) \in Nat
      BY <2>3, <3>1, LenProperties
    <3> QED
      BY <1>1, <3>1, <3>2
  <2>5. d # n + 1
    BY <1>1, <1>2
  <2> QED
    BY <2>3, <2>4, <2>5 DEF t, e
<1>3. CASE d = n + 1
  <2>1. t = Append(s, <<c>>)
    BY <1>1, <1>3 DEF Record
  <2>2. <<c>> \in Seq(Scores(Word))
    OBVIOUS
  <2> DEFINE e == <<c>>
  <2> HIDE DEF t, e
  <2>3. e \in Seq(Scores(Word)) /\ t = Append(s, e)
    BY <2>1, <2>2 DEF e
  <2>4. /\ t \in Seq(Seq(Scores(Word))) /\ Len(t) = n + 1 /\ t[n + 1] = e
        /\ \A i \in 1 .. n : t[i] = s[i]
    BY <2>3, AppendProperties
  <2>5. d \notin 1 .. n
    BY <1>1, <1>3
  <2> QED
    BY <1>3, <2>4, <2>5 DEF t, e
<1> QED
  BY <1>1, <1>2, <1>3

\* INDEX_REQUEST accepted.
Accepted(w, q, b) ==
  LET r == DecodeIndexRequest(b)
  IN  /\ r.ok
      /\ PutDocument(w, FullPath(r.fields[2], r.fields[3]))
      /\ left' = [left EXCEPT ![w] = WordCountsOf(r)]
      /\ sent' = Record(docNum'[w], WordCountsOf(r))
      /\ asked' = [asked EXCEPT ![w] =
                     [q |-> q, whole |-> b = EncodeIndexRequest(q.id, q.path, q.terms)]]
      /\ answer' = [answer EXCEPT ![w] = None]
      /\ pc' = [pc EXCEPT ![w] = "update"]

\* INDEX_REQUEST refused.
Refused(w, q, b) ==
  /\ ~DecodeIndexRequest(b).ok
  /\ Send(w, DecodeIndexReply(IndexReply(1)), b = EncodeIndexRequest(q.id, q.path, q.terms))
  /\ UNCHANGED <<documents, indexing, pc, asked, sent>>

\* An INDEX_REQUEST is accepted or refused.
LEMMA ReceiveIndexCases ==
  ASSUME NEW w \in Worker, ReceiveIndex(w)
  PROVE  /\ Serve(w) /\ UNCHANGED <<termInvertedIndex, searching, acked>>
         /\ \E q \in Requests : \E b \in Payloads(EncodeIndexRequest(q.id, q.path, q.terms)) :
              Accepted(w, q, b) \/ Refused(w, q, b)
BY DEF ReceiveIndex, Accepted, Refused

\* A request more has been served.
LEMMA ServeType ==
  ASSUME WorkersInv, NEW w, Serve(w)
  PROVE  requests' \in 0 .. MaxRequests
BY BoundsAssumption DEF Serve, WorkersInv, Typed

\* What it puts in the store and keeps of an accepted request is what the client meant.
LEMMA AcceptedPuts ==
  ASSUME WorkersInv, NEW w \in Worker, NEW q \in Requests,
         NEW b \in Payloads(EncodeIndexRequest(q.id, q.path, q.terms)), Accepted(w, q, b)
  PROVE  LET c == WordCountsOf(DecodeIndexRequest(b))
         IN  /\ b = EncodeIndexRequest(q.id, q.path, q.terms)
             /\ PutDocument(w, FullPath(q.id, q.path)) /\ FullPath(q.id, q.path) \in Seq(Byte)
             /\ c \in Scores(Word)
             /\ DOMAIN c = {q.terms[i].term : i \in 1 .. Len(q.terms)}
             /\ \A k \in DOMAIN c : [term |-> k, frequency |-> c[k]] \in Range(q.terms)
<1>1. DecodeIndexRequest(b).ok /\ PutDocument(w, FullPath(DecodeIndexRequest(b).fields[2], DecodeIndexRequest(b).fields[3]))
  BY DEF Accepted
<1>2. /\ b = EncodeIndexRequest(q.id, q.path, q.terms)
      /\ DecodeIndexRequest(b).fields[2] = q.id /\ DecodeIndexRequest(b).fields[3] = q.path
  BY <1>1, IndexRequestRead
<1>3. FullPath(q.id, q.path) \in Seq(Byte)
  BY RequestType DEF IsString
<1> QED
  BY <1>1, <1>2, <1>3, WordCountsRead

\* Accepting a request keeps the invariant of the workers.
LEMMA AcceptedTyped ==
  ASSUME WorkersInv, NEW w \in Worker, NEW q \in Requests,
         NEW b \in Payloads(EncodeIndexRequest(q.id, q.path, q.terms)), Accepted(w, q, b),
         Serve(w), UNCHANGED <<termInvertedIndex, searching, acked>>
  PROVE  WorkersInv'
<1> DEFINE c == WordCountsOf(DecodeIndexRequest(b))
           path == FullPath(q.id, q.path)
<1>1. /\ b = EncodeIndexRequest(q.id, q.path, q.terms)
      /\ PutDocument(w, path) /\ path \in Seq(Byte)
      /\ c \in Scores(Word)
      /\ \A k \in DOMAIN c : [term |-> k, frequency |-> c[k]] \in Range(q.terms)
  BY AcceptedPuts
<1>2. /\ left' = [left EXCEPT ![w] = c] /\ sent' = Record(docNum'[w], c)
      /\ asked' = [asked EXCEPT ![w] = [q |-> q, whole |-> b = EncodeIndexRequest(q.id, q.path, q.terms)]]
      /\ answer' = [answer EXCEPT ![w] = [fields |-> <<>>, whole |-> TRUE]]
      /\ pc' = [pc EXCEPT ![w] = "update"]
      /\ pc[w] = "receive"
      /\ UNCHANGED <<termInvertedIndex, terms, at, docScores, acked>>
  BY DEF Accepted, None, Serve, searching
<1> HIDE DEF c, path
<1>3. /\ documents' \in Seq(Seq(Byte)) /\ docNum' \in [Worker -> Nat]
      /\ \A d \in Doc : d \in Doc' /\ documents'[d] = documents[d]
      /\ docNum'[w] \in Doc' /\ documents'[docNum'[w]] = path
      /\ \A v \in Worker : v # w => docNum'[v] = docNum[v]
      /\ \/ UNCHANGED documents /\ docNum'[w] \in Doc
         \/ Len(documents') = Len(documents) + 1 /\ docNum'[w] = Len(documents) + 1
  BY <1>1, PutDocumentPuts
<1>4. Typed'
  <2>1. Doc \subseteq Doc'
    BY <1>3
  <2>2. termInvertedIndex' \in [Word -> Seq(Postings(Doc'))]
    <3>1. \A k \in Word : termInvertedIndex[k] \in Seq(Postings(Doc'))
      BY <2>1, PostingsGrow DEF WorkersInv, Typed
    <3> QED
      BY <1>2, <3>1 DEF WorkersInv, Typed
  <2>3. left' \in [Worker -> Scores(Word)]
    BY <1>1, <1>2 DEF WorkersInv, Typed
  <2>4. docScores' \in [Worker -> Scores(Doc')]
    BY <1>2, <2>1, ScoresGrow DEF WorkersInv, Typed
  <2>5. sent' \in Seq(Seq(Scores(Word))) /\ Len(sent') = Len(documents')
    <3>1. sent \in Seq(Seq(Scores(Word))) /\ Len(sent) = Len(documents) /\ Len(sent) \in Nat
      BY LenProperties DEF WorkersInv, Typed
    <3>2. Doc = 1 .. Len(sent)
      BY <3>1, LenProperties DEF WorkersInv, Typed, Doc
    <3>3. \/ UNCHANGED documents /\ docNum'[w] \in 1 .. Len(sent)
          \/ Len(documents') = Len(sent) + 1 /\ docNum'[w] = Len(sent) + 1
      BY <1>3, <3>1, <3>2
    <3>4. docNum'[w] \in 1 .. Len(sent) + 1
      BY <3>1, <3>3
    <3>5. LET t == Record(docNum'[w], c)
          IN  /\ t \in Seq(Seq(Scores(Word)))
              /\ docNum'[w] \in 1 .. Len(sent) => Len(t) = Len(sent)
              /\ docNum'[w] = Len(sent) + 1 => Len(t) = docNum'[w]
      BY <1>1, <3>1, <3>4, Recorded
    <3> QED
      BY <1>2, <3>1, <3>3, <3>5
  <2>6. answer' = [v \in Worker |-> [fields |-> answer'[v].fields, whole |-> answer'[v].whole]]
    BY <1>2, AnswerType DEF WorkersInv
  <2>7. requests' \in 0 .. MaxRequests
    BY ServeType
  <2>8. acked' \subseteq Doc' \X Word
    BY <1>2, <2>1 DEF WorkersInv, Typed
  <2>9. /\ pc' \in [Worker -> {"receive", "update", "lookup", "deaf"}]
        /\ terms' \in [Worker -> Seq(Word)] /\ at' \in [Worker -> Nat] /\ DOMAIN asked' = Worker
    BY <1>2 DEF WorkersInv, Typed
  <2> QED
    BY <1>3, <2>2, <2>3, <2>4, <2>5, <2>6, <2>7, <2>8, <2>9 DEF Typed
<1>5. /\ answer'[w].fields = <<>> /\ answer'[w].whole = TRUE
      /\ \A v \in Worker : v # w => answer'[v] = answer[v]
  BY <1>2, AnswerType DEF WorkersInv
<1>6. /\ pc'[w] = "update" /\ left'[w] = c /\ asked'[w].q = q /\ asked'[w].whole
      /\ \A v \in Worker : v # w => pc'[v] = pc[v] /\ left'[v] = left[v] /\ asked'[v] = asked[v]
  BY <1>1, <1>2 DEF WorkersInv, Typed
<1>7. ASSUME NEW v \in Worker, v # w PROVE Serving(v)' /\ Understood(v)'
  <2>1. KeptFor(v)
    BY <1>2, <1>3, <1>5, <1>6, <1>7 DEF KeptFor
  <2> QED
    BY <2>1, OthersKept DEF WorkersInv
<1>8. Serving(w)'
  <2>1. Serving(w)
    BY DEF WorkersInv
  <2> QED
    BY <1>2, <1>3, <1>6, <2>1 DEF Serving
<1>9. Understood(w)'
  <2>1. <<>> # <<INDEX_REPLY, 1>>
    BY DEF INDEX_REPLY
  <2> QED
    BY <1>1, <1>3, <1>5, <1>6, <2>1 DEF Understood, path
<1> QED
  BY <1>4, <1>7, <1>8, <1>9 DEF WorkersInv

\* Refusing a request keeps it: the client is told status 1.
LEMMA RefusedTyped ==
  ASSUME WorkersInv, NEW w \in Worker, NEW q \in Requests,
         NEW b \in Payloads(EncodeIndexRequest(q.id, q.path, q.terms)), Refused(w, q, b),
         Serve(w), UNCHANGED <<termInvertedIndex, searching, acked>>
  PROVE  WorkersInv'
<1> DEFINE r == DecodeIndexReply(IndexReply(1))
           F == <<INDEX_REPLY, 1>>
<1>1. ~(b = EncodeIndexRequest(q.id, q.path, q.terms))
  BY IndexRequestRead DEF Refused
<1>2. r.ok /\ r.fields = F
  BY Numbers, IndexReplyRead
<1> HIDE DEF F
<1>3. /\ answer' = [answer EXCEPT ![w] = [fields |-> F, whole |-> FALSE]]
      /\ UNCHANGED <<documents, docNum, left, pc, asked, sent, termInvertedIndex, terms, at,
                     docScores, acked>>
  <2>1. answer' = [answer EXCEPT ![w] = [fields |-> F, whole |-> (b = EncodeIndexRequest(q.id, q.path, q.terms))]]
    BY <1>2 DEF Refused, Send
  <2>2. (b = EncodeIndexRequest(q.id, q.path, q.terms)) = FALSE
    BY <1>1
  <2> QED
    BY <2>1, <2>2 DEF Refused, indexing, searching
<1>4. /\ answer' = [v \in Worker |-> [fields |-> answer'[v].fields, whole |-> answer'[v].whole]]
      /\ answer'[w].fields = F /\ answer'[w].whole = FALSE
      /\ \A v \in Worker : v # w => answer'[v] = answer[v]
  BY <1>3, AnswerType DEF WorkersInv
<1>5. Typed'
  BY <1>3, <1>4, ServeType DEF WorkersInv, Typed, Doc
<1>6. ASSUME NEW v \in Worker, v # w PROVE Serving(v)' /\ Understood(v)'
  <2>1. KeptFor(v)
    BY <1>3, <1>4, <1>6 DEF KeptFor, Doc
  <2> QED
    BY <2>1, OthersKept DEF WorkersInv
<1>7. pc[w] = "receive" /\ Serving(w)
  BY DEF Serve, WorkersInv
<1>8. Serving(w)' /\ Understood(w)'
  BY <1>3, <1>4, <1>7 DEF Serving, Understood, F, Doc
<1> QED
  BY <1>5, <1>6, <1>8 DEF WorkersInv

\* INDEX_REQUEST keeps the invariant of the workers.
LEMMA ReceiveIndexTyped ==
  ASSUME WorkersInv, NEW w \in Worker, ReceiveIndex(w)
  PROVE  WorkersInv'
BY ReceiveIndexCases, AcceptedTyped, RefusedTyped

\* What updateIndex's loop does for the word k.
UpdateWord(w, k) ==
  /\ termInvertedIndex' = [termInvertedIndex EXCEPT ![k] = AddUnchecked(@, docNum[w], left[w][k])]
  /\ left' = [left EXCEPT ![w] = [j \in DOMAIN @ \ {k} |-> @[j]]]

\* What a turn of updateIndex changes: one posting list, and the word it was for.
LEMMA UpdateCases ==
  ASSUME WorkersInv, NEW w \in Worker, Update(w)
  PROVE  /\ pc[w] = "update" /\ docNum[w] \in Doc
         /\ UNCHANGED <<documents, pc, docNum, searching, answer, requests, history>>
         /\ \E k \in DOMAIN left[w] :
              /\ k \in Word /\ left[w][k] \in Nat /\ UpdateWord(w, k)
              /\ left'[w] = [j \in DOMAIN left[w] \ {k} |-> left[w][j]]
              /\ left'[w] \in Scores(Word)
              /\ \A v \in Worker : v # w => left'[v] = left[v]
              /\ termInvertedIndex'[k] = AddUnchecked(termInvertedIndex[k], docNum[w], left[w][k])
              /\ \A j \in Word : j # k => termInvertedIndex'[j] = termInvertedIndex[j]
<1>1. pc[w] = "update" /\ docNum[w] \in Doc
      /\ UNCHANGED <<documents, pc, docNum, searching, answer, requests, history>>
  BY DEF Update, WorkersInv, Serving
<1>2. PICK k \in DOMAIN left[w] : UpdateWord(w, k)
  BY DEF Update, UpdateWord
<1>3. left[w] \in Scores(Word) /\ DOMAIN left = Worker /\ DOMAIN termInvertedIndex = Word
  BY DEF WorkersInv, Typed
<1>4. k \in Word /\ left[w][k] \in Nat
  BY <1>2, <1>3, ScoresType
<1> DEFINE c == [j \in DOMAIN left[w] \ {k} |-> left[w][j]]
<1>5. c \in Scores(Word)
  <2>1. DOMAIN left[w] \ {k} \in SUBSET Word /\ c \in [DOMAIN left[w] \ {k} -> Nat]
    BY <1>3, ScoresType
  <2> QED
    BY <2>1 DEF Scores
<1>6. left' = [left EXCEPT ![w] = c]
  BY <1>2 DEF UpdateWord
<1> HIDE DEF c
<1>7. left'[w] = c /\ \A v \in Worker : v # w => left'[v] = left[v]
  BY <1>3, <1>6
<1>8. /\ termInvertedIndex'[k] = AddUnchecked(termInvertedIndex[k], docNum[w], left[w][k])
      /\ \A j \in Word : j # k => termInvertedIndex'[j] = termInvertedIndex[j]
  BY <1>2, <1>3, <1>4 DEF UpdateWord
<1> QED
  BY <1>1, <1>2, <1>4, <1>5, <1>7, <1>8 DEF c

\* A turn of updateIndex keeps the invariant of the workers.
LEMMA UpdateTyped ==
  ASSUME WorkersInv, NEW w \in Worker, Update(w)
  PROVE  WorkersInv'
<1>1. PICK k \in DOMAIN left[w] :
        /\ k \in Word /\ left[w][k] \in Nat /\ UpdateWord(w, k)
        /\ left'[w] = [j \in DOMAIN left[w] \ {k} |-> left[w][j]]
        /\ left'[w] \in Scores(Word)
        /\ \A v \in Worker : v # w => left'[v] = left[v]
        /\ termInvertedIndex'[k] = AddUnchecked(termInvertedIndex[k], docNum[w], left[w][k])
  BY UpdateCases
<1>2. pc[w] = "update" /\ docNum[w] \in Doc
      /\ UNCHANGED <<documents, pc, docNum, terms, at, docScores, answer, requests, asked, sent, acked>>
  BY UpdateCases DEF searching, history
<1>3. Typed'
  <2>1. Doc' = Doc
    BY <1>2 DEF Doc
  <2>2. AddUnchecked(termInvertedIndex[k], docNum[w], left[w][k]) \in Seq(Postings(Doc))
    <3>1. termInvertedIndex[k] \in Seq(Postings(Doc))
      BY <1>1 DEF WorkersInv, Typed
    <3> QED
      BY <1>1, <1>2, <3>1, AddUncheckedCases
  <2>3. termInvertedIndex' \in [Word -> Seq(Postings(Doc))]
    BY <1>1, <2>2 DEF WorkersInv, Typed, UpdateWord
  <2>4. left' \in [Worker -> Scores(Word)]
    <3>1. left' = [left EXCEPT ![w] = left'[w]]
      BY <1>1 DEF UpdateWord, WorkersInv, Typed
    <3> QED
      BY <1>1, <3>1 DEF WorkersInv, Typed
  <2> QED
    BY <1>2, <2>1, <2>3, <2>4 DEF WorkersInv, Typed
<1>4. ASSUME NEW v \in Worker, v # w PROVE Serving(v)' /\ Understood(v)'
  <2>1. KeptFor(v)
    BY <1>1, <1>2, <1>4 DEF KeptFor, Doc
  <2> QED
    BY <2>1, OthersKept DEF WorkersInv
<1>5. Serving(w)'
  BY <1>2 DEF WorkersInv, Serving, Doc
<1>6. Understood(w)'
  <2>1. Understood(w)
    BY DEF WorkersInv
  <2>2. \A j \in DOMAIN left'[w] : j \in DOMAIN left[w] /\ left'[w][j] = left[w][j]
    BY <1>1
  <2> QED
    BY <1>2, <2>1, <2>2 DEF Understood
<1> QED
  BY <1>3, <1>4, <1>5, <1>6 DEF WorkersInv

\* INDEX_REPLY keeps it: the client reads status 0.
LEMMA ReplyIndexTyped ==
  ASSUME WorkersInv, NEW w \in Worker, ReplyIndex(w)
  PROVE  WorkersInv'
<1> DEFINE r == DecodeIndexReply(IndexReply(0))
           F == <<INDEX_REPLY, 0>>
<1>1. r.ok /\ r.fields = F
  BY Numbers, IndexReplyRead
<1>2. F # <<INDEX_REPLY, 1>>
  OBVIOUS
<1> HIDE DEF F
<1>3. /\ pc[w] = "update" /\ left[w] = NoScores
      /\ answer' = [answer EXCEPT ![w] = [fields |-> F, whole |-> asked[w].whole]]
      /\ acked' = acked \union Words(w)
      /\ docNum' = [docNum EXCEPT ![w] = 0]
      /\ asked' = [asked EXCEPT ![w] = <<>>]
      /\ pc' = [pc EXCEPT ![w] = "receive"]
      /\ UNCHANGED <<documents, termInvertedIndex, left, terms, at, docScores, requests, sent>>
  BY <1>1 DEF ReplyIndex, Send, store, searching
<1>4. /\ answer' = [v \in Worker |-> [fields |-> answer'[v].fields, whole |-> answer'[v].whole]]
      /\ answer'[w].fields = F /\ answer'[w].whole = asked[w].whole
      /\ \A v \in Worker : v # w => answer'[v] = answer[v]
  BY <1>3, AnswerType DEF WorkersInv
<1>5. /\ docNum[w] \in Doc /\ asked[w].q \in Requests /\ asked[w].whole
  BY <1>3 DEF WorkersInv, Serving, Understood
<1>6. Words(w) \subseteq Doc \X Word
  <2>1. \A i \in DOMAIN asked[w].q.terms : asked[w].q.terms[i].term \in Word
    BY <1>5, RequestType
  <2>2. \A t \in Range(asked[w].q.terms) : t.term \in Word
    BY <2>1 DEF Range
  <2> QED
    BY <1>5, <2>2 DEF Words
<1>7. Typed'
  BY <1>3, <1>4, <1>6 DEF WorkersInv, Typed, Doc
<1>8. /\ pc'[w] = "receive" /\ docNum'[w] = 0
      /\ \A v \in Worker : v # w => pc'[v] = pc[v] /\ docNum'[v] = docNum[v] /\ asked'[v] = asked[v]
  BY <1>3 DEF WorkersInv, Typed
<1>9. ASSUME NEW v \in Worker, v # w PROVE Serving(v)' /\ Understood(v)'
  <2>1. KeptFor(v)
    BY <1>3, <1>4, <1>8, <1>9 DEF KeptFor, Doc
  <2> QED
    BY <2>1, OthersKept DEF WorkersInv
<1>10. Serving(w)'
  BY <1>3, <1>8 DEF WorkersInv, Serving
<1>11. Understood(w)'
  BY <1>2, <1>4, <1>5, <1>8 DEF Understood
<1> QED
  BY <1>7, <1>9, <1>10, <1>11 DEF WorkersInv

\* What a client of a search is owed.
OwedFor(q) == {d \in DOMAIN documents : \A i \in DOMAIN q : <<d, q[i]>> \in acked}

\* A worker looks up the terms the client meant, or none.
LEMMA ReceiveSearchCases ==
  ASSUME WorkersInv, NEW w \in Worker, ReceiveSearch(w)
  PROVE  /\ Serve(w)
         /\ answer' = [answer EXCEPT ![w] = None]
         /\ pc' = [pc EXCEPT ![w] = "lookup"]
         /\ UNCHANGED <<store, indexing, at, docScores, sent, acked>>
         /\ \E q \in Query : \E whole \in BOOLEAN :
              /\ terms' = [terms EXCEPT ![w] = IF whole THEN q ELSE <<>>]
              /\ asked' = [asked EXCEPT ![w] = [q |-> q, whole |-> whole, owed |-> OwedFor(q)]]
<1>0. PICK q \in Query : \E b \in Payloads(EncodeSearchRequest(q)) :
        /\ terms' = [terms EXCEPT ![w] = IF DecodeSearchRequest(b).ok
                                           THEN TermsOf(DecodeSearchRequest(b)) ELSE <<>>]
        /\ asked' = [asked EXCEPT ![w] = [q |-> q, whole |-> b = EncodeSearchRequest(q), owed |-> OwedFor(q)]]
  BY DEF ReceiveSearch, OwedFor
<1>1. PICK b \in Payloads(EncodeSearchRequest(q)) :
        /\ terms' = [terms EXCEPT ![w] = IF DecodeSearchRequest(b).ok
                                           THEN TermsOf(DecodeSearchRequest(b)) ELSE <<>>]
        /\ asked' = [asked EXCEPT ![w] = [q |-> q, whole |-> b = EncodeSearchRequest(q), owed |-> OwedFor(q)]]
  BY <1>0
<1> DEFINE whole == b = EncodeSearchRequest(q)
           t == IF DecodeSearchRequest(b).ok THEN TermsOf(DecodeSearchRequest(b)) ELSE <<>>
<1>2. t = IF whole THEN q ELSE <<>>
  <2>1. /\ DecodeSearchRequest(b).ok <=> whole /\ Len(q) > 0
        /\ DecodeSearchRequest(b).ok => TermsOf(DecodeSearchRequest(b)) = q
    BY SearchRequestRead
  <2>2. Len(q) \in Nat /\ (Len(q) = 0 => q = <<>>)
    BY QueryType, EmptySeq
  <2> QED
    BY <2>1, <2>2
<1>3. whole \in BOOLEAN
  OBVIOUS
<1> QED
  BY <1>1, <1>2, <1>3 DEF ReceiveSearch

\* SEARCH_REQUEST keeps the invariant of the workers.
LEMMA ReceiveSearchTyped ==
  ASSUME WorkersInv, NEW w \in Worker, ReceiveSearch(w)
  PROVE  WorkersInv'
<1>1. PICK q \in Query, whole \in BOOLEAN :
        /\ terms' = [terms EXCEPT ![w] = IF whole THEN q ELSE <<>>]
        /\ asked' = [asked EXCEPT ![w] = [q |-> q, whole |-> whole, owed |-> OwedFor(q)]]
  BY ReceiveSearchCases
<1>2. /\ answer' = [answer EXCEPT ![w] = [fields |-> <<>>, whole |-> TRUE]]
      /\ pc' = [pc EXCEPT ![w] = "lookup"] /\ pc[w] = "receive"
      /\ UNCHANGED <<documents, termInvertedIndex, docNum, left, at, docScores, sent, acked>>
  BY ReceiveSearchCases DEF None, store, indexing, Serve
<1>3. /\ answer' = [v \in Worker |-> [fields |-> answer'[v].fields, whole |-> answer'[v].whole]]
      /\ answer'[w].fields = <<>> /\ answer'[w].whole = TRUE
      /\ \A v \in Worker : v # w => answer'[v] = answer[v]
  BY <1>2, AnswerType DEF WorkersInv
<1> DEFINE t == IF whole THEN q ELSE <<>>
<1>4. t \in Seq(Word)
  BY QueryType, EmptySeq
<1>5. Typed'
  <2>1. requests' \in 0 .. MaxRequests
    BY ReceiveSearchCases, ServeType
  <2>2. terms' \in [Worker -> Seq(Word)] /\ DOMAIN asked' = Worker
    BY <1>1, <1>4 DEF WorkersInv, Typed
  <2> QED
    BY <1>2, <1>3, <2>1, <2>2 DEF WorkersInv, Typed, Doc
<1> HIDE DEF t
<1>6. /\ terms'[w] = t /\ asked'[w].q = q /\ asked'[w].whole = whole /\ pc'[w] = "lookup"
      /\ \A v \in Worker : v # w => terms'[v] = terms[v] /\ asked'[v] = asked[v] /\ pc'[v] = pc[v]
  BY <1>1, <1>2 DEF WorkersInv, Typed, t
<1>7. ASSUME NEW v \in Worker, v # w PROVE Serving(v)' /\ Understood(v)'
  <2>1. KeptFor(v)
    BY <1>2, <1>3, <1>6, <1>7 DEF KeptFor, Doc
  <2> QED
    BY <2>1, OthersKept DEF WorkersInv
<1>8. Serving(w)'
  <2>1. Serving(w)
    BY DEF WorkersInv
  <2>2. docNum[w] = 0 /\ left[w] = NoScores /\ at[w] = 1 /\ docScores[w] = NoScores
    BY <1>2, <2>1 DEF Serving
  <2>3. 1 \in 1 .. Len(t) + 1
    BY <1>4, LenProperties
  <2> QED
    BY <1>2, <1>6, <2>2, <2>3 DEF Serving
<1>9. Understood(w)'
  <2>1. <<>> # <<INDEX_REPLY, 1>>
    BY DEF INDEX_REPLY
  <2> QED
    BY <1>3, <1>6, <2>1 DEF Understood, t
<1> QED
  BY <1>5, <1>7, <1>8, <1>9 DEF WorkersInv

\* The intersection of scores is scores.
LEMMA IntersectType ==
  ASSUME NEW D, NEW f \in Scores(D), NEW g \in Scores(D)
  PROVE  Intersect(f, g) \in Scores(D)
<1> DEFINE E == DOMAIN f \intersect DOMAIN g
<1>1. E \in SUBSET D /\ \A d \in E : f[d] \in Nat /\ g[d] \in Nat
  BY ScoresType
<1>2. Intersect(f, g) \in [E -> Nat]
  BY <1>1 DEF Intersect
<1> QED
  BY <1>1, <1>2 DEF Scores

\* The documents of the terms looked up so far, after one more.
NextScores(w) ==
  LET current == LastFreqs(termInvertedIndex[terms[w][at[w]]])
  IN  IF at[w] = 1 THEN current ELSE Intersect(docScores[w], current)

\* What a turn of the lookup changes.
LEMMA LookupTermCases ==
  ASSUME WorkersInv, NEW w \in Worker, LookupTerm(w)
  PROVE  /\ pc[w] = "lookup" /\ at[w] \in 1 .. Len(terms[w]) /\ Len(terms[w]) \in Nat
         /\ terms[w][at[w]] \in Word
         /\ UNCHANGED <<store, pc, indexing, terms, answer, requests, history>>
         /\ NextScores(w) \in Scores(Doc)
         /\ docScores' = [docScores EXCEPT ![w] = NextScores(w)]
         /\ docScores'[w] = NextScores(w)
         /\ at'[w] = IF DOMAIN NextScores(w) = {} THEN Len(terms[w]) + 1 ELSE at[w] + 1
         /\ at' \in [Worker -> Nat]
         /\ \A v \in Worker : v # w => at'[v] = at[v] /\ docScores'[v] = docScores[v]
<1>1. /\ pc[w] = "lookup" /\ at[w] <= Len(terms[w])
      /\ UNCHANGED <<store, pc, indexing, terms, answer, requests, history>>
      /\ docScores' = [docScores EXCEPT ![w] = NextScores(w)]
      /\ at' = [at EXCEPT ![w] = IF DOMAIN NextScores(w) = {} THEN Len(terms[w]) + 1 ELSE @ + 1]
  BY DEF LookupTerm, NextScores
<1>2. /\ terms[w] \in Seq(Word) /\ at \in [Worker -> Nat] /\ at[w] \in 1 .. Len(terms[w]) + 1
      /\ docScores \in [Worker -> Scores(Doc)] /\ termInvertedIndex \in [Word -> Seq(Postings(Doc))]
  BY DEF WorkersInv, Typed, Serving
<1>3. Len(terms[w]) \in Nat /\ at[w] \in 1 .. Len(terms[w])
  BY <1>1, <1>2, LenProperties
<1>4. terms[w][at[w]] \in Word
  BY <1>2, <1>3, ElementOfSeq
<1>5. NextScores(w) \in Scores(Doc)
  <2>1. termInvertedIndex[terms[w][at[w]]] \in Seq(Postings(Doc)) /\ docScores[w] \in Scores(Doc)
    BY <1>2, <1>4
  <2>2. LastFreqs(termInvertedIndex[terms[w][at[w]]]) \in Scores(Doc)
    BY <2>1, LastFreqsType
  <2> QED
    BY <2>1, <2>2, IntersectType DEF NextScores
<1> HIDE DEF NextScores
<1> QED
  BY <1>1, <1>2, <1>3, <1>4, <1>5

\* A turn of the lookup keeps the invariant of the workers.
LEMMA LookupTermTyped ==
  ASSUME WorkersInv, NEW w \in Worker, LookupTerm(w)
  PROVE  WorkersInv'
<1> HIDE DEF NextScores
<1>1. /\ pc[w] = "lookup" /\ at[w] \in 1 .. Len(terms[w]) /\ Len(terms[w]) \in Nat
      /\ UNCHANGED <<documents, termInvertedIndex, pc, docNum, left, terms, answer, requests,
                     asked, sent, acked>>
  BY LookupTermCases DEF store, indexing, history
<1>2. /\ NextScores(w) \in Scores(Doc)
      /\ docScores' = [docScores EXCEPT ![w] = NextScores(w)]
      /\ at'[w] = IF DOMAIN NextScores(w) = {} THEN Len(terms[w]) + 1 ELSE at[w] + 1
      /\ at' \in [Worker -> Nat]
      /\ \A v \in Worker : v # w => at'[v] = at[v] /\ docScores'[v] = docScores[v]
  BY LookupTermCases
<1>3. Typed'
  <2>1. docScores' \in [Worker -> Scores(Doc)]
    BY <1>2 DEF WorkersInv, Typed
  <2> QED
    BY <1>1, <1>2, <2>1 DEF WorkersInv, Typed, Doc
<1>4. ASSUME NEW v \in Worker, v # w PROVE Serving(v)' /\ Understood(v)'
  <2>1. KeptFor(v)
    BY <1>1, <1>2, <1>4 DEF KeptFor, Doc
  <2> QED
    BY <2>1, OthersKept DEF WorkersInv
<1>5. Serving(w)'
  <2>1. at'[w] \in 1 .. Len(terms[w]) + 1 /\ at'[w] # 1
    BY <1>1, <1>2
  <2> QED
    BY <1>1, <2>1 DEF WorkersInv, Serving
<1>6. Understood(w)'
  BY <1>1 DEF WorkersInv, Understood
<1> QED
  BY <1>3, <1>4, <1>5, <1>6 DEF WorkersInv

\* The image of a finite set is finite.
LEMMA ImageFinite ==
  ASSUME NEW S, IsFiniteSet(S), NEW f, DOMAIN f = S
  PROVE  /\ IsFiniteSet(Range(f)) /\ Cardinality(Range(f)) \in Nat
         /\ (\A x, y \in S : f[x] = f[y] => x = y) => Cardinality(Range(f)) = Cardinality(S)
<1> DEFINE g == [x \in S |-> f[x]]
<1>1. g \in Surjection(S, Range(f))
  BY DEF Surjection, Range
<1>2. IsFiniteSet(Range(f)) /\ (Cardinality(Range(f)) = Cardinality(S) <=> g \in Injection(S, Range(f)))
  BY <1>1, FS_Surjection
<1>3. (\A x, y \in S : f[x] = f[y] => x = y) => g \in Injection(S, Range(f))
  BY <1>1 DEF Injection, Surjection, IsInjective
<1> QED
  BY <1>2, <1>3, FS_CardinalityType

\* The documents are finitely many.
LEMMA DocFinite == WorkersInv => IsFiniteSet(Doc)
<1> SUFFICES ASSUME WorkersInv PROVE IsFiniteSet(Doc)
  OBVIOUS
<1>1. Doc = 1 .. Len(documents) /\ Len(documents) \in Int /\ 1 \in Int
  BY LenProperties DEF WorkersInv, Typed, Doc
<1> QED
  BY <1>1, FS_Interval

\* The hits of a search: files the server has, with their scores.
LEMMA HitsType ==
  ASSUME WorkersInv, NEW scores \in Scores(Doc)
  PROVE  LET S == Hits(scores)
         IN  /\ S \subseteq Hit /\ IsFiniteSet(S) /\ Cardinality(S) \in Nat
             /\ DOMAIN scores = {} => S = {} /\ Cardinality(S) = 0
<1> DEFINE f == [d \in DOMAIN scores |-> [path |-> GetDocument(d), freq |-> scores[d]]]
<1>1. DOMAIN scores \subseteq Doc /\ \A d \in DOMAIN scores : scores[d] \in Nat
  BY ScoresType
<1>2. IsFiniteSet(DOMAIN scores)
  BY <1>1, DocFinite, FS_Subset
<1>3. Hits(scores) = Range(f)
  BY DEF Hits, Range
<1>4. DOMAIN f = DOMAIN scores
  OBVIOUS
<1>5. ASSUME NEW d \in DOMAIN scores PROVE f[d] \in Hit
  <2>1. d \in Doc /\ Doc = 1 .. Len(documents) /\ documents \in Seq(Seq(Byte))
    BY <1>1, LenProperties DEF WorkersInv, Typed, Doc
  <2>2. GetDocument(d) \in Seq(Byte)
    BY <2>1, ElementOfSeq DEF GetDocument, Doc
  <2> QED
    BY <1>1, <2>2 DEF Hit
<1> HIDE DEF f
<1>6. Range(f) \subseteq Hit
  BY <1>4, <1>5 DEF Range
<1>7. IsFiniteSet(Range(f)) /\ Cardinality(Range(f)) \in Nat
  BY <1>2, <1>4, ImageFinite
<1>8. DOMAIN scores = {} => Range(f) = {} /\ Cardinality(Range(f)) = 0
  BY <1>4, FS_EmptySet DEF Range
<1> QED
  BY <1>3, <1>6, <1>7, <1>8

\* A list of all hits, and the part of it a reply has.
LEMMA OrderListed ==
  ASSUME NEW S \in SUBSET Hit, Cardinality(S) \in Nat, NEW s \in Orders(S), NEW k \in Nat
  PROVE  LET n == IF Len(s) > k THEN k ELSE Len(s)
             part == SubSeq(s, 1, n)
         IN  /\ s \in Seq(Hit) /\ Len(s) = Cardinality(S) /\ n \in 0 .. Len(s)
             /\ part \in Seq(Hit) /\ Len(part) = n /\ \A i \in 1 .. n : part[i] = s[i]
<1> DEFINE n == IF Len(s) > k THEN k ELSE Len(s)
           c == Cardinality(S)
<1>1. s \in [1 .. c -> S] /\ c \in Nat
  BY DEF Orders
<1>2. s \in [1 .. c -> Hit]
  BY <1>1
<1>3. s \in Seq(Hit)
  BY <1>1, <1>2, FunctionIsSeq
<1>4. DOMAIN s = 1 .. c /\ DOMAIN s = 1 .. Len(s) /\ Len(s) \in Nat
  BY <1>2, <1>3, LenProperties
<1>5. Len(s) = c
  BY <1>1, <1>4
<1>6. n \in 0 .. Len(s) /\ n \in Int /\ n \in Nat
  BY <1>4
<1> HIDE DEF n
<1>7. \A i \in 1 .. n : s[i] \in Hit
  BY <1>2, <1>5, <1>6
<1>8. /\ SubSeq(s, 1, n) \in Seq(Hit)
      /\ Len(SubSeq(s, 1, n)) = IF 1 <= n THEN n - 1 + 1 ELSE 0
      /\ \A i \in 1 .. n - 1 + 1 : SubSeq(s, 1, n)[i] = s[1 + i - 1]
  BY <1>6, <1>7, SubSeqProperties
<1>9. Len(SubSeq(s, 1, n)) = n /\ \A i \in 1 .. n : SubSeq(s, 1, n)[i] = s[i]
  <2>1. n - 1 + 1 = n /\ (~(1 <= n) => n = 0) /\ \A i \in 1 .. n : 1 + i - 1 = i
    BY <1>6
  <2> QED
    BY <1>8, <2>1
<1> QED
  BY <1>3, <1>5, <1>6, <1>8, <1>9 DEF n

\* A reply without hits is read as it was written.
LEMMA NoHitsRead ==
  /\ DecodeSearchReply(SearchReply(0, <<>>)).ok
  /\ DecodeSearchReply(SearchReply(0, <<>>)).fields = <<SEARCH_REPLY, 0, 0>>
<1> DEFINE r == DecodeSearchReply(SearchReply(0, <<>>))
           t == <<SEARCH_REPLY, 0, 0>>
           e == <<>>
<1>1. e \in Seq(Hit) /\ Len(e) = 0 /\ 0 \in Nat /\ 0 < Limit
  BY EmptySeq, Numbers
<1>2. \A i \in 1 .. Len(e) : IsString(e[i].path) /\ e[i].freq < Limit
  BY <1>1
<1> HIDE DEF e
<1>3. /\ DecodeSearchReply(SearchReply(0, e)).ok
      /\ DecodeSearchReply(SearchReply(0, e)).fields \in Seq(Field)
      /\ Len(DecodeSearchReply(SearchReply(0, e)).fields) = 3 + 2 * Len(e)
      /\ DecodeSearchReply(SearchReply(0, e)).fields[1] = SEARCH_REPLY
      /\ DecodeSearchReply(SearchReply(0, e)).fields[2] = 0
      /\ DecodeSearchReply(SearchReply(0, e)).fields[3] = Len(e)
  BY <1>1, <1>2, SearchReplyRead
<1>4. /\ r.ok /\ r.fields \in Seq(Field) /\ Len(r.fields) = 3
      /\ r.fields[1] = SEARCH_REPLY /\ r.fields[2] = 0 /\ r.fields[3] = 0
  <2>1. 3 + 2 * 0 = 3
    OBVIOUS
  <2> QED
    BY <1>1, <1>3, <2>1 DEF e
<1> HIDE DEF r
<1>5. t \in Seq(Field) /\ Len(t) = 3 /\ t[1] = SEARCH_REPLY /\ t[2] = 0 /\ t[3] = 0
  <2>1. SEARCH_REPLY \in Field /\ 0 \in Field
    BY DEF Field, SEARCH_REPLY
  <2> HIDE DEF Field
  <2> QED
    BY <2>1
<1> HIDE DEF t
<1>6. \A i \in 1 .. 3 : r.fields[i] = t[i]
  BY <1>4, <1>5
<1>7. r.fields = t
  BY <1>4, <1>5, <1>6, SeqEqual
<1> QED
  BY <1>4, <1>7 DEF r, t

\* What the client of a search makes of the reply.
LEMMA SearchAnswer ==
  ASSUME NEW S \in SUBSET Hit, Cardinality(S) \in Nat, NEW s \in Orders(S), NEW k \in Nat
  PROVE  LET n == IF Len(s) > k THEN k ELSE Len(s)
             r == DecodeSearchReply(SearchReply(Len(s), SubSeq(s, 1, n)))
         IN  /\ r.ok => r.fields # <<INDEX_REPLY, 1>>
             /\ Cardinality(S) = 0 => r.ok /\ r.fields = <<SEARCH_REPLY, 0, 0>>
<1> DEFINE n == IF Len(s) > k THEN k ELSE Len(s)
           part == SubSeq(s, 1, n)
           m == SearchReply(Len(s), part)
<1>1. /\ s \in Seq(Hit) /\ Len(s) = Cardinality(S) /\ n \in 0 .. Len(s)
      /\ part \in Seq(Hit) /\ Len(part) = n
  BY OrderListed
<1> HIDE DEF n, part
<1>2. m \in Seq(Byte)
  BY <1>1, SearchReplyType
<1>3. ASSUME DecodeSearchReply(m).ok
      PROVE  DecodeSearchReply(m).fields # <<INDEX_REPLY, 1>>
  <2>1. Len(DecodeSearchReply(m).fields) >= 3
    BY <1>2, <1>3, SearchReplyLong
  <2>2. Len(<<INDEX_REPLY, 1>>) = 2
    OBVIOUS
  <2>3. ~(2 >= 3)
    OBVIOUS
  <2> QED
    BY <2>1, <2>2, <2>3
<1>4. ASSUME Cardinality(S) = 0
      PROVE  DecodeSearchReply(m).ok /\ DecodeSearchReply(m).fields = <<SEARCH_REPLY, 0, 0>>
  <2>1. Len(s) = 0 /\ part = <<>>
    BY <1>1, <1>4, EmptySeq
  <2> QED
    BY <2>1, NoHitsRead
<1> QED
  BY <1>3, <1>4 DEF n, part, m

\* SEARCH_REPLY keeps the invariant of the workers.
LEMMA ReplySearchTyped ==
  ASSUME WorkersInv, NEW w \in Worker, ReplySearch(w)
  PROVE  WorkersInv'
<1> DEFINE S == Hits(docScores[w])
<1>1. PICK s \in Orders(S) :
        LET n == IF Len(s) > resultLimit THEN resultLimit ELSE Len(s)
        IN  Send(w, DecodeSearchReply(SearchReply(Len(s), SubSeq(s, 1, n))), asked[w].whole)
  BY DEF ReplySearch
<1> DEFINE n == IF Len(s) > resultLimit THEN resultLimit ELSE Len(s)
           r == DecodeSearchReply(SearchReply(Len(s), SubSeq(s, 1, n)))
           F == IF r.ok THEN r.fields ELSE <<>>
<1>2. /\ pc[w] = "lookup" /\ at[w] > Len(terms[w])
      /\ answer' = [answer EXCEPT ![w] = [fields |-> F, whole |-> asked[w].whole]]
      /\ terms' = [terms EXCEPT ![w] = <<>>]
      /\ at' = [at EXCEPT ![w] = 1]
      /\ docScores' = [docScores EXCEPT ![w] = NoScores]
      /\ asked' = [asked EXCEPT ![w] = <<>>]
      /\ pc' = [pc EXCEPT ![w] = "receive"]
      /\ UNCHANGED <<documents, termInvertedIndex, docNum, left, requests, sent, acked>>
  BY <1>1 DEF ReplySearch, Send, store, indexing
<1>3. /\ S \subseteq Hit /\ Cardinality(S) \in Nat
      /\ DOMAIN docScores[w] = {} => Cardinality(S) = 0
  BY HitsType DEF WorkersInv, Typed
<1>4. /\ r.ok => r.fields # <<INDEX_REPLY, 1>>
      /\ Cardinality(S) = 0 => r.ok /\ r.fields = <<SEARCH_REPLY, 0, 0>>
  BY <1>3, SearchAnswer, BoundsAssumption
<1> HIDE DEF r, n, S
<1>5. F # <<INDEX_REPLY, 1>>
  <2>1. <<>> # <<INDEX_REPLY, 1>>
    BY DEF INDEX_REPLY
  <2> QED
    BY <1>4, <2>1
<1>6. ASSUME ~asked[w].whole PROVE F = <<SEARCH_REPLY, 0, 0>>
  <2>1. terms[w] = <<>>
    BY <1>2, <1>6 DEF WorkersInv, Understood
  <2>2. at[w] = 1
    BY <2>1, EmptySeq DEF WorkersInv, Serving
  <2>3. DOMAIN docScores[w] = {}
    BY <2>2 DEF WorkersInv, Serving, NoScores
  <2> QED
    BY <1>3, <1>4, <2>3
<1> HIDE DEF F
<1>7. /\ answer' = [v \in Worker |-> [fields |-> answer'[v].fields, whole |-> answer'[v].whole]]
      /\ answer'[w].fields = F /\ answer'[w].whole = asked[w].whole
      /\ \A v \in Worker : v # w => answer'[v] = answer[v]
  BY <1>2, AnswerType DEF WorkersInv
<1>8. /\ pc'[w] = "receive" /\ terms'[w] = <<>> /\ at'[w] = 1 /\ docScores'[w] = NoScores
      /\ \A v \in Worker : v # w => /\ pc'[v] = pc[v] /\ terms'[v] = terms[v] /\ at'[v] = at[v]
                                    /\ docScores'[v] = docScores[v] /\ asked'[v] = asked[v]
  BY <1>2 DEF WorkersInv, Typed
<1>9. Typed'
  <2>1. terms' \in [Worker -> Seq(Word)] /\ at' \in [Worker -> Nat]
    BY <1>2, EmptySeq DEF WorkersInv, Typed
  <2>2. docScores' \in [Worker -> Scores(Doc)]
    BY <1>2, NoScoresType DEF WorkersInv, Typed
  <2>3. pc' \in [Worker -> {"receive", "update", "lookup", "deaf"}] /\ DOMAIN asked' = Worker
    BY <1>2 DEF WorkersInv, Typed
  <2> QED
    BY <1>2, <1>7, <2>1, <2>2, <2>3 DEF WorkersInv, Typed, Doc
<1>10. ASSUME NEW v \in Worker, v # w PROVE Serving(v)' /\ Understood(v)'
  <2>1. KeptFor(v)
    BY <1>2, <1>7, <1>8, <1>10 DEF KeptFor, Doc
  <2> QED
    BY <2>1, OthersKept DEF WorkersInv
<1>11. Serving(w)'
  <2>1. docNum[w] = 0 /\ left[w] = NoScores
    BY <1>2 DEF WorkersInv, Serving
  <2>2. 1 \in 1 .. Len(<<>>) + 1
    OBVIOUS
  <2> QED
    BY <1>2, <1>8, <2>1, <2>2 DEF Serving
<1>12. Understood(w)'
  BY <1>5, <1>6, <1>7, <1>8 DEF Understood
<1> QED
  BY <1>9, <1>10, <1>11, <1>12 DEF WorkersInv

\* A worker that has left a message unanswered serves nothing, and the others go on.
LEMMA SkipTyped ==
  ASSUME WorkersInv, NEW w \in Worker, Skip(w)
  PROVE  WorkersInv'
<1>1. /\ pc[w] = "receive" /\ pc' = [pc EXCEPT ![w] = "deaf"]
      /\ UNCHANGED <<documents, termInvertedIndex, docNum, left, terms, at, docScores, answer,
                     asked, sent, acked>>
  BY DEF Skip, Serve, store, indexing, searching, history
<1>2. /\ pc' \in [Worker -> {"receive", "update", "lookup", "deaf"}] /\ pc'[w] = "deaf"
      /\ \A v \in Worker : v # w => pc'[v] = pc[v]
  BY <1>1 DEF WorkersInv, Typed
<1>3. requests' \in 0 .. MaxRequests
  BY ServeType DEF Skip
<1>4. Typed'
  BY <1>1, <1>2, <1>3 DEF WorkersInv, Typed, Doc
<1>5. ASSUME NEW v \in Worker, v # w PROVE Serving(v)' /\ Understood(v)'
  <2>1. KeptFor(v)
    BY <1>1, <1>2, <1>5 DEF KeptFor, Doc
  <2> QED
    BY <2>1, OthersKept DEF WorkersInv
<1>6. Serving(w) /\ Understood(w)
  BY DEF WorkersInv
<1>7. Serving(w)' /\ Understood(w)'
  BY <1>1, <1>2, <1>6 DEF Serving, Understood
<1> QED
  BY <1>4, <1>5, <1>7 DEF WorkersInv

\* Every step keeps the invariant of the workers.
LEMMA WorkersPreserved == WorkersInv /\ [Next]_vars => WorkersInv'
<1> SUFFICES ASSUME WorkersInv, [Next]_vars PROVE WorkersInv'
  OBVIOUS
<1>1. ASSUME NEW w \in Worker, ReceiveIndex(w) PROVE WorkersInv'
  BY <1>1, ReceiveIndexTyped
<1>2. ASSUME NEW w \in Worker, ReceiveSearch(w) PROVE WorkersInv'
  BY <1>2, ReceiveSearchTyped
<1>3. ASSUME NEW w \in Worker, Step(w) PROVE WorkersInv'
  BY <1>3, UpdateTyped, ReplyIndexTyped, LookupTermTyped, ReplySearchTyped DEF Step
<1>4. ASSUME NEW w \in Worker, Skip(w) PROVE WorkersInv'
  BY <1>4, SkipTyped
<1>5. CASE UNCHANGED vars
  BY <1>5 DEF vars, store, indexing, searching, history, WorkersInv, Typed, Serving, Understood, Doc
<1> QED
  BY <1>1, <1>2, <1>3, <1>4, <1>5 DEF Next

\* Every variable keeps its type, and a worker that updates the index holds a number the
\* store has given and words it can count (IndexStore.cpp:6-44).
THEOREM TypesHold == Spec => []TypeOK
<1>1. WorkersInv => TypeOK
  BY TypedInvImplies
<1> QED
  BY TypedInitially, WorkersPreserved, <1>1, PTL DEF Spec

\* What a worker acts on is what its client meant, whatever is cut off a payload on its way:
\* the codec reads back what it wrote, and refuses anything shorter.
THEOREM Understanding == Spec => []RequestsUnderstood
<1>1. WorkersInv => RequestsUnderstood
  BY TypedInvImplies
<1> QED
  BY TypedInitially, WorkersPreserved, <1>1, PTL DEF Spec

-----------------------------------------------------------------------------
(* Sums.                                                                   *)

\* The pairs that Sum counts.
Units(f) == UNION {{i} \X (1 .. f[i]) : i \in DOMAIN f}

\* The units of a sum.
LEMMA UnitsOf ==
  ASSUME NEW S, NEW f \in [S -> Nat], NEW u
  PROVE  u \in Units(f) <=> \E i \in S : \E n \in 1 .. f[i] : u = <<i, n>>
<1>1. u \in Units(f) <=> \E i \in S : u \in {i} \X (1 .. f[i])
  BY DEF Units
<1>2. \A i : u \in {i} \X (1 .. f[i]) <=> \E n \in 1 .. f[i] : u = <<i, n>>
  OBVIOUS
<1> QED
  BY <1>1, <1>2, Zenon

\* One argument has as many units as its value.
LEMMA Column ==
  ASSUME NEW i, NEW n \in Nat
  PROVE  IsFiniteSet({i} \X (1 .. n)) /\ Cardinality({i} \X (1 .. n)) = n
<1>1. IsFiniteSet({i}) /\ Cardinality({i}) = 1
  BY FS_Singleton
<1>2. IsFiniteSet(1 .. n) /\ Cardinality(1 .. n) = IF 1 > n THEN 0 ELSE n - 1 + 1
  <2>1. 1 \in Int /\ n \in Int
    OBVIOUS
  <2> QED
    BY <2>1, FS_Interval
<1>3. Cardinality(1 .. n) = n
  <2>1. (IF 1 > n THEN 0 ELSE n - 1 + 1) = n
    OBVIOUS
  <2> QED
    BY <1>2, <2>1
<1>4. /\ IsFiniteSet({i} \X (1 .. n))
      /\ Cardinality({i} \X (1 .. n)) = Cardinality({i}) * Cardinality(1 .. n)
  BY <1>1, <1>2, FS_Product
<1>5. 1 * n = n
  OBVIOUS
<1> QED
  BY <1>1, <1>3, <1>4, <1>5

\* A sum over a finite set is a natural number.
LEMMA SumType ==
  ASSUME NEW S, IsFiniteSet(S), NEW f \in [S -> Nat]
  PROVE  IsFiniteSet(Units(f)) /\ Sum(f) = Cardinality(Units(f)) /\ Sum(f) \in Nat
<1> DEFINE g == [i \in S |-> {i} \X (1 .. f[i])]
<1>1. DOMAIN g = S /\ \A i \in S : g[i] = {i} \X (1 .. f[i])
  OBVIOUS
<1>2. \A i \in S : IsFiniteSet(g[i])
  BY Column
<1> HIDE DEF g
<1>3. IsFiniteSet(Range(g)) /\ \A T \in Range(g) : IsFiniteSet(T)
  BY <1>1, <1>2, ImageFinite DEF Range
<1>4. IsFiniteSet(UNION Range(g))
  BY <1>3, FS_UNION
<1>5. Units(f) = UNION Range(g)
  BY <1>1 DEF Units, Range
<1> QED
  BY <1>4, <1>5, FS_CardinalityType DEF Sum, Units

\* A sum of zeros.
LEMMA SumZero ==
  ASSUME NEW S, NEW f \in [S -> Nat], \A i \in S : f[i] = 0
  PROVE  Sum(f) = 0
<1>1. \A i \in S : 1 .. f[i] = {}
  OBVIOUS
<1>2. \A u : u \notin Units(f)
  BY <1>1, UnitsOf
<1>3. Units(f) = {}
  BY <1>2
<1> QED
  BY <1>3, FS_EmptySet DEF Sum, Units

\* A function without one of its arguments.
Without(f, x) == [i \in DOMAIN f \ {x} |-> f[i]]

\* One term taken out of a sum.
LEMMA SumSplit ==
  ASSUME NEW S, IsFiniteSet(S), NEW x \in S, NEW f \in [S -> Nat]
  PROVE  /\ Without(f, x) \in [S \ {x} -> Nat] /\ IsFiniteSet(S \ {x})
         /\ Sum(Without(f, x)) \in Nat /\ Sum(f) = Sum(Without(f, x)) + f[x]
<1> DEFINE T == S \ {x}
           g == [i \in T |-> f[i]]
           C == {x} \X (1 .. f[x])
<1>1. g \in [T -> Nat] /\ \A i \in T : g[i] = f[i]
  OBVIOUS
<1>2. IsFiniteSet(T)
  BY FS_RemoveElement
<1> HIDE DEF g
<1>3. \A u : u \in C <=> \E n \in 1 .. f[x] : u = <<x, n>>
  OBVIOUS
<1>4. \A u : u \in Units(f) <=> u \in Units(g) \/ u \in C
  <2> TAKE u
  <2>1. u \in Units(f) <=> \E i \in S : \E n \in 1 .. f[i] : u = <<i, n>>
    BY UnitsOf
  <2>2. u \in Units(g) <=> \E i \in T : \E n \in 1 .. g[i] : u = <<i, n>>
    BY <1>1, UnitsOf
  <2>3. u \in Units(g) <=> \E i \in T : \E n \in 1 .. f[i] : u = <<i, n>>
    BY <1>1, <2>2
  <2>4. \A i : i \in S <=> i \in T \/ i = x
    OBVIOUS
  <2> HIDE DEF T, C
  <2> QED
    BY <1>3, <2>1, <2>3, <2>4, Zenon
<1>5. Units(g) \intersect C = {}
  <2> SUFFICES ASSUME NEW u \in Units(g), u \in C PROVE FALSE
    OBVIOUS
  <2>1. PICK i \in T : \E n \in 1 .. g[i] : u = <<i, n>>
    BY <1>1, UnitsOf
  <2>2. PICK n, m : u = <<i, n>> /\ u = <<x, m>>
    BY <1>3, <2>1
  <2> QED
    BY <2>2
<1>6. IsFiniteSet(C) /\ Cardinality(C) = f[x]
  BY Column
<1> HIDE DEF C, T
<1>7. IsFiniteSet(Units(g)) /\ Sum(g) = Cardinality(Units(g)) /\ Sum(g) \in Nat
  BY <1>1, <1>2, SumType
<1>8. Units(f) = Units(g) \union C
  BY <1>4
<1>9. Sum(f) = Cardinality(Units(g) \union C)
  BY <1>8 DEF Sum, Units
<1>10. Cardinality(Units(g) \union C) = Cardinality(Units(g)) + Cardinality(C) - Cardinality(Units(g) \intersect C)
  BY <1>6, <1>7, FS_Union
<1>11. Cardinality(Units(g) \intersect C) = 0 /\ f[x] \in Nat
  BY <1>5, FS_EmptySet
<1>12. Cardinality(Units(g) \union C) = Cardinality(Units(g)) + f[x] - 0
  BY <1>6, <1>10, <1>11
<1>13. Sum(f) = Sum(g) + f[x]
  BY <1>7, <1>9, <1>11, <1>12
<1> QED
  <2>1. g = Without(f, x)
    BY DEF g, T, Without
  <2> QED
    BY <1>1, <1>2, <1>7, <1>13, <2>1 DEF T

\* A sum of which one term changes.
LEMMA SumChange ==
  ASSUME NEW S, IsFiniteSet(S), NEW x \in S, NEW f \in [S -> Nat], NEW h \in [S -> Nat],
         \A i \in S : i # x => f[i] = h[i]
  PROVE  Sum(h) + f[x] = Sum(f) + h[x]
<1> DEFINE g == Without(f, x)
           k == Without(h, x)
<1>1. g = k
  BY DEF Without
<1>2. Sum(g) \in Nat /\ Sum(f) = Sum(g) + f[x]
  BY SumSplit
<1>3. Sum(k) \in Nat /\ Sum(h) = Sum(k) + h[x]
  BY SumSplit
<1>4. f[x] \in Nat /\ h[x] \in Nat
  OBVIOUS
<1>5. \A a, b, c \in Nat : (a + b) + c = (a + c) + b
  OBVIOUS
<1> HIDE DEF g, k
<1>6. (Sum(g) + h[x]) + f[x] = (Sum(g) + f[x]) + h[x]
  BY <1>2, <1>4, <1>5
<1> QED
  BY <1>1, <1>2, <1>3, <1>6

\* A sum of smaller terms, or of fewer, is no larger.
LEMMA SumSmaller ==
  ASSUME NEW S, IsFiniteSet(S), NEW T \in SUBSET S, NEW f \in [T -> Nat], NEW h \in [S -> Nat],
         \A i \in T : f[i] <= h[i]
  PROVE  Sum(f) <= Sum(h)
<1>1. \A i \in T : 1 .. f[i] \subseteq 1 .. h[i]
  OBVIOUS
<1>2. ASSUME NEW u \in Units(f) PROVE u \in Units(h)
  <2>1. \E i \in T : \E n \in 1 .. f[i] : u = <<i, n>>
    BY UnitsOf
  <2>2. \E i \in S : \E n \in 1 .. h[i] : u = <<i, n>>
    BY <1>1, <2>1
  <2> QED
    BY <2>2, UnitsOf
<1>3. IsFiniteSet(Units(h)) /\ Sum(h) = Cardinality(Units(h))
  BY SumType
<1>4. Units(f) \in SUBSET Units(h)
  BY <1>2
<1>5. Cardinality(Units(f)) <= Cardinality(Units(h))
  BY <1>3, <1>4, FS_Subset
<1>6. Sum(f) = Cardinality(Units(f))
  BY DEF Sum, Units
<1> QED
  BY <1>3, <1>5, <1>6

\* The terms of a sum over a list with one element more.
LEMMA ListFinite ==
  ASSUME NEW n \in Nat
  PROVE  IsFiniteSet(1 .. n) /\ (1 .. n) \union {n + 1} = 1 .. n + 1 /\ n + 1 \notin 1 .. n
<1>1. IsFiniteSet(1 .. n)
  <2>1. 1 \in Int /\ n \in Int
    OBVIOUS
  <2> QED
    BY <2>1, FS_Interval
<1> QED
  BY <1>1

\* A sum over a list with one element more.
LEMMA ListSumExtend ==
  ASSUME NEW n \in Nat, NEW f \in [1 .. n -> Nat], NEW h \in [1 .. n + 1 -> Nat],
         \A i \in 1 .. n : f[i] = h[i]
  PROVE  Sum(h) = Sum(f) + h[n + 1]
<1> DEFINE T == 1 .. n + 1
           x == n + 1
<1>1. IsFiniteSet(T) /\ x \in T /\ T \ {x} = 1 .. n
  <2>1. n + 1 \in Nat
    OBVIOUS
  <2>2. IsFiniteSet(T)
    BY <2>1, ListFinite
  <2> QED
    BY <2>2
<1>2. f = [i \in 1 .. n |-> f[i]] /\ DOMAIN h = T
  OBVIOUS
<1>3. Without(h, x) = [i \in T \ {x} |-> h[i]]
  BY <1>2 DEF Without
<1> HIDE DEF T, x
<1>4. Without(h, x) = f
  BY <1>1, <1>2, <1>3
<1>5. h \in [T -> Nat]
  BY DEF T
<1>6. Sum(h) = Sum(Without(h, x)) + h[x]
  BY <1>1, <1>5, SumSplit
<1> QED
  BY <1>4, <1>6 DEF x

\* A count is a natural number.
LEMMA CountType ==
  ASSUME NEW D, NEW c \in Scores(D), NEW k
  PROVE  Count(c, k) \in Nat
BY ScoresType DEF Count

\* No words have no count.
LEMMA CountNone == \A k : Count(NoScores, k) = 0
BY DEF Count, NoScores

\* What a list of word counts says of word k, and a posting list of document d.
Terms(s, k) == [i \in DOMAIN s |-> Count(s[i], k)]
TotalIn(s, k) == Sum(Terms(s, k))
Freqs(list, d) == [i \in DOMAIN list |-> IF list[i].doc = d THEN list[i].freq ELSE 0]
PostedIn(list, d) == Sum(Freqs(list, d))

\* Each request has a count of the word, and they have a sum.
LEMMA TermsType ==
  ASSUME NEW s \in Seq(Scores(Word)), NEW k
  PROVE  /\ Terms(s, k) \in [1 .. Len(s) -> Nat] /\ Len(s) \in Nat /\ DOMAIN s = 1 .. Len(s)
         /\ TotalIn(s, k) \in Nat
         /\ \A i \in 1 .. Len(s) : Terms(s, k)[i] = Count(s[i], k) /\ s[i] \in Scores(Word)
<1>1. DOMAIN s = 1 .. Len(s) /\ Len(s) \in Nat /\ \A i \in 1 .. Len(s) : s[i] \in Scores(Word)
  BY LenProperties, ElementOfSeq
<1>2. Terms(s, k) \in [1 .. Len(s) -> Nat]
  BY <1>1, CountType DEF Terms
<1>3. TotalIn(s, k) \in Nat
  BY <1>1, <1>2, ListFinite, SumType DEF TotalIn
<1> QED
  BY <1>1, <1>2, <1>3 DEF Terms

\* One request more adds its count.
LEMMA TotalAppended ==
  ASSUME NEW s \in Seq(Scores(Word)), NEW c \in Scores(Word), NEW k
  PROVE  TotalIn(Append(s, c), k) = TotalIn(s, k) + Count(c, k)
<1> DEFINE n == Len(s)
           t == Append(s, c)
<1>1. /\ t \in Seq(Scores(Word)) /\ Len(t) = n + 1 /\ t[n + 1] = c /\ \A i \in 1 .. n : t[i] = s[i]
  BY AppendProperties
<1> HIDE DEF t
<1>2. /\ Terms(s, k) \in [1 .. n -> Nat] /\ n \in Nat
      /\ \A i \in 1 .. n : Terms(s, k)[i] = Count(s[i], k)
  BY TermsType
<1>3. /\ Terms(t, k) \in [1 .. n + 1 -> Nat]
      /\ \A i \in 1 .. n + 1 : Terms(t, k)[i] = Count(t[i], k)
  <2>1. /\ Terms(t, k) \in [1 .. Len(t) -> Nat]
        /\ \A i \in 1 .. Len(t) : Terms(t, k)[i] = Count(t[i], k)
    BY <1>1, TermsType
  <2> QED
    BY <1>1, <2>1
<1>4. /\ \A i \in 1 .. n : Terms(s, k)[i] = Terms(t, k)[i]
      /\ Terms(t, k)[n + 1] = Count(c, k)
  BY <1>1, <1>2, <1>3
<1>5. Sum(Terms(t, k)) = Sum(Terms(s, k)) + Terms(t, k)[n + 1]
  BY <1>2, <1>3, <1>4, ListSumExtend
<1> QED
  BY <1>4, <1>5 DEF TotalIn, t

\* The total of one request is its count.
LEMMA TotalOfOne ==
  ASSUME NEW c \in Scores(Word), NEW k
  PROVE  TotalIn(<<c>>, k) = Count(c, k)
<1>1. <<>> \in Seq(Scores(Word)) /\ Append(<<>>, c) = <<c>>
  OBVIOUS
<1>2. TotalIn(<<c>>, k) = TotalIn(<<>>, k) + Count(c, k)
  BY <1>1, TotalAppended
<1>3. TotalIn(<<>>, k) = 0
  <2>1. Terms(<<>>, k) \in [{} -> Nat]
    BY DEF Terms
  <2> QED
    BY <2>1, SumZero DEF TotalIn
<1>4. Count(c, k) \in Nat
  BY CountType
<1> QED
  BY <1>2, <1>3, <1>4

\* Each posting has a share of the document, and they have a sum.
LEMMA FreqsType ==
  ASSUME NEW D, NEW list \in Seq(Postings(D)), NEW d
  PROVE  /\ Freqs(list, d) \in [1 .. Len(list) -> Nat] /\ Len(list) \in Nat
         /\ DOMAIN list = 1 .. Len(list)
         /\ PostedIn(list, d) \in Nat
         /\ \A i \in 1 .. Len(list) :
              /\ list[i] \in Postings(D) /\ list[i].freq \in Nat /\ list[i].doc \in D
              /\ Freqs(list, d)[i] = IF list[i].doc = d THEN list[i].freq ELSE 0
<1>1. DOMAIN list = 1 .. Len(list) /\ Len(list) \in Nat /\ \A i \in 1 .. Len(list) : list[i] \in Postings(D)
  BY LenProperties, ElementOfSeq
<1>2. \A i \in 1 .. Len(list) : list[i].freq \in Nat /\ list[i].doc \in D
  BY <1>1 DEF Postings
<1>3. Freqs(list, d) \in [1 .. Len(list) -> Nat]
  BY <1>1, <1>2 DEF Freqs
<1>4. PostedIn(list, d) \in Nat
  BY <1>1, <1>3, ListFinite, SumType DEF PostedIn
<1> QED
  BY <1>1, <1>2, <1>3, <1>4 DEF Freqs

\* addUnchecked adds the amount to what the list holds of the document, wherever it puts it.
LEMMA PostedAdded ==
  ASSUME NEW D, NEW list \in Seq(Postings(D)), NEW e \in D, NEW m \in Nat, NEW d
  PROVE  PostedIn(AddUnchecked(list, e, m), d) = PostedIn(list, d) + (IF e = d THEN m ELSE 0)
<1> DEFINE u == AddUnchecked(list, e, m)
           l == Len(list)
           F == Freqs(list, d)
           G == Freqs(u, d)
           x == IF e = d THEN m ELSE 0
<1>1. /\ u \in Seq(Postings(D))
      /\ \/ /\ l > 0 /\ Len(u) = l /\ list[l].doc = e /\ u[l].doc = e
            /\ u[l].freq = list[l].freq + m
            /\ \A i \in 1 .. l - 1 : u[i] = list[i]
         \/ /\ Len(u) = l + 1 /\ u[l + 1].doc = e /\ u[l + 1].freq = m
            /\ \A i \in 1 .. l : u[i] = list[i]
  BY AddUncheckedCases
<1> HIDE DEF u
<1>2. /\ F \in [1 .. l -> Nat] /\ l \in Nat
      /\ \A i \in 1 .. l : /\ list[i].freq \in Nat
                           /\ F[i] = IF list[i].doc = d THEN list[i].freq ELSE 0
  BY FreqsType
<1>3. /\ G \in [1 .. Len(u) -> Nat]
      /\ \A i \in 1 .. Len(u) : G[i] = IF u[i].doc = d THEN u[i].freq ELSE 0
  BY <1>1, FreqsType
<1>4. IsFiniteSet(1 .. l)
  BY <1>2, ListFinite
<1>5. Sum(F) \in Nat
  BY <1>2, <1>4, SumType
<1> HIDE DEF F, G, l
<1>6. CASE /\ l > 0 /\ Len(u) = l /\ list[l].doc = e /\ u[l].doc = e
           /\ u[l].freq = list[l].freq + m
           /\ \A i \in 1 .. l - 1 : u[i] = list[i]
  <2>1. l \in 1 .. l /\ F \in [1 .. l -> Nat] /\ G \in [1 .. l -> Nat]
    BY <1>2, <1>3, <1>6
  <2>2. \A i \in 1 .. l : i # l => i \in 1 .. l - 1
    BY <1>2
  <2>3. \A i \in 1 .. l : i # l => F[i] = G[i]
    <3> SUFFICES ASSUME NEW i \in 1 .. l, i # l
                 PROVE  F[i] = G[i]
      OBVIOUS
    <3>1. i \in 1 .. l - 1 /\ i \in 1 .. Len(u)
      BY <1>6, <2>2
    <3>2. u[i] = list[i]
      BY <1>6, <3>1
    <3>3. F[i] = IF list[i].doc = d THEN list[i].freq ELSE 0
      BY <1>2
    <3>4. G[i] = IF u[i].doc = d THEN u[i].freq ELSE 0
      BY <1>3, <3>1
    <3> QED
      BY <3>2, <3>3, <3>4
  <2>4. Sum(G) + F[l] = Sum(F) + G[l]
    BY <1>4, <2>1, <2>3, SumChange
  <2>5. G[l] = F[l] + x /\ F[l] \in Nat /\ G[l] \in Nat
    BY <1>2, <1>3, <1>6, <2>1
  <2>6. Sum(G) \in Nat
    BY <1>4, <2>1, SumType
  <2>7. x \in Nat
    OBVIOUS
  <2> HIDE DEF x
  <2>8. Sum(G) = Sum(F) + x
    BY <1>5, <2>4, <2>5, <2>6, <2>7
  <2> QED
    BY <2>8 DEF PostedIn, F, G, u, x
<1>7. CASE /\ Len(u) = l + 1 /\ u[l + 1].doc = e /\ u[l + 1].freq = m
           /\ \A i \in 1 .. l : u[i] = list[i]
  <2>1. G \in [1 .. l + 1 -> Nat]
    BY <1>3, <1>7
  <2>2. \A i \in 1 .. l : i \in 1 .. l + 1
    BY <1>2
  <2>3. \A i \in 1 .. l : F[i] = G[i]
    BY <1>2, <1>3, <1>7, <2>2
  <2>4. Sum(G) = Sum(F) + G[l + 1]
    BY <1>2, <2>1, <2>3, ListSumExtend
  <2>5. l + 1 \in 1 .. l + 1
    BY <1>2
  <2>6. G[l + 1] = x
    BY <1>3, <1>7, <2>5
  <2> QED
    BY <2>4, <2>6 DEF PostedIn, F, G, u
<1> QED
  BY <1>1, <1>6, <1>7 DEF l

-----------------------------------------------------------------------------
(* No count is lost.                                                       *)

\* What each worker holds of word k for document d, its numbers and counts being these.
Held(num, counts, d, k) == [w \in Worker |-> IF num[w] = d THEN Count(counts[w], k) ELSE 0]

\* Total, Posted and Pending as sums of what does not depend on the state.
LEMMA SumsNamed ==
  ASSUME NEW d, NEW k
  PROVE  /\ Total(d, k) = TotalIn(sent[d], k) /\ Posted(d, k) = PostedIn(termInvertedIndex[k], d)
         /\ Pending(d, k) = Sum(Held(docNum, left, d, k))
         /\ Total(d, k)' = TotalIn(sent'[d], k) /\ Posted(d, k)' = PostedIn(termInvertedIndex'[k], d)
         /\ Pending(d, k)' = Sum(Held(docNum', left', d, k))
BY DEF Total, TotalIn, Terms, Posted, PostedIn, Freqs, Pending, Held

\* What workers hold is a natural number, and nothing when none of them holds the document.
LEMMA HeldType ==
  ASSUME NEW num, NEW counts \in [Worker -> Scores(Word)], NEW d, NEW k
  PROVE  /\ Held(num, counts, d, k) \in [Worker -> Nat]
         /\ Sum(Held(num, counts, d, k)) \in Nat
         /\ (\A w \in Worker : num[w] # d) => Sum(Held(num, counts, d, k)) = 0
<1> DEFINE f == Held(num, counts, d, k)
<1>1. \A w \in Worker : Count(counts[w], k) \in Nat
  BY CountType
<1>2. f \in [Worker -> Nat]
  BY <1>1 DEF Held
<1>3. ASSUME \A w \in Worker : num[w] # d PROVE \A w \in Worker : f[w] = 0
  BY <1>3 DEF Held
<1> HIDE DEF f
<1>4. Sum(f) \in Nat
  BY <1>2, SumType, WorkerAssumption
<1>5. (\A w \in Worker : f[w] = 0) => Sum(f) = 0
  BY <1>2, SumZero
<1> QED
  BY <1>2, <1>3, <1>4, <1>5 DEF f

\* Nothing is posted of a document the store does not have.
LEMMA PostedType ==
  ASSUME WorkersInv, NEW d, NEW k \in Word
  PROVE  /\ Posted(d, k) \in Nat /\ termInvertedIndex[k] \in Seq(Postings(Doc))
         /\ d \notin Doc => Posted(d, k) = 0
<1>1. termInvertedIndex[k] \in Seq(Postings(Doc))
  BY DEF WorkersInv, Typed
<1> DEFINE list == termInvertedIndex[k]
<1>2. /\ Freqs(list, d) \in [1 .. Len(list) -> Nat] /\ PostedIn(list, d) \in Nat
      /\ \A i \in 1 .. Len(list) : /\ list[i].doc \in Doc
                                   /\ Freqs(list, d)[i] = IF list[i].doc = d THEN list[i].freq ELSE 0
  BY <1>1, FreqsType
<1>3. ASSUME d \notin Doc PROVE PostedIn(list, d) = 0
  <2>1. \A i \in 1 .. Len(list) : Freqs(list, d)[i] = 0
    BY <1>2, <1>3
  <2> QED
    BY <1>2, <2>1, SumZero DEF PostedIn
<1> QED
  BY <1>1, <1>2, <1>3, SumsNamed

\* What was sent for a document has its types.
LEMMA TotalType ==
  ASSUME WorkersInv, NEW d \in Doc, NEW k
  PROVE  /\ Total(d, k) \in Nat /\ sent[d] \in Seq(Scores(Word))
<1>1. Doc = 1 .. Len(sent) /\ sent \in Seq(Seq(Scores(Word)))
  BY LenProperties DEF WorkersInv, Typed, Doc
<1>2. sent[d] \in Seq(Scores(Word))
  BY <1>1, ElementOfSeq
<1> QED
  BY <1>2, TermsType, SumsNamed

\* Only w's part of what is pending changes.
LEMMA PendingChanged ==
  ASSUME WorkersInv, WorkersInv', NEW w \in Worker, NEW d, NEW k,
         \A v \in Worker : v # w => docNum'[v] = docNum[v] /\ left'[v] = left[v]
  PROVE  /\ Pending(d, k)' + (IF docNum[w] = d THEN Count(left[w], k) ELSE 0)
              = Pending(d, k) + (IF docNum'[w] = d THEN Count(left'[w], k) ELSE 0)
         /\ Pending(d, k)' \in Nat /\ Pending(d, k) \in Nat
<1> DEFINE f == Held(docNum, left, d, k)
           h == Held(docNum', left', d, k)
<1>1. left \in [Worker -> Scores(Word)] /\ left' \in [Worker -> Scores(Word)]
  BY DEF WorkersInv, Typed
<1>2. /\ f \in [Worker -> Nat] /\ Sum(f) \in Nat /\ h \in [Worker -> Nat] /\ Sum(h) \in Nat
  BY <1>1, HeldType
<1>3. /\ \A v \in Worker : v # w => f[v] = h[v]
      /\ f[w] = (IF docNum[w] = d THEN Count(left[w], k) ELSE 0)
      /\ h[w] = (IF docNum'[w] = d THEN Count(left'[w], k) ELSE 0)
  BY DEF Held
<1> HIDE DEF f, h
<1>4. Sum(h) + f[w] = Sum(f) + h[w]
  BY <1>2, <1>3, SumChange, WorkerAssumption
<1> QED
  BY <1>2, <1>3, <1>4, SumsNamed DEF f, h

\* What the step that accepts a request does to numbers and counts.
LEMMA AcceptedCounts ==
  ASSUME WorkersInv, NEW w \in Worker, NEW q \in Requests,
         NEW b \in Payloads(EncodeIndexRequest(q.id, q.path, q.terms)), Accepted(w, q, b),
         pc[w] = "receive"
  PROVE  LET c == WordCountsOf(DecodeIndexRequest(b))
             e == docNum'[w]
         IN  /\ c \in Scores(Word) /\ docNum[w] = 0 /\ left'[w] = c
             /\ \A v \in Worker : v # w => docNum'[v] = docNum[v] /\ left'[v] = left[v]
             /\ e \in Nat \ {0} /\ Doc \subseteq Nat \ {0}
             /\ \/ e \in Doc /\ Doc' = Doc /\ sent'[e] = Append(sent[e], c)
                \/ e \notin Doc /\ Doc' = Doc \union {e} /\ sent'[e] = <<c>>
             /\ \A d \in Doc : d # e => sent'[d] = sent[d]
<1> DEFINE c == WordCountsOf(DecodeIndexRequest(b))
           e == docNum'[w]
           n == Len(documents)
<1>1. PutDocument(w, FullPath(q.id, q.path)) /\ FullPath(q.id, q.path) \in Seq(Byte) /\ c \in Scores(Word)
  BY AcceptedPuts
<1>2. left' = [left EXCEPT ![w] = c] /\ sent' = Record(e, c)
  BY DEF Accepted
<1> HIDE DEF c
<1>3. /\ documents' \in Seq(Seq(Byte))
      /\ \A v \in Worker : v # w => docNum'[v] = docNum[v]
      /\ \/ UNCHANGED documents /\ e \in Doc
         \/ Len(documents') = n + 1 /\ e = n + 1
  BY <1>1, PutDocumentPuts
<1>4. docNum[w] = 0
  BY DEF WorkersInv, Serving
<1>5. /\ sent \in Seq(Seq(Scores(Word))) /\ Len(sent) = n /\ n \in Nat /\ Doc = 1 .. n
      /\ left \in [Worker -> Scores(Word)]
  BY LenProperties DEF WorkersInv, Typed, Doc
<1>6. Doc' = 1 .. Len(documents')
  BY <1>3, LenProperties DEF Doc
<1> HIDE DEF n, e
<1>7. e \in 1 .. n + 1
  BY <1>3, <1>5
<1>8. LET t == Record(e, c)
      IN  /\ e \in 1 .. n => t[e] = Append(sent[e], c)
          /\ e = n + 1 => t[e] = <<c>>
          /\ \A i \in 1 .. n : i # e => t[i] = sent[i]
  <2>1. sent \in Seq(Seq(Scores(Word))) /\ e \in 1 .. Len(sent) + 1
    BY <1>5, <1>7
  <2>2. LET t == Record(e, c)
        IN  /\ e \in 1 .. Len(sent) => t[e] = Append(sent[e], c)
            /\ e = Len(sent) + 1 => t[e] = <<c>>
            /\ \A i \in 1 .. Len(sent) : i # e => t[i] = sent[i]
    BY <1>1, <2>1, Recorded
  <2> QED
    BY <1>5, <2>2
<1>9. /\ e \in Nat \ {0} /\ Doc \subseteq Nat \ {0}
  BY <1>5, <1>7
<1>10. \/ e \in Doc /\ Doc' = Doc /\ sent'[e] = Append(sent[e], c)
       \/ e \notin Doc /\ Doc' = Doc \union {e} /\ sent'[e] = <<c>>
  <2>1. CASE UNCHANGED documents /\ e \in Doc
    BY <1>2, <1>5, <1>8, <2>1 DEF Doc
  <2>2. CASE Len(documents') = n + 1 /\ e = n + 1
    <3>1. 1 .. n + 1 = (1 .. n) \union {n + 1} /\ n + 1 \notin 1 .. n
      BY <1>5
    <3>2. sent'[e] = <<c>>
      BY <1>2, <1>8, <2>2
    <3> QED
      BY <1>5, <1>6, <2>2, <3>1, <3>2
  <2> QED
    BY <1>3, <2>1, <2>2
<1>11. \A d \in Doc : d # e => sent'[d] = sent[d]
  BY <1>2, <1>5, <1>8
<1>12. left'[w] = c /\ \A v \in Worker : v # w => left'[v] = left[v]
  BY <1>2, <1>5
<1> QED
  BY <1>1, <1>3, <1>4, <1>9, <1>10, <1>11, <1>12 DEF c, e

\* Nothing was sent and nothing is posted.
LEMMA CountsInitially == Init => CountsKept
<1> SUFFICES ASSUME Init PROVE CountsKept
  OBVIOUS
<1>1. Doc = {}
  BY DEF Init, Doc
<1> QED
  BY <1>1 DEF CountsKept

\* Accepting a request adds as much to what was sent as to what is pending.
LEMMA AcceptedKeepsCounts ==
  ASSUME WorkersInv, WorkersInv', CountsKept, NEW w \in Worker, NEW q \in Requests,
         NEW b \in Payloads(EncodeIndexRequest(q.id, q.path, q.terms)), Accepted(w, q, b),
         pc[w] = "receive", UNCHANGED termInvertedIndex
  PROVE  CountsKept'
<1> DEFINE c == WordCountsOf(DecodeIndexRequest(b))
           e == docNum'[w]
<1>1. /\ c \in Scores(Word) /\ docNum[w] = 0 /\ left'[w] = c
      /\ \A v \in Worker : v # w => docNum'[v] = docNum[v] /\ left'[v] = left[v]
      /\ e \in Nat \ {0} /\ Doc \subseteq Nat \ {0}
      /\ \/ e \in Doc /\ Doc' = Doc /\ sent'[e] = Append(sent[e], c)
         \/ e \notin Doc /\ Doc' = Doc \union {e} /\ sent'[e] = <<c>>
      /\ \A d \in Doc : d # e => sent'[d] = sent[d]
  BY AcceptedCounts
<1> HIDE DEF c
<1> SUFFICES ASSUME NEW d \in Doc', NEW k \in Word
             PROVE  Posted(d, k)' + Pending(d, k)' = Total(d, k)'
  BY DEF CountsKept
<1>2. d # 0 /\ (d \in Doc \/ d = e)
  BY <1>1
<1>3. /\ Pending(d, k)' = Pending(d, k) + (IF e = d THEN Count(c, k) ELSE 0)
      /\ Pending(d, k)' \in Nat /\ Pending(d, k) \in Nat
  <2>1. /\ Pending(d, k)' + (IF docNum[w] = d THEN Count(left[w], k) ELSE 0)
             = Pending(d, k) + (IF docNum'[w] = d THEN Count(left'[w], k) ELSE 0)
        /\ Pending(d, k)' \in Nat /\ Pending(d, k) \in Nat
    BY <1>1, PendingChanged
  <2> QED
    BY <1>1, <1>2, <2>1
<1>4. Posted(d, k)' = Posted(d, k) /\ Posted(d, k) \in Nat /\ (d \notin Doc => Posted(d, k) = 0)
  BY PostedType DEF Posted
<1>5. Count(c, k) \in Nat
  BY <1>1, CountType
<1>6. CASE d # e
  <2>1. d \in Doc /\ Total(d, k)' = Total(d, k)
    BY <1>1, <1>2, <1>6 DEF Total
  <2> QED
    BY <1>3, <1>4, <1>6, <2>1 DEF CountsKept
<1>7. CASE d = e /\ e \in Doc
  <2>1. Total(d, k)' = Total(d, k) + Count(c, k) /\ Total(d, k) \in Nat
    <3>1. sent[d] \in Seq(Scores(Word)) /\ Total(d, k) \in Nat
      BY <1>7, TotalType
    <3>2. TotalIn(Append(sent[d], c), k) = TotalIn(sent[d], k) + Count(c, k)
      BY <1>1, <3>1, TotalAppended
    <3>3. sent'[d] = Append(sent[d], c)
      BY <1>1, <1>7
    <3> QED
      BY <3>1, <3>2, <3>3, SumsNamed
  <2>2. Posted(d, k) + Pending(d, k) = Total(d, k)
    BY <1>7 DEF CountsKept
  <2> QED
    BY <1>3, <1>4, <1>5, <1>7, <2>1, <2>2
<1>8. CASE d = e /\ e \notin Doc
  <2>1. Total(d, k)' = Count(c, k)
    <3>1. TotalIn(<<c>>, k) = Count(c, k)
      BY <1>1, TotalOfOne
    <3> QED
      BY <1>1, <1>8, <3>1, SumsNamed
  <2>2. \A v \in Worker : docNum[v] # d
    BY <1>2, <1>8 DEF WorkersInv, Serving, Typed
  <2>3. Pending(d, k) = 0
    <3>1. left \in [Worker -> Scores(Word)]
      BY DEF WorkersInv, Typed
    <3> QED
      BY <2>2, <3>1, HeldType, SumsNamed
  <2> QED
    BY <1>3, <1>4, <1>5, <1>8, <2>1, <2>3
<1> QED
  BY <1>6, <1>7, <1>8

\* A turn of updateIndex posts what it takes from what is pending.
LEMMA UpdateKeepsCounts ==
  ASSUME WorkersInv, WorkersInv', CountsKept, NEW w \in Worker, Update(w)
  PROVE  CountsKept'
<1>1. PICK j \in DOMAIN left[w] :
        /\ j \in Word /\ left[w][j] \in Nat
        /\ left'[w] = [i \in DOMAIN left[w] \ {j} |-> left[w][i]]
        /\ \A v \in Worker : v # w => left'[v] = left[v]
        /\ termInvertedIndex'[j] = AddUnchecked(termInvertedIndex[j], docNum[w], left[w][j])
        /\ \A i \in Word : i # j => termInvertedIndex'[i] = termInvertedIndex[i]
  BY UpdateCases
<1>2. docNum[w] \in Doc /\ UNCHANGED <<documents, docNum, sent>>
  BY UpdateCases DEF history
<1> SUFFICES ASSUME NEW d \in Doc', NEW k \in Word
             PROVE  Posted(d, k)' + Pending(d, k)' = Total(d, k)'
  BY DEF CountsKept
<1>3. d \in Doc /\ Total(d, k)' = Total(d, k) /\ Total(d, k) \in Nat
  <2>1. d \in Doc
    BY <1>2 DEF Doc
  <2> QED
    BY <1>2, <2>1, TotalType DEF Total
<1>4. Posted(d, k) + Pending(d, k) = Total(d, k)
  BY <1>3 DEF CountsKept
<1> DEFINE e == docNum[w]
           m == left[w][j]
           x == IF e = d /\ k = j THEN m ELSE 0
<1>5. Posted(d, k)' = Posted(d, k) + x /\ Posted(d, k) \in Nat
  <2>1. Posted(d, k) \in Nat /\ termInvertedIndex[k] \in Seq(Postings(Doc))
    BY PostedType
  <2>2. CASE k # j
    BY <1>1, <2>1, <2>2, SumsNamed
  <2>3. CASE k = j
    <3>1. PostedIn(AddUnchecked(termInvertedIndex[k], e, m), d) = PostedIn(termInvertedIndex[k], d) + (IF e = d THEN m ELSE 0)
      BY <1>1, <1>2, <2>1, PostedAdded
    <3> QED
      BY <1>1, <2>1, <2>3, <3>1, SumsNamed
  <2> QED
    BY <2>2, <2>3
<1>6. Pending(d, k)' + x = Pending(d, k) /\ Pending(d, k)' \in Nat /\ Pending(d, k) \in Nat
  <2>1. /\ Pending(d, k)' + (IF docNum[w] = d THEN Count(left[w], k) ELSE 0)
             = Pending(d, k) + (IF docNum'[w] = d THEN Count(left'[w], k) ELSE 0)
        /\ Pending(d, k)' \in Nat /\ Pending(d, k) \in Nat
    BY <1>1, <1>2, PendingChanged
  <2>2. Count(left[w], j) = m /\ Count(left'[w], j) = 0
    BY <1>1 DEF Count
  <2>3. k # j => Count(left[w], k) = Count(left'[w], k)
    BY <1>1 DEF Count
  <2>4. Count(left[w], k) \in Nat /\ Count(left'[w], k) \in Nat
    <3>1. left[w] \in Scores(Word) /\ left'[w] \in Scores(Word)
      BY DEF WorkersInv, Typed
    <3> QED
      BY <3>1, CountType
  <2>5. docNum'[w] = e
    BY <1>2
  <2> HIDE DEF m, e
  <2> QED
    BY <2>1, <2>2, <2>3, <2>4, <2>5 DEF e
<1>7. x \in Nat
  BY <1>1
<1> HIDE DEF x
<1> QED
  BY <1>3, <1>4, <1>5, <1>6, <1>7

\* INDEX_REPLY is sent when nothing is pending.
LEMMA ReplyIndexKeepsCounts ==
  ASSUME WorkersInv, WorkersInv', CountsKept, NEW w \in Worker, ReplyIndex(w)
  PROVE  CountsKept'
<1>1. /\ left[w] = NoScores /\ docNum' = [docNum EXCEPT ![w] = 0]
      /\ UNCHANGED <<documents, termInvertedIndex, left, sent>>
  BY DEF ReplyIndex, store
<1> SUFFICES ASSUME NEW d \in Doc', NEW k \in Word
             PROVE  Posted(d, k)' + Pending(d, k)' = Total(d, k)'
  BY DEF CountsKept
<1>2. d \in Doc /\ Total(d, k)' = Total(d, k) /\ Posted(d, k)' = Posted(d, k)
  BY <1>1 DEF Doc, Total, Posted
<1>3. Pending(d, k)' = Pending(d, k)
  <2>1. \A v \in Worker : v # w => docNum'[v] = docNum[v] /\ left'[v] = left[v]
    BY <1>1 DEF WorkersInv, Typed
  <2>2. /\ Pending(d, k)' + (IF docNum[w] = d THEN Count(left[w], k) ELSE 0)
             = Pending(d, k) + (IF docNum'[w] = d THEN Count(left'[w], k) ELSE 0)
        /\ Pending(d, k)' \in Nat /\ Pending(d, k) \in Nat
    BY <2>1, PendingChanged
  <2>3. Count(left[w], k) = 0 /\ Count(left'[w], k) = 0
    BY <1>1, CountNone
  <2> QED
    BY <2>2, <2>3
<1> QED
  BY <1>2, <1>3 DEF CountsKept

\* Every step keeps the counts.
LEMMA CountsPreserved == WorkersInv /\ WorkersInv' /\ CountsKept /\ [Next]_vars => CountsKept'
<1> SUFFICES ASSUME WorkersInv, WorkersInv', CountsKept, [Next]_vars PROVE CountsKept'
  OBVIOUS
<1>1. CASE UNCHANGED <<documents, termInvertedIndex, docNum, left, sent>>
  BY <1>1 DEF CountsKept, Posted, Pending, Total, Doc
<1>2. ASSUME NEW w \in Worker, ReceiveIndex(w) PROVE CountsKept'
  <2>1. PICK q \in Requests : \E b \in Payloads(EncodeIndexRequest(q.id, q.path, q.terms)) :
          Accepted(w, q, b) \/ Refused(w, q, b)
    BY <1>2, ReceiveIndexCases
  <2>2. PICK b \in Payloads(EncodeIndexRequest(q.id, q.path, q.terms)) :
          Accepted(w, q, b) \/ Refused(w, q, b)
    BY <2>1
  <2>3. pc[w] = "receive" /\ UNCHANGED termInvertedIndex
    BY <1>2, ReceiveIndexCases DEF Serve
  <2>4. CASE Accepted(w, q, b)
    BY <2>3, <2>4, AcceptedKeepsCounts
  <2>5. CASE Refused(w, q, b)
    BY <1>1, <2>3, <2>5 DEF Refused, indexing
  <2> QED
    BY <2>2, <2>4, <2>5
<1>3. ASSUME NEW w \in Worker, Update(w) PROVE CountsKept'
  BY <1>3, UpdateKeepsCounts
<1>4. ASSUME NEW w \in Worker, ReplyIndex(w) PROVE CountsKept'
  BY <1>4, ReplyIndexKeepsCounts
<1>5. ASSUME NEW w \in Worker, ReceiveSearch(w) \/ LookupTerm(w) \/ ReplySearch(w) PROVE CountsKept'
  BY <1>1, <1>5 DEF ReceiveSearch, LookupTerm, ReplySearch, store, indexing, history
<1>6. ASSUME NEW w \in Worker, Skip(w) PROVE CountsKept'
  BY <1>1, <1>6 DEF Skip, store, indexing, history
<1>7. CASE UNCHANGED vars
  BY <1>1, <1>7 DEF vars, store, indexing, history
<1> QED
  BY <1>2, <1>3, <1>4, <1>5, <1>6, <1>7 DEF Next, Step

\* The index loses no count: what its postings hold of a word in a document and what
\* workers have still to add make up what clients have sent for it (DocFreqList.cpp:87-95).
THEOREM NoCountLost == Spec => []CountsKept
<1>1. WorkersInv /\ CountsKept /\ [Next]_vars => (WorkersInv /\ CountsKept)'
  BY WorkersPreserved, CountsPreserved
<1>2. Init => WorkersInv /\ CountsKept
  BY TypedInitially, CountsInitially
<1> QED
  BY <1>1, <1>2, PTL DEF Spec

-----------------------------------------------------------------------------
(* What a search finds.                                                    *)

\* All that a document's word counts s say of the first n terms of q.
Counts(s, q, n) == [i \in 1 .. n |-> TotalIn(s, q[i])]
PartialIn(s, q, n) == Sum(Counts(s, q, n))

\* A sum is no smaller than one of its terms.
LEMMA TermInSum ==
  ASSUME NEW S, IsFiniteSet(S), NEW x \in S, NEW f \in [S -> Nat]
  PROVE  f[x] <= Sum(f)
<1>1. Sum(Without(f, x)) \in Nat /\ Sum(f) = Sum(Without(f, x)) + f[x]
  BY SumSplit
<1>2. f[x] \in Nat
  OBVIOUS
<1> QED
  BY <1>1, <1>2

\* The sum for the first terms of a search is a natural number, and 0 for none.
LEMMA PartialType ==
  ASSUME NEW s \in Seq(Scores(Word)), NEW q, NEW n \in Nat
  PROVE  /\ Counts(s, q, n) \in [1 .. n -> Nat] /\ PartialIn(s, q, n) \in Nat
         /\ \A i \in 1 .. n : Counts(s, q, n)[i] = TotalIn(s, q[i])
         /\ PartialIn(s, q, 0) = 0
<1>1. \A m \in Nat : Counts(s, q, m) \in [1 .. m -> Nat]
  BY TermsType DEF Counts
<1>2. PartialIn(s, q, n) \in Nat
  BY <1>1, ListFinite, SumType DEF PartialIn
<1>3. PartialIn(s, q, 0) = 0
  <2>1. Counts(s, q, 0) \in [1 .. 0 -> Nat] /\ \A i \in 1 .. 0 : Counts(s, q, 0)[i] = 0
    BY <1>1
  <2> QED
    BY <2>1, SumZero DEF PartialIn
<1> QED
  BY <1>1, <1>2, <1>3 DEF Counts

\* One term more adds what was sent for it.
LEMMA PartialNext ==
  ASSUME NEW s \in Seq(Scores(Word)), NEW q, NEW n \in Nat
  PROVE  PartialIn(s, q, n + 1) = PartialIn(s, q, n) + TotalIn(s, q[n + 1])
<1> DEFINE f == Counts(s, q, n)
           h == Counts(s, q, n + 1)
<1>1. f \in [1 .. n -> Nat] /\ \A i \in 1 .. n : f[i] = TotalIn(s, q[i])
  BY PartialType
<1>2. h \in [1 .. n + 1 -> Nat] /\ \A i \in 1 .. n + 1 : h[i] = TotalIn(s, q[i])
  <2>1. n + 1 \in Nat
    OBVIOUS
  <2> QED
    BY <2>1, PartialType
<1> HIDE DEF f, h
<1>3. \A i \in 1 .. n : i \in 1 .. n + 1
  OBVIOUS
<1>4. \A i \in 1 .. n : f[i] = h[i]
  BY <1>1, <1>2, <1>3
<1>5. Sum(h) = Sum(f) + h[n + 1]
  BY <1>1, <1>2, <1>4, ListSumExtend
<1>6. h[n + 1] = TotalIn(s, q[n + 1])
  BY <1>2
<1> QED
  BY <1>5, <1>6 DEF PartialIn, f, h

\* The sum grows with what was sent.
LEMMA PartialMore ==
  ASSUME NEW s \in Seq(Scores(Word)), NEW t \in Seq(Scores(Word)), NEW q, NEW n \in Nat,
         \A i \in 1 .. n : TotalIn(s, q[i]) <= TotalIn(t, q[i])
  PROVE  PartialIn(s, q, n) <= PartialIn(t, q, n)
<1> DEFINE S == 1 .. n
           f == Counts(s, q, n)
           h == Counts(t, q, n)
<1>1. f \in [S -> Nat] /\ h \in [S -> Nat] /\ \A i \in S : f[i] <= h[i]
  BY PartialType
<1>2. IsFiniteSet(S) /\ S \in SUBSET S
  BY ListFinite
<1> HIDE DEF S, f, h
<1>3. Sum(f) <= Sum(h)
  BY <1>1, <1>2, SumSmaller
<1> QED
  BY <1>3 DEF PartialIn, f, h

HasPosting(d, k) == \E i \in DOMAIN termInvertedIndex[k] : termInvertedIndex[k][i].doc = d

\* Every document was sent once at least.  What was acknowledged has been posted, and the
\* postings of a document sent once hold what was sent.
SentOnce == \A d \in Doc : Len(sent[d]) >= 1
AckedPosted == \A p \in acked : HasPosting(p[1], p[2])
OncePosted ==
  \A k \in Word : \A i \in DOMAIN termInvertedIndex[k] :
    LET p == termInvertedIndex[k][i]
    IN  Len(sent[p.doc]) = 1 => p.freq = TotalIn(sent[p.doc], k)

\* Of each word of its request, w has added the count or has it left to add.
WordsPosted(w) ==
  pc[w] = "update" =>
    \A i \in DOMAIN asked[w].q.terms :
      \/ asked[w].q.terms[i].term \in DOMAIN left[w]
      \/ HasPosting(docNum[w], asked[w].q.terms[i].term)
LeftWhole(w) ==
  docNum[w] \in Doc /\ Len(sent[docNum[w]]) = 1 =>
    \A k \in DOMAIN left[w] : left[w][k] = TotalIn(sent[docNum[w]], k)
OwedAcked(w) ==
  pc[w] = "lookup" =>
    \A d \in asked[w].owed : \A i \in DOMAIN asked[w].q : <<d, asked[w].q[i]>> \in acked
Scored(w) ==
  pc[w] = "lookup" /\ at[w] > 1 =>
    /\ asked[w].owed \subseteq DOMAIN docScores[w]
    /\ \A d \in DOMAIN docScores[w] :
         /\ docScores[w][d] <= PartialIn(sent[d], terms[w], at[w] - 1)
         /\ Len(sent[d]) = 1 => docScores[w][d] = PartialIn(sent[d], terms[w], at[w] - 1)

SearchInv ==
  /\ SentOnce /\ AckedPosted /\ OncePosted
  /\ \A w \in Worker : WordsPosted(w) /\ LeftWhole(w) /\ OwedAcked(w) /\ Scored(w)

\* The requests for a document have their types.
LEMMA SentType ==
  ASSUME WorkersInv
  PROVE  \A d \in Doc : sent[d] \in Seq(Scores(Word)) /\ Len(sent[d]) \in Nat
<1> SUFFICES ASSUME NEW d \in Doc PROVE sent[d] \in Seq(Scores(Word)) /\ Len(sent[d]) \in Nat
  OBVIOUS
<1>1. sent[d] \in Seq(Scores(Word))
  BY TotalType
<1> QED
  BY <1>1, LenProperties

\* The invariant gives what a search promises.
LEMMA SearchInvImplies ==
  ASSUME WorkersInv, SearchInv
  PROVE  SearchSound
<1> SUFFICES ASSUME NEW w \in Worker, pc[w] = "lookup", at[w] > 1
             PROVE  /\ asked[w].owed \subseteq DOMAIN docScores[w]
                    /\ at[w] > Len(terms[w]) =>
                         \A d \in DOMAIN docScores[w] :
                           /\ docScores[w][d] <= Combined(d, terms[w])
                           /\ Len(sent[d]) = 1 => docScores[w][d] = Combined(d, terms[w])
  BY DEF SearchSound
<1>1. Scored(w)
  BY DEF SearchInv
<1>2. terms[w] \in Seq(Word) /\ at[w] \in 1 .. Len(terms[w]) + 1
  BY DEF WorkersInv, Typed, Serving
<1>3. DOMAIN terms[w] = 1 .. Len(terms[w]) /\ Len(terms[w]) \in Nat
  BY <1>2, LenProperties
<1>4. \A d : Combined(d, terms[w]) = PartialIn(sent[d], terms[w], Len(terms[w]))
  BY <1>3, SumsNamed DEF Combined, PartialIn, Counts
<1>5. at[w] > Len(terms[w]) => at[w] - 1 = Len(terms[w])
  BY <1>2, <1>3
<1> QED
  BY <1>1, <1>4, <1>5 DEF Scored

\* No search runs over an empty store.
LEMMA SearchInitially == Init => SearchInv
<1> SUFFICES ASSUME Init PROVE SearchInv
  OBVIOUS
<1>1. Doc = {} /\ acked = {}
  BY DEF Init, Doc
<1>2. \A k \in Word : DOMAIN termInvertedIndex[k] = {}
  BY DEF Init, EmptyList
<1>3. \A w \in Worker : pc[w] = "receive"
  BY DEF Init
<1> QED
  BY <1>1, <1>2, <1>3 DEF SearchInv, SentOnce, AckedPosted, OncePosted, WordsPosted, LeftWhole,
                          OwedAcked, Scored

\* What every step leaves of what clients sent, what was acknowledged and what is posted.
Grown ==
  /\ \A d \in Doc :
       /\ d \in Doc'
       /\ \/ sent'[d] = sent[d]
          \/ /\ Len(sent'[d]) > 1
             /\ \A k \in Word : TotalIn(sent[d], k) <= TotalIn(sent'[d], k)
  /\ acked \subseteq acked'
  /\ \A k \in Word : \A d : HasPosting(d, k) => HasPosting(d, k)'

\* An accepted request adds to what was sent.
LEMMA AcceptedGrows ==
  ASSUME WorkersInv, SearchInv, NEW w \in Worker, NEW q \in Requests,
         NEW b \in Payloads(EncodeIndexRequest(q.id, q.path, q.terms)), Accepted(w, q, b),
         pc[w] = "receive", UNCHANGED <<termInvertedIndex, acked>>
  PROVE  Grown
<1> DEFINE c == WordCountsOf(DecodeIndexRequest(b))
           e == docNum'[w]
<1>1. /\ c \in Scores(Word)
      /\ \/ e \in Doc /\ Doc' = Doc /\ sent'[e] = Append(sent[e], c)
         \/ e \notin Doc /\ Doc' = Doc \union {e} /\ sent'[e] = <<c>>
      /\ \A d \in Doc : d # e => sent'[d] = sent[d]
  BY AcceptedCounts
<1> HIDE DEF c, e
<1>2. ASSUME NEW d \in Doc
      PROVE  \/ sent'[d] = sent[d]
             \/ /\ Len(sent'[d]) > 1
                /\ \A k \in Word : TotalIn(sent[d], k) <= TotalIn(sent'[d], k)
  <2>1. CASE d # e
    BY <1>1, <2>1
  <2>2. CASE d = e
    <3>1. sent'[d] = Append(sent[d], c) /\ sent[d] \in Seq(Scores(Word)) /\ Len(sent[d]) \in Nat /\ Len(sent[d]) >= 1
      BY <1>1, <2>2, SentType DEF SearchInv, SentOnce
    <3>2. Len(Append(sent[d], c)) = Len(sent[d]) + 1
      BY <1>1, <3>1, AppendProperties
    <3>3. ASSUME NEW k \in Word PROVE TotalIn(sent[d], k) <= TotalIn(sent'[d], k)
      <4>1. TotalIn(Append(sent[d], c), k) = TotalIn(sent[d], k) + Count(c, k)
        BY <1>1, <3>1, TotalAppended
      <4>2. TotalIn(sent[d], k) \in Nat /\ Count(c, k) \in Nat
        BY <1>1, <3>1, TermsType, CountType
      <4> QED
        BY <3>1, <4>1, <4>2
    <3> QED
      BY <3>1, <3>2, <3>3
  <2> QED
    BY <2>1, <2>2
<1>3. \A d \in Doc : d \in Doc'
  BY <1>1
<1>4. \A k \in Word : \A d : HasPosting(d, k) => HasPosting(d, k)'
  BY DEF HasPosting
<1> QED
  BY <1>2, <1>3, <1>4 DEF Grown

\* A turn of updateIndex leaves a posting of its word for the document.
LEMMA UpdateGrows ==
  ASSUME WorkersInv, NEW w \in Worker, Update(w)
  PROVE  /\ Grown
         /\ \E j \in DOMAIN left[w] :
              /\ j \in Word /\ left'[w] = [i \in DOMAIN left[w] \ {j} |-> left[w][i]]
              /\ HasPosting(docNum[w], j)'
<1>1. PICK j \in DOMAIN left[w] :
        /\ j \in Word /\ left[w][j] \in Nat
        /\ left'[w] = [i \in DOMAIN left[w] \ {j} |-> left[w][i]]
        /\ termInvertedIndex'[j] = AddUnchecked(termInvertedIndex[j], docNum[w], left[w][j])
        /\ \A i \in Word : i # j => termInvertedIndex'[i] = termInvertedIndex[i]
  BY UpdateCases
<1>2. docNum[w] \in Doc /\ UNCHANGED <<documents, docNum, sent, acked>>
  BY UpdateCases DEF history
<1> DEFINE list == termInvertedIndex[j]
           u == termInvertedIndex'[j]
           l == Len(list)
<1>3. list \in Seq(Postings(Doc))
  BY <1>1 DEF WorkersInv, Typed
<1>4. /\ u \in Seq(Postings(Doc))
      /\ \/ /\ l > 0 /\ Len(u) = l /\ list[l].doc = docNum[w] /\ u[l].doc = docNum[w]
            /\ \A i \in 1 .. l - 1 : u[i] = list[i]
         \/ /\ Len(u) = l + 1 /\ u[l + 1].doc = docNum[w]
            /\ \A i \in 1 .. l : u[i] = list[i]
  <2>1. u = AddUnchecked(list, docNum[w], left[w][j]) /\ docNum[w] \in Doc /\ left[w][j] \in Nat
    BY <1>1, <1>2
  <2> QED
    BY <1>3, <2>1, AddUncheckedCases
<1>5. DOMAIN list = 1 .. l /\ l \in Nat /\ DOMAIN u = 1 .. Len(u)
  BY <1>3, <1>4, LenProperties
<1> HIDE DEF list, u, l
<1>6. ASSUME NEW i \in DOMAIN list PROVE i \in DOMAIN u /\ u[i].doc = list[i].doc
  <2>1. i \in 1 .. l /\ i \in 1 .. l + 1 /\ (i = l \/ i \in 1 .. l - 1)
    BY <1>5
  <2>2. CASE /\ Len(u) = l /\ list[l].doc = docNum[w] /\ u[l].doc = docNum[w]
             /\ \A j1 \in 1 .. l - 1 : u[j1] = list[j1]
    BY <1>5, <2>1, <2>2
  <2>3. CASE Len(u) = l + 1 /\ \A j1 \in 1 .. l : u[j1] = list[j1]
    BY <1>5, <2>1, <2>3
  <2> QED
    BY <1>4, <2>2, <2>3
<1>7. \E i \in DOMAIN u : u[i].doc = docNum[w]
  <2>1. CASE l > 0 /\ Len(u) = l /\ u[l].doc = docNum[w]
    <3>1. l \in DOMAIN u
      BY <1>5, <2>1
    <3> QED
      BY <2>1, <3>1
  <2>2. CASE Len(u) = l + 1 /\ u[l + 1].doc = docNum[w]
    <3>1. l + 1 \in DOMAIN u
      BY <1>5, <2>2
    <3> QED
      BY <2>2, <3>1
  <2> QED
    BY <1>4, <2>1, <2>2
<1>8. \A k \in Word : \A d : HasPosting(d, k) => HasPosting(d, k)'
  <2> SUFFICES ASSUME NEW k \in Word, NEW d, HasPosting(d, k) PROVE HasPosting(d, k)'
    OBVIOUS
  <2>1. CASE k = j
    BY <1>6, <2>1 DEF HasPosting, list, u
  <2>2. CASE k # j
    BY <1>1, <2>2 DEF HasPosting
  <2> QED
    BY <2>1, <2>2
<1>9. HasPosting(docNum[w], j)'
  BY <1>2, <1>7 DEF HasPosting, u
<1>10. Grown
  BY <1>2, <1>8 DEF Grown, Doc
<1> QED
  BY <1>1, <1>9, <1>10

\* The other steps leave what was sent and what is posted.
LEMMA OtherGrows ==
  ASSUME UNCHANGED <<documents, sent, termInvertedIndex>>, acked \subseteq acked'
  PROVE  Grown
BY DEF Grown, HasPosting, Doc

\* A worker whose variables, but for the answer its client has, stay as they are.
Untouched(v) ==
  /\ pc'[v] = pc[v] /\ docNum'[v] = docNum[v] /\ left'[v] = left[v] /\ terms'[v] = terms[v]
  /\ at'[v] = at[v] /\ docScores'[v] = docScores[v] /\ asked'[v] = asked[v]

\* What a step adds does no harm to the searches and requests of other workers.
LEMMA OthersSearch ==
  ASSUME WorkersInv, WorkersInv', SearchInv, Grown, NEW v \in Worker, Untouched(v)
  PROVE  WordsPosted(v)' /\ LeftWhole(v)' /\ OwedAcked(v)' /\ Scored(v)'
<1>1. /\ pc'[v] = pc[v] /\ docNum'[v] = docNum[v] /\ left'[v] = left[v] /\ terms'[v] = terms[v]
      /\ at'[v] = at[v] /\ docScores'[v] = docScores[v] /\ asked'[v] = asked[v]
  BY DEF Untouched
<1>2. WordsPosted(v) /\ LeftWhole(v) /\ OwedAcked(v) /\ Scored(v)
  BY DEF SearchInv
<1>3. WordsPosted(v)'
  <2> SUFFICES ASSUME pc[v] = "update", NEW i \in DOMAIN asked[v].q.terms
               PROVE  \/ asked[v].q.terms[i].term \in DOMAIN left[v]
                      \/ HasPosting(docNum[v], asked[v].q.terms[i].term)'
    BY <1>1 DEF WordsPosted, HasPosting
  <2>1. asked[v].q.terms[i].term \in Word
    BY RequestType DEF WorkersInv, Serving
  <2>2. \/ asked[v].q.terms[i].term \in DOMAIN left[v]
        \/ HasPosting(docNum[v], asked[v].q.terms[i].term)
    BY <1>2 DEF WordsPosted
  <2> DEFINE k == asked[v].q.terms[i].term
  <2>3. HasPosting(docNum[v], k) => \E j \in DOMAIN termInvertedIndex'[k] : termInvertedIndex'[k][j].doc = docNum[v]
    <3> HIDE DEF k
    <3> QED
      BY <2>1 DEF Grown, HasPosting, k
  <2> QED
    BY <1>1, <2>2, <2>3 DEF HasPosting
<1>4. LeftWhole(v)'
  <2> SUFFICES ASSUME docNum[v] \in Doc', Len(sent'[docNum[v]]) = 1, NEW k \in DOMAIN left[v]
               PROVE  left[v][k] = TotalIn(sent'[docNum[v]], k)
    BY <1>1 DEF LeftWhole
  <2>1. docNum[v] \in Doc
    <3>1. docNum[v] # 0
      BY LenProperties DEF WorkersInv, Typed, Doc
    <3> QED
      BY <3>1 DEF WorkersInv, Serving
  <2>2. sent'[docNum[v]] = sent[docNum[v]]
    <3>1. ~(1 > 1)
      OBVIOUS
    <3>2. sent'[docNum[v]] = sent[docNum[v]] \/ Len(sent'[docNum[v]]) > 1
      BY <2>1 DEF Grown
    <3> QED
      BY <3>1, <3>2
  <2> QED
    BY <1>2, <2>1, <2>2 DEF LeftWhole
<1>5. OwedAcked(v)'
  BY <1>1, <1>2 DEF OwedAcked, Grown
<1>6. Scored(v)'
  <2> SUFFICES ASSUME pc[v] = "lookup", at[v] > 1, NEW d \in DOMAIN docScores[v]
               PROVE  /\ docScores[v][d] <= PartialIn(sent'[d], terms[v], at[v] - 1)
                      /\ Len(sent'[d]) = 1 => docScores[v][d] = PartialIn(sent'[d], terms[v], at[v] - 1)
    BY <1>1, <1>2 DEF Scored
  <2> DEFINE n == at[v] - 1
  <2>1. /\ docScores[v][d] <= PartialIn(sent[d], terms[v], n)
        /\ Len(sent[d]) = 1 => docScores[v][d] = PartialIn(sent[d], terms[v], n)
    BY <1>2 DEF Scored
  <2>2. d \in Doc /\ docScores[v][d] \in Nat
    <3>1. docScores[v] \in Scores(Doc)
      BY DEF WorkersInv, Typed
    <3> QED
      BY <3>1, ScoresType
  <2>3. /\ n \in Nat /\ terms[v] \in Seq(Word) /\ \A i \in 1 .. n : terms[v][i] \in Word
    <3>1. terms[v] \in Seq(Word) /\ at[v] \in 1 .. Len(terms[v]) + 1
      BY DEF WorkersInv, Typed, Serving
    <3>2. Len(terms[v]) \in Nat
      BY <3>1, LenProperties
    <3>3. n \in Nat /\ \A i \in 1 .. n : i \in 1 .. Len(terms[v])
      BY <3>1, <3>2
    <3> QED
      BY <3>1, <3>3, ElementOfSeq
  <2> HIDE DEF n
  <2>4. CASE sent'[d] = sent[d]
    BY <2>1, <2>4 DEF n
  <2>5. CASE /\ Len(sent'[d]) > 1
             /\ \A k \in Word : TotalIn(sent[d], k) <= TotalIn(sent'[d], k)
    <3>1. sent[d] \in Seq(Scores(Word))
      BY <2>2, SentType
    <3>2. sent'[d] \in Seq(Scores(Word))
      <4>1. d \in Doc'
        BY <2>2 DEF Grown
      <4>2. Doc' = 1 .. Len(sent') /\ sent' \in Seq(Seq(Scores(Word)))
        BY LenProperties DEF WorkersInv, Typed, Doc
      <4> QED
        BY <4>1, <4>2, ElementOfSeq
    <3>3. PartialIn(sent[d], terms[v], n) <= PartialIn(sent'[d], terms[v], n)
      BY <2>3, <2>5, <3>1, <3>2, PartialMore
    <3>4. PartialIn(sent[d], terms[v], n) \in Nat /\ PartialIn(sent'[d], terms[v], n) \in Nat
      BY <2>3, <3>1, <3>2, PartialType
    <3>5. Len(sent'[d]) # 1
      <4>1. ~(1 > 1)
        OBVIOUS
      <4> QED
        BY <2>5, <4>1
    <3> QED
      BY <2>1, <2>2, <3>3, <3>4, <3>5 DEF n
  <2> QED
    BY <2>2, <2>4, <2>5 DEF Grown
<1> QED
  BY <1>3, <1>4, <1>5, <1>6

\* Postings that do not change still hold what was sent.
LEMMA OnceKept ==
  ASSUME WorkersInv, SearchInv, Grown, UNCHANGED termInvertedIndex
  PROVE  OncePosted'
<1> SUFFICES ASSUME NEW k \in Word, NEW i \in DOMAIN termInvertedIndex[k],
                    Len(sent'[termInvertedIndex[k][i].doc]) = 1
             PROVE  termInvertedIndex[k][i].freq = TotalIn(sent'[termInvertedIndex[k][i].doc], k)
  BY DEF OncePosted
<1> DEFINE d == termInvertedIndex[k][i].doc
<1>1. d \in Doc
  <2>1. termInvertedIndex[k] \in Seq(Postings(Doc))
    BY DEF WorkersInv, Typed
  <2>2. \A j \in DOMAIN termInvertedIndex[k] : termInvertedIndex[k][j] \in Postings(Doc)
    BY <2>1, ElementOfSeq, LenProperties
  <2> QED
    BY <2>2 DEF Postings
<1>2. sent'[d] = sent[d]
  <2>1. ~(1 > 1)
    OBVIOUS
  <2>2. sent'[d] = sent[d] \/ Len(sent'[d]) > 1
    BY <1>1 DEF Grown
  <2> QED
    BY <2>1, <2>2
<1> QED
  BY <1>2 DEF SearchInv, OncePosted

\* What is acknowledged stays posted.
LEMMA AckedKept ==
  ASSUME WorkersInv, SearchInv, Grown, UNCHANGED acked
  PROVE  AckedPosted'
<1> SUFFICES ASSUME NEW p \in acked PROVE HasPosting(p[1], p[2])'
  BY DEF AckedPosted, HasPosting
<1>1. p[2] \in Word
  BY DEF WorkersInv, Typed
<1>2. HasPosting(p[1], p[2])
  BY DEF SearchInv, AckedPosted
<1> QED
  BY <1>1, <1>2 DEF Grown, HasPosting

\* Accepting a request keeps the invariant: all of its words are left to add.
LEMMA AcceptedSearch ==
  ASSUME WorkersInv, WorkersInv', SearchInv, NEW w \in Worker, NEW q \in Requests,
         NEW b \in Payloads(EncodeIndexRequest(q.id, q.path, q.terms)), Accepted(w, q, b),
         pc[w] = "receive", UNCHANGED <<termInvertedIndex, searching, acked>>
  PROVE  SearchInv'
<1> DEFINE c == WordCountsOf(DecodeIndexRequest(b))
           e == docNum'[w]
<1>1. /\ c \in Scores(Word) /\ left'[w] = c
      /\ \A v \in Worker : v # w => docNum'[v] = docNum[v] /\ left'[v] = left[v]
      /\ \/ e \in Doc /\ Doc' = Doc /\ sent'[e] = Append(sent[e], c)
         \/ e \notin Doc /\ Doc' = Doc \union {e} /\ sent'[e] = <<c>>
      /\ \A d \in Doc : d # e => sent'[d] = sent[d]
  BY AcceptedCounts
<1>2. DOMAIN c = {q.terms[i].term : i \in 1 .. Len(q.terms)}
  BY AcceptedPuts
<1>3. /\ asked' = [asked EXCEPT ![w] = [q |-> q, whole |-> b = EncodeIndexRequest(q.id, q.path, q.terms)]]
      /\ pc' = [pc EXCEPT ![w] = "update"]
  BY DEF Accepted
<1> HIDE DEF c, e
<1>4. Grown
  BY AcceptedGrows
<1>5. /\ pc'[w] = "update" /\ asked'[w].q = q
      /\ \A v \in Worker : v # w => pc'[v] = pc[v] /\ asked'[v] = asked[v]
  BY <1>3 DEF WorkersInv, Typed
<1>6. e \in Doc => Len(sent'[e]) > 1
  <2> SUFFICES ASSUME e \in Doc PROVE Len(Append(sent[e], c)) > 1
    BY <1>1
  <2>1. sent[e] \in Seq(Scores(Word)) /\ Len(sent[e]) \in Nat /\ Len(sent[e]) >= 1
    BY SentType DEF SearchInv, SentOnce
  <2>2. Len(Append(sent[e], c)) = Len(sent[e]) + 1
    BY <1>1, <2>1, AppendProperties
  <2> QED
    BY <2>1, <2>2
<1>7. SentOnce'
  <2> SUFFICES ASSUME NEW d \in Doc' PROVE Len(sent'[d]) >= 1
    BY DEF SentOnce
  <2>1. CASE d # e
    BY <1>1, <2>1 DEF SearchInv, SentOnce
  <2>2. CASE d = e /\ e \in Doc
    <3>1. Len(sent'[e]) \in Nat
      BY <2>2, SentType, <1>1, AppendProperties
    <3> QED
      BY <1>6, <2>2, <3>1
  <2>3. CASE d = e /\ e \notin Doc
    <3>1. Len(<<c>>) = 1
      OBVIOUS
    <3> QED
      BY <1>1, <2>3, <3>1
  <2> QED
    BY <2>1, <2>2, <2>3
<1>8. AckedPosted' /\ OncePosted'
  BY <1>4, AckedKept, OnceKept
<1>9. ASSUME NEW v \in Worker, v # w
      PROVE  WordsPosted(v)' /\ LeftWhole(v)' /\ OwedAcked(v)' /\ Scored(v)'
  <2>1. Untouched(v)
    BY <1>1, <1>5, <1>9 DEF Untouched, searching
  <2> QED
    BY <1>4, <2>1, OthersSearch
<1>10. WordsPosted(w)'
  <2>1. DOMAIN q.terms = 1 .. Len(q.terms)
    BY RequestType
  <2> QED
    BY <1>1, <1>2, <1>5, <2>1 DEF WordsPosted
<1>11. LeftWhole(w)'
  <2> SUFFICES ASSUME Len(sent'[e]) = 1, NEW k \in DOMAIN c PROVE c[k] = TotalIn(sent'[e], k)
    BY <1>1 DEF LeftWhole, e
  <2>1. ~(1 > 1)
    OBVIOUS
  <2>2. sent'[e] = <<c>>
    BY <1>1, <1>6, <2>1
  <2>3. TotalIn(<<c>>, k) = Count(c, k)
    BY <1>1, TotalOfOne
  <2>4. Count(c, k) = c[k]
    BY DEF Count
  <2> QED
    BY <2>2, <2>3, <2>4
<1>12. OwedAcked(w)' /\ Scored(w)'
  BY <1>5 DEF OwedAcked, Scored
<1> QED
  BY <1>7, <1>8, <1>9, <1>10, <1>11, <1>12 DEF SearchInv

\* What a list has of a document is at least what each posting of it has.
LEMMA PostingAtMost ==
  ASSUME NEW D, NEW list \in Seq(Postings(D)), NEW i \in 1 .. Len(list)
  PROVE  list[i].freq <= PostedIn(list, list[i].doc)
<1> DEFINE f == Freqs(list, list[i].doc)
           S == 1 .. Len(list)
<1>1. f \in [S -> Nat] /\ f[i] = list[i].freq /\ Len(list) \in Nat
  BY FreqsType
<1>2. IsFiniteSet(S) /\ i \in S
  BY <1>1, ListFinite
<1> HIDE DEF f, S
<1>3. f[i] <= Sum(f)
  BY <1>1, <1>2, TermInSum
<1> QED
  BY <1>1, <1>3 DEF PostedIn, f

\* Before the count of a document sent once is added, nothing is posted for it.
LEMMA NothingPosted ==
  ASSUME WorkersInv, CountsKept, SearchInv, NEW w \in Worker, docNum[w] \in Doc,
         Len(sent[docNum[w]]) = 1, NEW j \in DOMAIN left[w]
  PROVE  /\ left[w][j] = TotalIn(sent[docNum[w]], j) /\ j \in Word
         /\ PostedIn(termInvertedIndex[j], docNum[w]) = 0
<1> DEFINE e == docNum[w]
           m == left[w][j]
           f == Held(docNum, left, e, j)
<1>1. m = TotalIn(sent[e], j)
  BY DEF SearchInv, LeftWhole
<1>2. left \in [Worker -> Scores(Word)] /\ j \in Word /\ m \in Nat
  <2>1. left \in [Worker -> Scores(Word)]
    BY DEF WorkersInv, Typed
  <2> QED
    BY <2>1, ScoresType
<1>3. f \in [Worker -> Nat] /\ f[w] = m /\ Sum(f) \in Nat
  <2>1. f[w] = m
    BY DEF Held, Count
  <2> QED
    BY <1>2, <2>1, HeldType
<1>4. Posted(e, j) + Pending(e, j) = Total(e, j) /\ Posted(e, j) \in Nat
  BY <1>2, PostedType DEF CountsKept
<1>5. Pending(e, j) = Sum(f) /\ Total(e, j) = TotalIn(sent[e], j) /\ Posted(e, j) = PostedIn(termInvertedIndex[j], e)
  BY SumsNamed
<1> HIDE DEF f, e, m
<1>6. m <= Sum(f)
  BY <1>3, TermInSum, WorkerAssumption
<1>7. Posted(e, j) + Sum(f) = m
  BY <1>1, <1>4, <1>5
<1>8. Posted(e, j) = 0
  BY <1>2, <1>3, <1>4, <1>6, <1>7
<1> QED
  BY <1>1, <1>2, <1>5, <1>8 DEF e, m

\* A turn of updateIndex keeps it: the one count of a document sent once goes into a new posting.
LEMMA UpdateSearch ==
  ASSUME WorkersInv, WorkersInv', CountsKept, SearchInv, NEW w \in Worker, Update(w)
  PROVE  SearchInv'
<1>1. PICK j \in DOMAIN left[w] :
        /\ j \in Word /\ left[w][j] \in Nat
        /\ left'[w] = [i \in DOMAIN left[w] \ {j} |-> left[w][i]]
        /\ \A v \in Worker : v # w => left'[v] = left[v]
        /\ termInvertedIndex'[j] = AddUnchecked(termInvertedIndex[j], docNum[w], left[w][j])
        /\ \A i \in Word : i # j => termInvertedIndex'[i] = termInvertedIndex[i]
  BY UpdateCases
<1>2. /\ pc[w] = "update" /\ docNum[w] \in Doc
      /\ UNCHANGED <<documents, pc, docNum, terms, at, docScores, asked, sent, acked>>
  BY UpdateCases DEF history, searching
<1>3. Grown
  BY UpdateGrows
<1> DEFINE e == docNum[w]
           m == left[w][j]
           list == termInvertedIndex[j]
           u == termInvertedIndex'[j]
           l == Len(list)
<1>4. list \in Seq(Postings(Doc)) /\ u = AddUnchecked(list, e, m) /\ e \in Doc /\ m \in Nat
  BY <1>1, <1>2 DEF WorkersInv, Typed
<1>5. /\ u \in Seq(Postings(Doc))
      /\ \/ /\ l > 0 /\ Len(u) = l /\ list[l].doc = e /\ u[l].doc = e
            /\ u[l].freq = list[l].freq + m
            /\ \A x \in 1 .. l - 1 : u[x] = list[x]
         \/ /\ Len(u) = l + 1 /\ u[l + 1].doc = e /\ u[l + 1].freq = m
            /\ \A x \in 1 .. l : u[x] = list[x]
  <2> HIDE DEF u, list, e, m
  <2> QED
    BY <1>4, AddUncheckedCases
<1>6. /\ DOMAIN u = 1 .. Len(u) /\ DOMAIN list = 1 .. l /\ l \in Nat
  <2> HIDE DEF u, list
  <2> QED
    BY <1>4, <1>5, LenProperties
<1>7. \E i \in DOMAIN u : u[i].doc = e
  <2> HIDE DEF u, l, e, list, m
  <2>1. CASE u[l].doc = e /\ Len(u) = l /\ l > 0
    <3>1. l \in DOMAIN u
      BY <1>6, <2>1
    <3> QED
      BY <2>1, <3>1
  <2>2. CASE u[l + 1].doc = e /\ Len(u) = l + 1
    <3>1. l + 1 \in DOMAIN u
      BY <1>6, <2>2
    <3> QED
      BY <2>2, <3>1
  <2> QED
    BY <1>5, <2>1, <2>2
<1>8. OncePosted'
  <2> SUFFICES ASSUME NEW k \in Word, NEW i \in DOMAIN termInvertedIndex'[k],
                      Len(sent[termInvertedIndex'[k][i].doc]) = 1
               PROVE  termInvertedIndex'[k][i].freq = TotalIn(sent[termInvertedIndex'[k][i].doc], k)
    BY <1>2 DEF OncePosted
  <2>1. CASE k # j
    BY <1>1, <2>1 DEF SearchInv, OncePosted
  <2>2. CASE k = j
    <3>3. i \in DOMAIN u
      BY <2>2
    <3>4. \A x \in 1 .. l : list[x].freq \in Nat /\ list[x].freq <= PostedIn(list, list[x].doc)
      BY <1>4, FreqsType, PostingAtMost
    <3>5. \A x \in 1 .. l : Len(sent[list[x].doc]) = 1 => list[x].freq = TotalIn(sent[list[x].doc], j)
      BY <1>1, <1>6 DEF SearchInv, OncePosted
    <3>6. Len(sent[e]) = 1 => m = TotalIn(sent[e], j) /\ PostedIn(list, e) = 0
      BY <1>2, NothingPosted
    <3>7. Len(sent[u[i].doc]) = 1
      BY <2>2
    <3>8. m \in Nat
      BY <1>1
    <3> HIDE DEF u, list, l, m, e
    <3>9. u[i].freq = TotalIn(sent[u[i].doc], j)
      <4>1. CASE i \in 1 .. l /\ u[i] = list[i]
        BY <3>5, <3>7, <4>1
      <4>2. CASE /\ i = l /\ l > 0 /\ list[l].doc = e /\ u[l].doc = e
                 /\ u[l].freq = list[l].freq + m
        <5>1. Len(sent[e]) = 1 /\ l \in 1 .. l
          BY <1>6, <3>7, <4>2
        <5>2. list[l].freq \in Nat /\ list[l].freq <= 0
          BY <3>4, <3>6, <4>2, <5>1
        <5>3. list[l].freq + m = m
          BY <3>8, <5>2
        <5> QED
          BY <3>6, <4>2, <5>1, <5>3
      <4>3. CASE i = l + 1 /\ u[l + 1].doc = e /\ u[l + 1].freq = m
        BY <3>6, <3>7, <4>3
      <4>4. CASE /\ l > 0 /\ Len(u) = l /\ list[l].doc = e /\ u[l].doc = e
                 /\ u[l].freq = list[l].freq + m
                 /\ \A x \in 1 .. l - 1 : u[x] = list[x]
        <5>1. i \in 1 .. l /\ (i = l \/ i \in 1 .. l - 1)
          BY <1>6, <3>3, <4>4
        <5> QED
          BY <4>1, <4>2, <4>4, <5>1
      <4>5. CASE /\ Len(u) = l + 1 /\ u[l + 1].doc = e /\ u[l + 1].freq = m
                 /\ \A x \in 1 .. l : u[x] = list[x]
        <5>1. i = l + 1 \/ i \in 1 .. l
          BY <1>6, <3>3, <4>5
        <5> QED
          BY <4>1, <4>3, <4>5, <5>1
      <4> QED
        BY <1>5, <4>4, <4>5
    <3> QED
      BY <2>2, <3>9 DEF u
  <2> QED
    BY <2>1, <2>2
<1>9. SentOnce' /\ AckedPosted'
  <2>1. AckedPosted'
    BY <1>2, <1>3, AckedKept
  <2> QED
    BY <1>2, <2>1 DEF SearchInv, SentOnce, Doc
<1>10. ASSUME NEW v \in Worker, v # w
      PROVE  WordsPosted(v)' /\ LeftWhole(v)' /\ OwedAcked(v)' /\ Scored(v)'
  <2>1. Untouched(v)
    BY <1>1, <1>2, <1>10 DEF Untouched
  <2> QED
    BY <1>3, <2>1, OthersSearch
<1>11. WordsPosted(w)'
  <2> SUFFICES ASSUME NEW i \in DOMAIN asked[w].q.terms
               PROVE  LET k == asked[w].q.terms[i].term
                      IN  k \in DOMAIN left'[w] \/
                          \E x \in DOMAIN termInvertedIndex'[k] : termInvertedIndex'[k][x].doc = e
    BY <1>2 DEF WordsPosted, HasPosting
  <2> DEFINE k == asked[w].q.terms[i].term
             P(h) == \E x \in DOMAIN termInvertedIndex'[h] : termInvertedIndex'[h][x].doc = e
  <2>1. k \in Word
    BY <1>2, RequestType DEF WorkersInv, Serving
  <2>2. k \in DOMAIN left[w] \/ HasPosting(e, k)
    BY <1>2 DEF SearchInv, WordsPosted
  <2>3. P(j)
    BY <1>7
  <2>4. \A h \in Word : HasPosting(e, h) => P(h)
    BY <1>3 DEF Grown, HasPosting
  <2> HIDE DEF k, e, P
  <2>5. k \in DOMAIN left'[w] \/ P(k)
    BY <1>1, <2>1, <2>2, <2>3, <2>4
  <2> QED
    BY <2>5 DEF k, P
<1>12. LeftWhole(w)'
  BY <1>1, <1>2 DEF SearchInv, LeftWhole, Doc
<1>13. OwedAcked(w)' /\ Scored(w)'
  BY <1>2 DEF OwedAcked, Scored
<1> QED
  BY <1>8, <1>9, <1>10, <1>11, <1>12, <1>13 DEF SearchInv

\* What lookup finds of word k in a document is at most what was sent, and all of it when
\* the document was sent once; and it finds every document posted.
LEMMA LookedUp ==
  ASSUME WorkersInv, CountsKept, SearchInv, NEW k \in Word
  PROVE  LET f == LastFreqs(termInvertedIndex[k])
         IN  /\ f \in Scores(Doc)
             /\ \A d \in DOMAIN f : /\ d \in Doc /\ f[d] \in Nat
                                    /\ f[d] <= TotalIn(sent[d], k)
                                    /\ Len(sent[d]) = 1 => f[d] = TotalIn(sent[d], k)
             /\ \A d : HasPosting(d, k) => d \in DOMAIN f
<1> DEFINE list == termInvertedIndex[k]
           f == LastFreqs(list)
<1>1. list \in Seq(Postings(Doc))
  BY DEF WorkersInv, Typed
<1>2. /\ f \in Scores(Doc) /\ DOMAIN f = {list[i].doc : i \in 1 .. Len(list)}
      /\ \A d \in DOMAIN f : \E i \in 1 .. Len(list) : list[i].doc = d /\ list[i].freq = f[d]
  <2> HIDE DEF list
  <2> QED
    BY <1>1, LastFreqsType
<1>3. DOMAIN list = 1 .. Len(list) /\ \A i \in 1 .. Len(list) : list[i].freq \in Nat
  <2> HIDE DEF list
  <2> QED
    BY <1>1, FreqsType
<1>4. \A d : HasPosting(d, k) => d \in DOMAIN f
  BY <1>2, <1>3 DEF HasPosting
<1>5. ASSUME NEW d \in DOMAIN f
      PROVE  /\ d \in Doc /\ f[d] \in Nat
             /\ f[d] <= TotalIn(sent[d], k)
             /\ Len(sent[d]) = 1 => f[d] = TotalIn(sent[d], k)
  <2>1. PICK i \in 1 .. Len(list) : list[i].doc = d /\ list[i].freq = f[d]
    BY <1>2
  <2>2. d \in Doc
    BY <1>2, ScoresType
  <2>3. f[d] \in Nat
    BY <1>3, <2>1
  <2>4. Len(sent[d]) = 1 => f[d] = TotalIn(sent[d], k)
    BY <1>3, <2>1 DEF SearchInv, OncePosted
  <2>5. f[d] <= PostedIn(list, d)
    <3> HIDE DEF list, f
    <3>1. list[i].freq <= PostedIn(list, list[i].doc)
      BY <1>1, PostingAtMost
    <3> QED
      BY <2>1, <3>1
  <2>6. PostedIn(list, d) \in Nat /\ PostedIn(list, d) <= TotalIn(sent[d], k)
    <3>1. Posted(d, k) + Pending(d, k) = Total(d, k)
      BY <2>2 DEF CountsKept
    <3>2. Posted(d, k) \in Nat
      BY PostedType
    <3>3. left \in [Worker -> Scores(Word)]
      BY DEF WorkersInv, Typed
    <3>4. Pending(d, k) \in Nat
      <4>1. Sum(Held(docNum, left, d, k)) \in Nat
        BY <3>3, HeldType
      <4> QED
        BY <4>1, SumsNamed
    <3>5. TotalIn(sent[d], k) = Total(d, k) /\ PostedIn(list, d) = Posted(d, k)
      BY SumsNamed
    <3> HIDE DEF list
    <3> QED
      BY <3>1, <3>2, <3>4, <3>5
  <2>7. TotalIn(sent[d], k) \in Nat
    BY <2>2, TotalType, SumsNamed
  <2> HIDE DEF f, list
  <2>8. f[d] <= TotalIn(sent[d], k)
    BY <2>3, <2>5, <2>6, <2>7
  <2> QED
    BY <2>2, <2>3, <2>4, <2>8
<1> HIDE DEF f
<1> QED
  BY <1>2, <1>4, <1>5 DEF f

\* A turn of the lookup keeps it: every document owed has a posting for the term.
LEMMA LookupTermSearch ==
  ASSUME WorkersInv, WorkersInv', CountsKept, SearchInv, NEW w \in Worker, LookupTerm(w)
  PROVE  SearchInv'
<1> DEFINE n == at[w]
           k == terms[w][n]
           f == LastFreqs(termInvertedIndex[k])
           next == NextScores(w)
<1>1. /\ pc[w] = "lookup" /\ n \in 1 .. Len(terms[w]) /\ Len(terms[w]) \in Nat /\ k \in Word
      /\ UNCHANGED <<documents, termInvertedIndex, pc, docNum, left, terms, asked, sent, acked>>
      /\ docScores'[w] = next
      /\ at'[w] = IF DOMAIN next = {} THEN Len(terms[w]) + 1 ELSE n + 1
      /\ \A v \in Worker : v # w => at'[v] = at[v] /\ docScores'[v] = docScores[v]
  <2> HIDE DEF NextScores
  <2> QED
    BY LookupTermCases DEF store, indexing, history
<1>2. Grown
  BY <1>1, OtherGrows
<1>3. next = IF n = 1 THEN f ELSE Intersect(docScores[w], f)
  BY DEF NextScores
<1>4. SentOnce' /\ AckedPosted' /\ OncePosted'
  <2>1. AckedPosted' /\ OncePosted'
    BY <1>1, <1>2, AckedKept, OnceKept
  <2> QED
    BY <1>1, <2>1 DEF SearchInv, SentOnce, Doc
<1>5. ASSUME NEW v \in Worker, v # w
      PROVE  WordsPosted(v)' /\ LeftWhole(v)' /\ OwedAcked(v)' /\ Scored(v)'
  <2>1. Untouched(v)
    BY <1>1, <1>5 DEF Untouched
  <2> QED
    BY <1>2, <2>1, OthersSearch
<1>6. WordsPosted(w)' /\ LeftWhole(w)' /\ OwedAcked(w)'
  <2>1. WordsPosted(w)'
    BY <1>1 DEF WordsPosted
  <2>2. LeftWhole(w)'
    BY <1>1 DEF SearchInv, LeftWhole, Doc
  <2>3. OwedAcked(w)'
    BY <1>1 DEF SearchInv, OwedAcked
  <2> QED
    BY <2>1, <2>2, <2>3
<1>7. /\ f \in Scores(Doc)
      /\ \A d \in DOMAIN f : /\ d \in Doc /\ f[d] \in Nat
                             /\ f[d] <= TotalIn(sent[d], k)
                             /\ Len(sent[d]) = 1 => f[d] = TotalIn(sent[d], k)
      /\ \A d : HasPosting(d, k) => d \in DOMAIN f
  <2> HIDE DEF k
  <2> QED
    BY <1>1, LookedUp
<1>8. asked[w].owed \subseteq DOMAIN f
  <2> SUFFICES ASSUME NEW d \in asked[w].owed PROVE d \in DOMAIN f
    OBVIOUS
  <2>1. asked[w].whole /\ terms[w] = asked[w].q
    <3>1. terms[w] = IF asked[w].whole THEN asked[w].q ELSE <<>>
      BY <1>1 DEF WorkersInv, Understood
    <3>2. terms[w] # <<>>
      BY <1>1, EmptySeq
    <3> QED
      BY <3>1, <3>2
  <2>2. n \in DOMAIN terms[w]
    <3>1. terms[w] \in Seq(Word)
      BY DEF WorkersInv, Typed
    <3> QED
      BY <1>1, <3>1, LenProperties
  <2>3. <<d, k>> \in acked
    BY <1>1, <2>1, <2>2 DEF SearchInv, OwedAcked
  <2>4. HasPosting(d, k)
    <3>1. \A p \in acked : HasPosting(p[1], p[2])
      BY DEF SearchInv, AckedPosted
    <3> HIDE DEF k
    <3> QED
      BY <2>3, <3>1
  <2> HIDE DEF k, f
  <2> QED
    BY <1>7, <2>4
<1>9. ASSUME NEW d \in DOMAIN f
      PROVE  /\ PartialIn(sent[d], terms[w], 0) = 0
             /\ n - 1 \in Nat /\ n - 1 + 1 = n
             /\ PartialIn(sent[d], terms[w], n - 1) \in Nat
             /\ PartialIn(sent[d], terms[w], n) = PartialIn(sent[d], terms[w], n - 1) + TotalIn(sent[d], k)
             /\ TotalIn(sent[d], k) \in Nat
  <2>1. n - 1 \in Nat /\ n - 1 + 1 = n
    BY <1>1
  <2>2. d \in Doc
    <3> HIDE DEF f, k
    <3> QED
      BY <1>7
  <2>3. sent[d] \in Seq(Scores(Word))
    BY <2>2, SentType
  <2> HIDE DEF n
  <2>4. PartialIn(sent[d], terms[w], 0) = 0 /\ PartialIn(sent[d], terms[w], n - 1) \in Nat
    BY <2>1, <2>3, PartialType
  <2>5. PartialIn(sent[d], terms[w], n - 1 + 1) = PartialIn(sent[d], terms[w], n - 1) + TotalIn(sent[d], terms[w][n - 1 + 1])
    <3> DEFINE i == n - 1
    <3>1. i \in Nat
      BY <2>1
    <3> HIDE DEF i
    <3>2. PartialIn(sent[d], terms[w], i + 1) = PartialIn(sent[d], terms[w], i) + TotalIn(sent[d], terms[w][i + 1])
      BY <2>3, <3>1, PartialNext
    <3> QED
      BY <3>2 DEF i
  <2>6. TotalIn(sent[d], k) \in Nat
    BY <2>3, TermsType
  <2> QED
    BY <2>1, <2>4, <2>5, <2>6
<1>10. ASSUME n # 1
       PROVE  /\ asked[w].owed \subseteq DOMAIN docScores[w]
              /\ \A d \in DOMAIN docScores[w] :
                   /\ docScores[w][d] \in Nat
                   /\ docScores[w][d] <= PartialIn(sent[d], terms[w], n - 1)
                   /\ Len(sent[d]) = 1 => docScores[w][d] = PartialIn(sent[d], terms[w], n - 1)
  <2>1. n > 1
    BY <1>1, <1>10
  <2>2. Scored(w)
    BY DEF SearchInv
  <2>3. docScores[w] \in Scores(Doc)
    BY DEF WorkersInv, Typed
  <2>4. \A d \in DOMAIN docScores[w] : docScores[w][d] \in Nat
    BY <2>3, ScoresType
  <2> QED
    BY <1>1, <2>1, <2>2, <2>4 DEF Scored
<1>11. asked[w].owed \subseteq DOMAIN next
  <2> HIDE DEF f, next, n
  <2>1. CASE n = 1
    BY <1>3, <1>8, <2>1
  <2>2. CASE n # 1
    BY <1>3, <1>8, <1>10, <2>2 DEF Intersect
  <2> QED
    BY <2>1, <2>2
<1>12. ASSUME NEW d \in DOMAIN next
       PROVE  /\ next[d] <= PartialIn(sent[d], terms[w], n)
              /\ Len(sent[d]) = 1 => next[d] = PartialIn(sent[d], terms[w], n)
  <2> HIDE DEF f, next, n, k
  <2>1. CASE n = 1
    <3>1. d \in DOMAIN f /\ next[d] = f[d]
      BY <1>3, <2>1
    <3>2. n - 1 = 0
      BY <2>1
    <3>3. PartialIn(sent[d], terms[w], n) = TotalIn(sent[d], k)
      BY <1>9, <3>1, <3>2
    <3> QED
      BY <1>7, <3>1, <3>3
  <2>2. CASE n # 1
    <3>1. d \in DOMAIN f /\ d \in DOMAIN docScores[w] /\ next[d] = docScores[w][d] + f[d]
      BY <1>3, <2>2 DEF Intersect
    <3>2. /\ docScores[w][d] \in Nat /\ f[d] \in Nat
          /\ docScores[w][d] <= PartialIn(sent[d], terms[w], n - 1) /\ f[d] <= TotalIn(sent[d], k)
          /\ Len(sent[d]) = 1 => docScores[w][d] = PartialIn(sent[d], terms[w], n - 1)
          /\ Len(sent[d]) = 1 => f[d] = TotalIn(sent[d], k)
      BY <1>7, <1>10, <2>2, <3>1
    <3>3. /\ PartialIn(sent[d], terms[w], n - 1) \in Nat /\ TotalIn(sent[d], k) \in Nat
          /\ PartialIn(sent[d], terms[w], n) = PartialIn(sent[d], terms[w], n - 1) + TotalIn(sent[d], k)
      BY <1>9, <3>1
    <3>4. next[d] <= PartialIn(sent[d], terms[w], n)
      BY <3>1, <3>2, <3>3
    <3>5. Len(sent[d]) = 1 => next[d] = PartialIn(sent[d], terms[w], n)
      BY <3>1, <3>2, <3>3
    <3> QED
      BY <3>4, <3>5
  <2> QED
    BY <2>1, <2>2
<1>13. DOMAIN next # {} => at'[w] - 1 = n
  <2> HIDE DEF next
  <2> QED
    BY <1>1
<1>14. Scored(w)'
  <2> HIDE DEF n, next, f, k
  <2> QED
    BY <1>1, <1>11, <1>12, <1>13 DEF Scored
<1> QED
  BY <1>4, <1>5, <1>6, <1>14 DEF SearchInv

\* No worker moves, but for one that a message without a type has left deaf.
Still == \A v \in Worker : pc'[v] = pc[v] \/ (pc[v] = "receive" /\ pc'[v] = "deaf")

\* A step that serves no search and leaves the store as it is.
LEMMA RefusedSearch ==
  ASSUME WorkersInv, WorkersInv', SearchInv,
         UNCHANGED <<documents, termInvertedIndex, docNum, left, terms, at, docScores, asked,
                     sent, acked>>, Still
  PROVE  SearchInv'
<1>1. Grown
  BY OtherGrows
<1>2. AckedPosted' /\ OncePosted'
  BY <1>1, AckedKept, OnceKept
<1>3. SentOnce'
  BY DEF SearchInv, SentOnce, Doc
<1>4. ASSUME NEW v \in Worker
      PROVE  WordsPosted(v)' /\ LeftWhole(v)' /\ OwedAcked(v)' /\ Scored(v)'
  <2>1. CASE pc'[v] = pc[v]
    <3>1. Untouched(v)
      BY <2>1 DEF Untouched
    <3> QED
      BY <1>1, <3>1, OthersSearch
  <2>2. CASE pc'[v] = "deaf" /\ pc[v] = "receive"
    <3>1. docNum[v] = 0 /\ 0 \notin Doc
      BY <2>2, LenProperties DEF WorkersInv, Typed, Serving, Doc
    <3> QED
      BY <2>2, <3>1 DEF WordsPosted, LeftWhole, OwedAcked, Scored, Doc
  <2> QED
    BY <2>1, <2>2 DEF Still
<1> QED
  BY <1>2, <1>3, <1>4 DEF SearchInv

\* SEARCH_REQUEST keeps it: what the client is owed has been acknowledged.
LEMMA ReceiveSearchSearch ==
  ASSUME WorkersInv, WorkersInv', SearchInv, NEW w \in Worker, ReceiveSearch(w)
  PROVE  SearchInv'
<1>1. PICK q \in Query, whole \in BOOLEAN :
        /\ terms' = [terms EXCEPT ![w] = IF whole THEN q ELSE <<>>]
        /\ asked' = [asked EXCEPT ![w] = [q |-> q, whole |-> whole, owed |-> OwedFor(q)]]
  BY ReceiveSearchCases
<1>2. /\ pc' = [pc EXCEPT ![w] = "lookup"] /\ pc[w] = "receive"
      /\ UNCHANGED <<documents, termInvertedIndex, docNum, left, at, docScores, sent, acked>>
  BY ReceiveSearchCases DEF store, indexing, Serve
<1>3. /\ pc'[w] = "lookup" /\ asked'[w].q = q /\ asked'[w].owed = OwedFor(q)
      /\ \A v \in Worker : v # w => terms'[v] = terms[v] /\ asked'[v] = asked[v] /\ pc'[v] = pc[v]
  BY <1>1, <1>2 DEF WorkersInv, Typed
<1>4. Grown
  BY <1>2, OtherGrows
<1>5. AckedPosted' /\ OncePosted'
  BY <1>2, <1>4, AckedKept, OnceKept
<1>6. SentOnce'
  BY <1>2 DEF SearchInv, SentOnce, Doc
<1>7. ASSUME NEW v \in Worker, v # w
      PROVE  WordsPosted(v)' /\ LeftWhole(v)' /\ OwedAcked(v)' /\ Scored(v)'
  <2>1. Untouched(v)
    BY <1>2, <1>3, <1>7 DEF Untouched
  <2> QED
    BY <1>4, <2>1, OthersSearch
<1>8. docNum[w] = 0 /\ at[w] = 1 /\ 0 \notin Doc
  <2>1. 0 \notin Doc
    BY LenProperties DEF WorkersInv, Typed, Doc
  <2> QED
    BY <1>2, <2>1 DEF WorkersInv, Serving
<1>9. WordsPosted(w)' /\ LeftWhole(w)' /\ Scored(w)'
  <2>1. ~(1 > 1) /\ at'[w] = 1
    BY <1>2, <1>8
  <2> QED
    BY <1>2, <1>3, <1>8, <2>1 DEF WordsPosted, LeftWhole, Scored, Doc
<1>10. OwedAcked(w)'
  BY <1>2, <1>3 DEF OwedAcked, OwedFor
<1> QED
  BY <1>5, <1>6, <1>7, <1>9, <1>10 DEF SearchInv

\* SEARCH_REPLY keeps it: the search is over.
LEMMA ReplySearchSearch ==
  ASSUME WorkersInv, WorkersInv', SearchInv, NEW w \in Worker, ReplySearch(w)
  PROVE  SearchInv'
<1>1. /\ pc[w] = "lookup"
      /\ terms' = [terms EXCEPT ![w] = <<>>]
      /\ at' = [at EXCEPT ![w] = 1]
      /\ docScores' = [docScores EXCEPT ![w] = NoScores]
      /\ asked' = [asked EXCEPT ![w] = <<>>]
      /\ pc' = [pc EXCEPT ![w] = "receive"]
      /\ UNCHANGED <<documents, termInvertedIndex, docNum, left, sent, acked>>
  BY DEF ReplySearch, store, indexing
<1>2. /\ pc'[w] = "receive"
      /\ \A v \in Worker : v # w => /\ pc'[v] = pc[v] /\ terms'[v] = terms[v] /\ at'[v] = at[v]
                                    /\ docScores'[v] = docScores[v] /\ asked'[v] = asked[v]
  BY <1>1 DEF WorkersInv, Typed
<1>3. Grown
  BY <1>1, OtherGrows
<1>4. AckedPosted' /\ OncePosted'
  BY <1>1, <1>3, AckedKept, OnceKept
<1>5. SentOnce'
  BY <1>1 DEF SearchInv, SentOnce, Doc
<1>6. ASSUME NEW v \in Worker, v # w
      PROVE  WordsPosted(v)' /\ LeftWhole(v)' /\ OwedAcked(v)' /\ Scored(v)'
  <2>1. Untouched(v)
    BY <1>1, <1>2, <1>6 DEF Untouched
  <2> QED
    BY <1>3, <2>1, OthersSearch
<1>7. docNum[w] = 0 /\ 0 \notin Doc
  <2>1. 0 \notin Doc
    BY LenProperties DEF WorkersInv, Typed, Doc
  <2> QED
    BY <1>1, <2>1 DEF WorkersInv, Serving
<1>8. WordsPosted(w)' /\ LeftWhole(w)' /\ Scored(w)' /\ OwedAcked(w)'
  BY <1>1, <1>2, <1>7 DEF WordsPosted, LeftWhole, Scored, OwedAcked, Doc
<1> QED
  BY <1>4, <1>5, <1>6, <1>8 DEF SearchInv

\* An acknowledged request has no count left to add: every word of it has been posted.
LEMMA ReplyIndexSearch ==
  ASSUME WorkersInv, WorkersInv', SearchInv, NEW w \in Worker, ReplyIndex(w)
  PROVE  SearchInv'
<1>1. /\ pc[w] = "update" /\ left[w] = NoScores
      /\ acked' = acked \union Words(w)
      /\ docNum' = [docNum EXCEPT ![w] = 0]
      /\ asked' = [asked EXCEPT ![w] = <<>>]
      /\ pc' = [pc EXCEPT ![w] = "receive"]
      /\ UNCHANGED <<documents, termInvertedIndex, left, terms, at, docScores, sent>>
  BY DEF ReplyIndex, store, searching
<1>2. /\ pc'[w] = "receive" /\ docNum'[w] = 0
      /\ \A v \in Worker : v # w => /\ pc'[v] = pc[v] /\ docNum'[v] = docNum[v] /\ asked'[v] = asked[v]
  BY <1>1 DEF WorkersInv, Typed
<1>3. Grown
  BY <1>1, OtherGrows
<1>4. OncePosted'
  BY <1>1, <1>3, OnceKept
<1>5. SentOnce'
  BY <1>1 DEF SearchInv, SentOnce, Doc
<1>6. ASSUME NEW p \in Words(w) PROVE HasPosting(p[1], p[2])
  <2>1. DOMAIN asked[w].q.terms = DOMAIN asked[w].q.terms /\ WordsPosted(w)
    BY DEF SearchInv
  <2>2. PICK i \in DOMAIN asked[w].q.terms : p = <<docNum[w], asked[w].q.terms[i].term>>
    BY DEF Words, Range
  <2>3. HasPosting(docNum[w], asked[w].q.terms[i].term)
    BY <1>1, <2>1, <2>2 DEF WordsPosted, NoScores
  <2> QED
    BY <2>2, <2>3
<1>7. AckedPosted'
  <2>1. \A p \in acked' : HasPosting(p[1], p[2])
    BY <1>1, <1>6 DEF SearchInv, AckedPosted
  <2> QED
    BY <1>1, <2>1 DEF AckedPosted, HasPosting
<1>8. ASSUME NEW v \in Worker, v # w
      PROVE  WordsPosted(v)' /\ LeftWhole(v)' /\ OwedAcked(v)' /\ Scored(v)'
  <2>1. Untouched(v)
    BY <1>1, <1>2, <1>8 DEF Untouched
  <2> QED
    BY <1>3, <2>1, OthersSearch
<1>9. WordsPosted(w)' /\ LeftWhole(w)' /\ Scored(w)' /\ OwedAcked(w)'
  <2>1. 0 \notin Doc'
    BY LenProperties DEF WorkersInv, Typed, Doc
  <2> QED
    BY <1>2, <2>1 DEF WordsPosted, LeftWhole, Scored, OwedAcked
<1> QED
  BY <1>4, <1>5, <1>7, <1>8, <1>9 DEF SearchInv

\* Every step keeps the invariant of searches.
LEMMA SearchPreserved ==
  WorkersInv /\ WorkersInv' /\ CountsKept /\ SearchInv /\ [Next]_vars => SearchInv'
<1> SUFFICES ASSUME WorkersInv, WorkersInv', CountsKept, SearchInv, [Next]_vars PROVE SearchInv'
  OBVIOUS
<1>1. ASSUME NEW w \in Worker, ReceiveIndex(w) PROVE SearchInv'
  <2>1. PICK q \in Requests : \E b \in Payloads(EncodeIndexRequest(q.id, q.path, q.terms)) :
          Accepted(w, q, b) \/ Refused(w, q, b)
    BY <1>1, ReceiveIndexCases
  <2>2. PICK b \in Payloads(EncodeIndexRequest(q.id, q.path, q.terms)) :
          Accepted(w, q, b) \/ Refused(w, q, b)
    BY <2>1
  <2>3. pc[w] = "receive" /\ UNCHANGED <<termInvertedIndex, searching, acked>>
    BY <1>1, ReceiveIndexCases DEF Serve
  <2>4. CASE Accepted(w, q, b)
    BY <2>3, <2>4, AcceptedSearch
  <2>5. CASE Refused(w, q, b)
    <3>1. /\ UNCHANGED <<documents, termInvertedIndex, docNum, left, terms, at, docScores, asked,
                          sent, acked>>
          /\ pc' = pc
      BY <2>3, <2>5 DEF Refused, indexing, searching
    <3>2. Still
      BY <3>1 DEF Still
    <3> QED
      BY <3>1, <3>2, RefusedSearch
  <2> QED
    BY <2>2, <2>4, <2>5
<1>2. ASSUME NEW w \in Worker, ReceiveSearch(w) PROVE SearchInv'
  BY <1>2, ReceiveSearchSearch
<1>3. ASSUME NEW w \in Worker, Step(w) PROVE SearchInv'
  BY <1>3, UpdateSearch, ReplyIndexSearch, LookupTermSearch, ReplySearchSearch DEF Step
<1>4. ASSUME NEW w \in Worker, Skip(w) PROVE SearchInv'
  <2>1. pc[w] = "receive" /\ pc' = [pc EXCEPT ![w] = "deaf"]
    BY <1>4 DEF Skip, Serve
  <2>2. Still
    BY <2>1 DEF Still, WorkersInv, Typed
  <2>3. UNCHANGED <<documents, termInvertedIndex, docNum, left, terms, at, docScores, asked,
                    sent, acked>>
    BY <1>4 DEF Skip, store, indexing, searching, history
  <2> QED
    BY <2>2, <2>3, RefusedSearch
<1>5. CASE UNCHANGED vars
  <2>1. /\ UNCHANGED <<documents, termInvertedIndex, docNum, left, terms, at, docScores, asked,
                        sent, acked>>
        /\ pc' = pc
    BY <1>5 DEF vars, store, indexing, searching, history
  <2>2. Still
    BY <2>1 DEF Still
  <2> QED
    BY <2>1, <2>2, RefusedSearch
<1> QED
  BY <1>1, <1>2, <1>3, <1>4, <1>5 DEF Next

\* A search finds every document whose words were acknowledged before it began, with at most
\* the counts sent for it, and exactly those of a document sent once: whatever is indexed
\* meanwhile (IndexStore.cpp:46-88).
THEOREM SearchIsSound == Spec => []SearchSound
<1> DEFINE I == WorkersInv /\ CountsKept /\ SearchInv
<1>1. Init => I
  BY TypedInitially, CountsInitially, SearchInitially
<1>2. I /\ [Next]_vars => I'
  BY WorkersPreserved, CountsPreserved, SearchPreserved
<1>3. I => SearchSound
  BY SearchInvImplies
<1> QED
  BY <1>1, <1>2, <1>3, PTL DEF Spec

-----------------------------------------------------------------------------
(* Replies.                                                                *)

\* Of two paths that differ, one is before the other: where they first do, or where the
\* shorter one ends.
LEMMA PathsOrdered ==
  ASSUME NEW s \in Seq(Byte), NEW t \in Seq(Byte), s # t
  PROVE  PathBefore(s, t) \/ PathBefore(t, s)
<1> DEFINE a == Len(s)
           b == Len(t)
           Same(i) == \A j \in 1 .. i : s[j] = t[j]
           m == IF a < b THEN a ELSE b
           S == {i \in 1 .. m + 1 : Same(i - 1)}
<1>1. /\ a \in Nat /\ b \in Nat
      /\ \A i \in 1 .. a : s[i] \in Byte
      /\ \A i \in 1 .. b : t[i] \in Byte
  BY LenProperties, ElementOfSeq
<1>2. m \in Nat /\ m <= a /\ m <= b /\ (m = a \/ m = b)
  BY <1>1
<1> HIDE DEF a, b, m
<1>3. \E i \in S : \A j \in S : j <= i
  <2>1. m + 1 \in Nat /\ S \in SUBSET (1 .. m + 1)
    BY <1>2
  <2>2. 1 \in S
    BY <1>2
  <2> HIDE DEF S
  <2> QED
    BY <2>1, <2>2, LastOf
<1>4. PICK i0 \in S : \A j \in S : j <= i0
  BY <1>3
<1> DEFINE i == i0 - 1
<1>5. i \in 0 .. m /\ Same(i) /\ (i < m => ~Same(i + 1))
  <2>1. i \in 0 .. m /\ Same(i)
    BY <1>2, <1>4
  <2>2. ASSUME i < m, Same(i + 1) PROVE FALSE
    <3>1. i + 2 \in 1 .. m + 1 /\ i + 2 - 1 = i + 1 /\ i + 2 = i0 + 1
      BY <1>2, <2>1, <2>2
    <3>2. i0 + 1 \in S
      BY <2>2, <3>1
    <3> QED
      BY <1>2, <1>4, <3>2
  <2> QED
    BY <2>1, <2>2
<1> HIDE DEF i, S
<1>6. i \in 0 .. a /\ i \in 0 .. b /\ i \in Nat
  BY <1>1, <1>2, <1>5
<1>7. SubSeq(s, 1, i) = SubSeq(t, 1, i)
  <2>1. /\ SubSeq(s, 1, i) = [j \in 1 .. i |-> s[j]]
        /\ SubSeq(t, 1, i) = [j \in 1 .. i |-> t[j]]
    BY <1>6 DEF a, b
  <2>2. [j \in 1 .. i |-> s[j]] = [j \in 1 .. i |-> t[j]]
    BY <1>5
  <2> QED
    BY <2>1, <2>2
<1>8. CASE i < m
  <2>1. i + 1 \in 1 .. a /\ i + 1 \in 1 .. b /\ i < a /\ i < b
    BY <1>1, <1>2, <1>5, <1>8
  <2>2. s[i + 1] # t[i + 1]
    <3>1. PICK j \in 1 .. i + 1 : s[j] # t[j]
      BY <1>5, <1>8
    <3>2. j = i + 1
      <4>1. j \notin 1 .. i
        BY <1>5, <3>1
      <4> QED
        BY <1>6, <4>1
    <3> QED
      BY <3>1, <3>2
  <2>3. s[i + 1] \in Nat /\ t[i + 1] \in Nat
    BY <1>1, <2>1, Numbers
  <2>4. s[i + 1] < t[i + 1] \/ t[i + 1] < s[i + 1]
    BY <2>2, <2>3
  <2> QED
    BY <1>6, <1>7, <2>1, <2>4 DEF PathBefore, a, b
<1>9. CASE i = m /\ i = a
  <2>1. i < b
    <3> SUFFICES ASSUME ~(i < b) PROVE FALSE
      OBVIOUS
    <3>1. b = a
      BY <1>1, <1>6, <1>9
    <3>2. \A j \in 1 .. a : s[j] = t[j]
      BY <1>5, <1>9
    <3> QED
      BY <3>1, <3>2, SeqEqual DEF a, b
  <2> QED
    BY <1>6, <1>7, <1>9, <2>1 DEF PathBefore, a, b
<1>10. CASE i = m /\ i = b
  <2>1. i < a
    <3> SUFFICES ASSUME ~(i < a) PROVE FALSE
      OBVIOUS
    <3>1. b = a
      BY <1>1, <1>6, <1>10
    <3>2. \A j \in 1 .. a : s[j] = t[j]
      BY <1>5, <1>10, <3>1
    <3> QED
      BY <3>1, <3>2, SeqEqual DEF a, b
  <2> QED
    BY <1>6, <1>7, <1>10, <2>1 DEF PathBefore, a, b
<1>11. i = m \/ i < m
  BY <1>2, <1>5
<1> QED
  BY <1>2, <1>8, <1>9, <1>10, <1>11

\* The paths of the store fit the field a reply has for them.
PathsFit == \A d \in Doc : IsString(documents[d])

\* The paths fit a reply: at the start there is none.
LEMMA PathsFitInitially == Init => PathsFit
BY DEF Init, PathsFit, Doc

\* A path is added as its request names it, and a request names one that fits.
LEMMA PathsFitPreserved == WorkersInv /\ PathsFit /\ [Next]_vars => PathsFit'
<1> SUFFICES ASSUME WorkersInv, PathsFit, [Next]_vars PROVE PathsFit'
  OBVIOUS
<1>1. CASE UNCHANGED documents
  BY <1>1 DEF PathsFit, Doc
<1>2. ASSUME NEW q \in Requests, documents' = Append(documents, FullPath(q.id, q.path))
      PROVE  PathsFit'
  <2> DEFINE p == FullPath(q.id, q.path)
  <2>1. IsString(p)
    BY RequestsAssumption
  <2>2. documents \in Seq(Seq(Byte)) /\ p \in Seq(Byte)
    BY <2>1 DEF WorkersInv, Typed, IsString
  <2> HIDE DEF p
  <2>3. /\ Append(documents, p) \in Seq(Seq(Byte))
        /\ Len(Append(documents, p)) = Len(documents) + 1
        /\ Append(documents, p)[Len(documents) + 1] = p
        /\ \A d \in 1 .. Len(documents) : Append(documents, p)[d] = documents[d]
    BY <2>2, AppendProperties
  <2>4. Doc = 1 .. Len(documents) /\ Doc' = 1 .. Len(documents) + 1 /\ Len(documents) \in Nat
    BY <1>2, <2>2, <2>3, LenProperties DEF Doc, p
  <2> SUFFICES ASSUME NEW d \in Doc' PROVE IsString(documents'[d])
    BY DEF PathsFit
  <2>5. d \in Doc \/ d = Len(documents) + 1
    BY <2>4
  <2>6. documents' = Append(documents, p)
    BY <1>2 DEF p
  <2> QED
    BY <2>1, <2>3, <2>4, <2>5, <2>6 DEF PathsFit
<1>3. ASSUME NEW w \in Worker, ReceiveIndex(w) PROVE PathsFit'
  <2>1. PICK q \in Requests : \E b \in Payloads(EncodeIndexRequest(q.id, q.path, q.terms)) :
          Accepted(w, q, b) \/ Refused(w, q, b)
    BY <1>3, ReceiveIndexCases
  <2>2. PICK b \in Payloads(EncodeIndexRequest(q.id, q.path, q.terms)) :
          Accepted(w, q, b) \/ Refused(w, q, b)
    BY <2>1
  <2>3. CASE Accepted(w, q, b)
    <3>1. PutDocument(w, FullPath(q.id, q.path))
      BY <2>3, AcceptedPuts
    <3>2. UNCHANGED documents \/ documents' = Append(documents, FullPath(q.id, q.path))
      BY <3>1 DEF PutDocument
    <3> QED
      BY <1>1, <1>2, <3>2
  <2>4. CASE Refused(w, q, b)
    BY <1>1, <2>4 DEF Refused
  <2> QED
    BY <2>2, <2>3, <2>4
<1>4. ASSUME NEW w \in Worker, ReceiveSearch(w) \/ Step(w) PROVE PathsFit'
  BY <1>1, <1>4 DEF ReceiveSearch, Step, Update, ReplyIndex, LookupTerm, ReplySearch, store
<1>5. ASSUME NEW w \in Worker, Skip(w) PROVE PathsFit'
  BY <1>1, <1>5 DEF Skip, store
<1>6. CASE UNCHANGED vars
  BY <1>1, <1>6 DEF vars, store
<1> QED
  BY <1>3, <1>4, <1>5, <1>6 DEF Next

\* As many hits as documents: no two documents have a path.
LEMMA HitsCounted ==
  ASSUME WorkersInv, PathsDistinct, NEW scores \in Scores(Doc)
  PROVE  Cardinality(Hits(scores)) = Cardinality(DOMAIN scores)
<1> DEFINE f == [d \in DOMAIN scores |-> [path |-> GetDocument(d), freq |-> scores[d]]]
<1>1. DOMAIN scores \subseteq Doc
  BY ScoresType
<1>2. IsFiniteSet(DOMAIN scores)
  BY <1>1, DocFinite, FS_Subset
<1>3. Hits(scores) = Range(f)
  BY DEF Hits, Range
<1>4. \A d, e \in DOMAIN scores : f[d] = f[e] => d = e
  <2> SUFFICES ASSUME NEW d \in DOMAIN scores, NEW e \in DOMAIN scores, f[d] = f[e] PROVE d = e
    OBVIOUS
  <2>1. GetDocument(d) = GetDocument(e)
    <3>1. f[d].path = GetDocument(d) /\ f[e].path = GetDocument(e)
      OBVIOUS
    <3> QED
      BY <3>1
  <2>2. GetDocument(d) = documents[d] /\ GetDocument(e) = documents[e] /\ d \in Doc /\ e \in Doc
    BY <1>1 DEF GetDocument, Doc
  <2> QED
    BY <2>1, <2>2 DEF PathsDistinct
<1>5. DOMAIN f = DOMAIN scores
  OBVIOUS
<1> HIDE DEF f
<1>6. Cardinality(Range(f)) = Cardinality(DOMAIN scores)
  BY <1>2, <1>4, <1>5, ImageFinite
<1> QED
  BY <1>3, <1>6

\* A list of all hits has every one of them.
LEMMA OrderFull ==
  ASSUME NEW S, IsFiniteSet(S), NEW s \in Orders(S)
  PROVE  /\ DOMAIN s = 1 .. Cardinality(S) /\ Cardinality(S) \in Nat
         /\ \A i \in DOMAIN s : s[i] \in S
         /\ \A h \in S : \E i \in DOMAIN s : s[i] = h
         /\ \A i, j \in DOMAIN s : s[i] = s[j] => i = j
<1> DEFINE c == Cardinality(S)
<1>1. c \in Nat
  BY FS_CardinalityType
<1>2. s \in [1 .. c -> S] /\ \A i, j \in 1 .. c : s[i] = s[j] => i = j
  BY DEF Orders
<1>3. s \in Injection(1 .. c, S)
  BY <1>2 DEF Injection, IsInjective
<1>4. IsFiniteSet(1 .. c) /\ Cardinality(1 .. c) = c
  <2>1. 1 \in Int /\ c \in Int
    BY <1>1
  <2>2. IsFiniteSet(1 .. c) /\ Cardinality(1 .. c) = IF 1 > c THEN 0 ELSE c - 1 + 1
    BY <2>1, FS_Interval
  <2> QED
    BY <1>1, <2>2
<1>5. s \in Surjection(1 .. c, S)
  BY <1>3, <1>4, FS_Injection
<1>6. \A h \in S : \E i \in 1 .. c : s[i] = h
  BY <1>5 DEF Surjection
<1> QED
  BY <1>1, <1>2, <1>6

\* What a reply lists are the first hits of the sorted list, in its order.
LEMMA BestListed ==
  ASSUME NEW S \in SUBSET Hit, IsFiniteSet(S), NEW s \in Orders(S), Sorted(s),
         NEW i \in DOMAIN s, NEW h \in S, h \notin {s[j] : j \in 1 .. i}
  PROVE  \/ s[i].freq > h.freq
         \/ s[i].freq = h.freq /\ PathBefore(s[i].path, h.path)
<1>1. /\ DOMAIN s = 1 .. Cardinality(S) /\ Cardinality(S) \in Nat
      /\ \A j \in DOMAIN s : s[j] \in S
      /\ \A g \in S : \E j \in DOMAIN s : s[j] = g
  BY OrderFull
<1>2. PICK k \in DOMAIN s : s[k] = h
  BY <1>1
<1>3. i < k
  <2>1. k \notin 1 .. i
    BY <1>2
  <2> QED
    BY <1>1, <1>2, <2>1
<1>4. ~Before(h, s[i])
  BY <1>2, <1>3 DEF Sorted
<1> DEFINE g == s[i]
<1>5. /\ h.freq \in Nat /\ g.freq \in Nat /\ h.path \in Seq(Byte) /\ g.path \in Seq(Byte)
      /\ h = [path |-> h.path, freq |-> h.freq] /\ g = [path |-> g.path, freq |-> g.freq]
  <2>1. h \in Hit /\ g \in Hit
    BY <1>1
  <2> HIDE DEF g
  <2> QED
    BY <2>1 DEF Hit
<1>6. h # g
  <2>1. i \in 1 .. i
    BY <1>1
  <2> QED
    BY <2>1
<1>7. g.freq > h.freq \/ g.freq = h.freq
  BY <1>4, <1>5 DEF Before
<1>8. ASSUME g.freq = h.freq PROVE PathBefore(g.path, h.path)
  <2>1. g.path # h.path
    BY <1>5, <1>6, <1>8
  <2>2. ~PathBefore(h.path, g.path)
    BY <1>4, <1>8 DEF Before
  <2> HIDE DEF g
  <2> QED
    BY <1>5, <2>1, <2>2, PathsOrdered
<1> QED
  BY <1>7, <1>8

\* A frequency a reply carries, and the number of hits, fit a uint32_t.
Fits ==
  /\ Len(documents) < Limit
  /\ \A w \in Worker : \A d \in DOMAIN docScores[w] : docScores[w][d] < Limit

\* What the client of w reads.
ReadsBest(w) ==
  LET f == answer'[w].fields
      hits == [i \in 1 .. f[3] |-> [path |-> f[2 * i + 2], freq |-> f[2 * i + 3]]]
      found == Hits(docScores[w])
  IN  /\ f[1] = SEARCH_REPLY
      /\ f[2] = Cardinality(DOMAIN docScores[w])
      /\ f[3] = IF f[2] > resultLimit THEN resultLimit ELSE f[2]
      /\ Range(hits) \subseteq found
      /\ \A i \in DOMAIN hits : \A h \in found \ {hits[j] : j \in 1 .. i} :
           \/ hits[i].freq > h.freq
           \/ hits[i].freq = h.freq /\ PathBefore(hits[i].path, h.path)

\* The hits fit the fields of a reply.
LEMMA HitsFit ==
  ASSUME WorkersInv, PathsDistinct, PathsFit, Fits, NEW w \in Worker
  PROVE  LET S == Hits(docScores[w])
         IN  /\ S \in SUBSET Hit /\ IsFiniteSet(S) /\ Cardinality(S) \in Nat
             /\ Cardinality(S) = Cardinality(DOMAIN docScores[w]) /\ Cardinality(S) < Limit
             /\ \A h \in S : IsString(h.path) /\ h.freq < Limit
<1> DEFINE c == docScores[w]
           S == Hits(c)
<1>1. c \in Scores(Doc)
  BY DEF WorkersInv, Typed
<1>2. DOMAIN c \subseteq Doc
  BY <1>1, ScoresType
<1>3. Doc = 1 .. Len(documents) /\ Len(documents) \in Nat
  BY LenProperties DEF WorkersInv, Typed, Doc
<1>4. \A h \in S : IsString(h.path) /\ h.freq < Limit
  <2> SUFFICES ASSUME NEW d \in DOMAIN c
               PROVE  IsString(GetDocument(d)) /\ c[d] < Limit
    BY DEF Hits
  <2> QED
    BY <1>2 DEF Fits, PathsFit, GetDocument, Doc
<1> HIDE DEF c
<1>5. S \subseteq Hit /\ IsFiniteSet(S) /\ Cardinality(S) \in Nat
  BY <1>1, HitsType
<1>6. Cardinality(S) = Cardinality(DOMAIN c)
  BY <1>1, HitsCounted
<1>7. Cardinality(DOMAIN c) <= Len(documents)
  <2>1. IsFiniteSet(Doc) /\ Cardinality(Doc) = Len(documents)
    <3>1. 1 \in Int /\ Len(documents) \in Int
      BY <1>3
    <3>2. /\ IsFiniteSet(1 .. Len(documents))
          /\ Cardinality(1 .. Len(documents)) = IF 1 > Len(documents) THEN 0 ELSE Len(documents) - 1 + 1
      BY <3>1, FS_Interval
    <3> QED
      BY <1>3, <3>2
  <2> QED
    BY <1>2, <2>1, FS_Subset
<1>8. Cardinality(S) < Limit
  BY <1>3, <1>5, <1>6, <1>7, LimitType DEF Fits
<1> QED
  BY <1>4, <1>5, <1>6, <1>8 DEF c

\* The client reads a prefix of the sorted list.
LEMMA ReplySearchRead ==
  ASSUME WorkersInv, PathsDistinct, PathsFit, Fits, NEW w \in Worker, ReplySearch(w)
  PROVE  ReadsBest(w)
<1> DEFINE S == Hits(docScores[w])
<1>1. PICK s \in Orders(S) :
        /\ Sorted(s)
        /\ LET n == IF Len(s) > resultLimit THEN resultLimit ELSE Len(s)
           IN  Send(w, DecodeSearchReply(SearchReply(Len(s), SubSeq(s, 1, n))), asked[w].whole)
  BY DEF ReplySearch
<1> DEFINE n == IF Len(s) > resultLimit THEN resultLimit ELSE Len(s)
           part == SubSeq(s, 1, n)
           r == DecodeSearchReply(SearchReply(Len(s), part))
           f == r.fields
<1>2. /\ S \in SUBSET Hit /\ IsFiniteSet(S) /\ Cardinality(S) \in Nat
      /\ Cardinality(S) = Cardinality(DOMAIN docScores[w]) /\ Cardinality(S) < Limit
      /\ \A h \in S : IsString(h.path) /\ h.freq < Limit
  BY HitsFit
<1>3. answer'[w].fields = IF r.ok THEN r.fields ELSE <<>>
  BY <1>1 DEF Send, WorkersInv, Typed
<1> HIDE DEF S
<1>4. resultLimit \in Nat
  BY BoundsAssumption
<1>5. /\ s \in Seq(Hit) /\ Len(s) = Cardinality(S) /\ n \in 0 .. Len(s)
      /\ part \in Seq(Hit) /\ Len(part) = n /\ \A i \in 1 .. n : part[i] = s[i]
  BY <1>2, <1>4, OrderListed
<1>6. DOMAIN s = 1 .. Len(s) /\ \A i \in DOMAIN s : s[i] \in S
  BY <1>2, <1>5, OrderFull
<1>7. n = IF Cardinality(S) > resultLimit THEN resultLimit ELSE Cardinality(S)
  BY <1>5
<1> HIDE DEF n, part
<1>8. n \in Nat /\ n < Limit /\ \A i \in 1 .. n : i \in DOMAIN s
  BY <1>2, <1>5, <1>6, LimitType
<1>9. /\ r.ok /\ f[1] = SEARCH_REPLY /\ f[2] = Len(s) /\ f[3] = n
      /\ \A i \in 1 .. n : f[2 * i + 2] = s[i].path /\ f[2 * i + 3] = s[i].freq
  <2>1. \A i \in 1 .. Len(part) : IsString(part[i].path) /\ part[i].freq < Limit
    BY <1>2, <1>5, <1>6, <1>8
  <2>2. Len(s) \in Nat /\ Len(s) < Limit /\ Len(part) < Limit /\ part \in Seq(Hit)
    BY <1>2, <1>5, <1>8
  <2>3. /\ r.ok /\ f[1] = SEARCH_REPLY /\ f[2] = Len(s) /\ f[3] = Len(part)
        /\ \A i \in 1 .. Len(part) : f[2 * i + 2] = part[i].path /\ f[2 * i + 3] = part[i].freq
    BY <2>1, <2>2, SearchReplyRead
  <2> HIDE DEF r
  <2> QED
    BY <1>5, <2>3
<1>10. answer'[w].fields = f
  BY <1>3, <1>9
<1> HIDE DEF r, f
<1> DEFINE hits == [i \in 1 .. n |-> [path |-> f[2 * i + 2], freq |-> f[2 * i + 3]]]
<1>11. \A i \in 1 .. n : hits[i] = s[i]
  <2> SUFFICES ASSUME NEW i \in 1 .. n PROVE [path |-> f[2 * i + 2], freq |-> f[2 * i + 3]] = s[i]
    OBVIOUS
  <2>1. s[i] \in Hit
    BY <1>2, <1>6, <1>8
  <2>2. s[i] = [path |-> s[i].path, freq |-> s[i].freq]
    BY <2>1 DEF Hit
  <2> QED
    BY <1>9, <2>2
<1>12. DOMAIN hits = 1 .. n
  OBVIOUS
<1> HIDE DEF hits
<1>13. Range(hits) \subseteq S
  BY <1>6, <1>8, <1>11, <1>12 DEF Range
<1>14. ASSUME NEW i \in DOMAIN hits, NEW h \in S \ {hits[j] : j \in 1 .. i}
       PROVE  \/ hits[i].freq > h.freq
              \/ hits[i].freq = h.freq /\ PathBefore(hits[i].path, h.path)
  <2>1. i \in DOMAIN s /\ hits[i] = s[i] /\ \A j \in 1 .. i : j \in 1 .. n
    BY <1>8, <1>11, <1>12
  <2>2. h \notin {s[j] : j \in 1 .. i}
    BY <1>11, <2>1
  <2>3. \/ s[i].freq > h.freq
        \/ s[i].freq = h.freq /\ PathBefore(s[i].path, h.path)
    BY <1>1, <1>2, <2>1, <2>2, BestListed
  <2> QED
    BY <2>1, <2>3
<1>15. f[2] = Cardinality(DOMAIN docScores[w])
  BY <1>2, <1>5, <1>9
<1>16. f[3] = IF f[2] > resultLimit THEN resultLimit ELSE f[2]
  BY <1>5, <1>7, <1>9
<1>17. hits = [i \in 1 .. f[3] |-> [path |-> f[2 * i + 2], freq |-> f[2 * i + 3]]]
  BY <1>9 DEF hits
<1> DEFINE a == answer'[w].fields
           read == [i \in 1 .. a[3] |-> [path |-> a[2 * i + 2], freq |-> a[2 * i + 3]]]
<1>18. a = f /\ read = hits
  BY <1>10, <1>17
<1> HIDE DEF a, read
<1>19. /\ a[1] = SEARCH_REPLY
       /\ a[2] = Cardinality(DOMAIN docScores[w])
       /\ a[3] = IF a[2] > resultLimit THEN resultLimit ELSE a[2]
  BY <1>9, <1>15, <1>16, <1>18
<1>20. /\ Range(read) \subseteq S
       /\ \A i \in DOMAIN read : \A h \in S \ {read[j] : j \in 1 .. i} :
            \/ read[i].freq > h.freq
            \/ read[i].freq = h.freq /\ PathBefore(read[i].path, h.path)
  BY <1>13, <1>14, <1>18
<1> QED
  BY <1>19, <1>20 DEF ReadsBest, S, a, read

\* Only its reply ends a search.
LEMMA OnlyReplyEnds ==
  ASSUME WorkersInv, [Next]_vars, NEW w \in Worker, pc[w] = "lookup", pc'[w] = "receive"
  PROVE  ReplySearch(w)
<1>1. pc # pc'
  OBVIOUS
<1>2. PICK v \in Worker : ReceiveIndex(v) \/ ReceiveSearch(v) \/ Skip(v) \/ Step(v)
  BY <1>1 DEF Next, vars
<1>3. pc \in [Worker -> {"receive", "update", "lookup", "deaf"}]
  BY DEF WorkersInv, Typed
<1>4. CASE ReceiveIndex(v)
  <2>1. pc[v] = "receive" /\ (UNCHANGED pc \/ pc' = [pc EXCEPT ![v] = "update"])
    BY <1>4 DEF ReceiveIndex, Serve
  <2> QED
    BY <1>1, <1>3, <2>1
<1>5. CASE ReceiveSearch(v)
  <2>1. pc[v] = "receive" /\ pc' = [pc EXCEPT ![v] = "lookup"]
    BY <1>5 DEF ReceiveSearch, Serve
  <2> QED
    BY <1>3, <2>1
<1>6. CASE ReplyIndex(v)
  <2>1. pc[v] = "update" /\ pc' = [pc EXCEPT ![v] = "receive"]
    BY <1>6 DEF ReplyIndex
  <2> QED
    BY <1>3, <2>1
<1>7. CASE Update(v) \/ LookupTerm(v)
  BY <1>1, <1>7 DEF Update, LookupTerm
<1>8. CASE ReplySearch(v)
  <2>1. pc' = [pc EXCEPT ![v] = "receive"]
    BY <1>8 DEF ReplySearch
  <2> QED
    BY <1>3, <1>8, <2>1
<1>9. CASE Skip(v)
  <2>1. pc[v] = "receive" /\ pc' = [pc EXCEPT ![v] = "deaf"]
    BY <1>9 DEF Skip, Serve
  <2> QED
    BY <1>3, <2>1
<1> QED
  BY <1>2, <1>4, <1>5, <1>6, <1>7, <1>8, <1>9 DEF Step

\* The client of a search reads how many documents were found and the best of them, each
\* once, best first, as long as numbers of hits and frequencies fit the four bytes that
\* ZmqCodec writes them in.
THEOREM RepliesAreRanked == Spec /\ []Fits => RepliesRanked
<1> DEFINE I == WorkersInv /\ Inv /\ PathsFit
           Best == \A w \in Worker : pc[w] = "lookup" /\ pc'[w] = "receive" => ReadsBest(w)
<1>1. Init => I
  BY TypedInitially, Initially, PathsFitInitially
<1>2. I /\ [Next]_vars => I'
  BY WorkersPreserved, Preserved, PathsFitPreserved
<1>3. I /\ Fits /\ [Next]_vars => [Best]_vars
  BY OnlyReplyEnds, ReplySearchRead DEF Inv
<1> HIDE DEF Best, I
<1>4. RepliesRanked <=> [][Best]_vars
  BY DEF RepliesRanked, Best, ReadsBest
<1> QED
  BY <1>1, <1>2, <1>3, <1>4, PTL DEF Spec
=============================================================================
