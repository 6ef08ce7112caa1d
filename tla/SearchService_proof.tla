------------------------- MODULE SearchService_proof -------------------------
(***************************************************************************)
(* For any number of workers, threads, words, documents and queries: the   *)
(* index holds exactly what was sent, and searches miss nothing.           *)
(***************************************************************************)
EXTENDS SearchService, SequenceTheorems, FiniteSetTheorems, TLAPS

Counts == UNION {[K -> Nat] : K \in SUBSET Word}
SliceMap == UNION {[U -> [next : Nat, end : Nat]] : U \in SUBSET Nat}

\* The word has a posting of the document.
Has(k, d) == \E i \in DOMAIN termInvertedIndex[k] : termInvertedIndex[k][i].doc = d

\* Item i of the vector, counted from 1, is in slice u of m.
InSlice(m, u, i) == u \in DOMAIN m /\ m[u].next < i /\ i <= m[u].end
Pending(w, i) == \E u \in Nat : InSlice(slices[w], u, i)

\* The types TypeOK leaves open.
Types == /\ declared \in Seq(Counts)
         /\ slices \in [Worker -> SliceMap]
         /\ DOMAIN promised = Worker
         /\ \A w \in Worker : pc[w] = "put" => path[w] \in Path
         /\ \A w \in Worker : pc[w] # "lookup" => at[w] = 1 /\ DOMAIN docScores[w] = {}
         /\ \A w \in Worker : pc[w] = "lookup" => terms[w] \in Query
         /\ shown \subseteq Query \X Doc

\* The words of an item vector are distinct: they come from a hash map.
ItemsDistinct ==
  \A w \in Worker : \A i, j \in DOMAIN items[w] : items[w][i].word = items[w][j].word => i = j

\* The slices of an update lie inside the vector and apart from each other.
SlicesApart ==
  \A w \in Worker : pc[w] = "update" =>
    /\ \A u, i \in Nat : InSlice(slices[w], u, i) => i \in DOMAIN items[w]
    /\ \A u, v, i \in Nat : InSlice(slices[w], u, i) /\ InSlice(slices[w], v, i) => u = v

\* A document being indexed belongs to one worker, and was declared as its items.
UpdateOwned ==
  /\ \A w \in Worker : pc[w] = "update" =>
       declared[docNum[w]] = CountsOf(w) /\ docNum[w] \notin acked
  /\ \A v, w \in Worker : pc[v] = "update" /\ pc[w] = "update" /\ docNum[v] = docNum[w] => v = w

\* Its items are in the index, but for those that are in a slice still.
UpdateExact ==
  \A w \in Worker : pc[w] = "update" =>
    \A i \in DOMAIN items[w] : Has(items[w][i].word, docNum[w]) <=> ~Pending(w, i)

\* What a search has found, has to find, and has shown is in the index.
SearchBacked ==
  /\ \A w \in Worker : \A i \in DOMAIN terms[w] :
       /\ \A d \in promised[w] : Has(terms[w][i], d)
       /\ \A d \in DOMAIN docScores[w] : i < at[w] => Has(terms[w][i], d)
  /\ \A w \in Worker : DOMAIN docScores[w] \subseteq Doc
  /\ \A q \in Query : \A d \in Doc : <<q, d>> \in shown => \A i \in DOMAIN q : Has(q[i], d)

IInv == /\ TypeOK /\ Types /\ ItemsDistinct /\ SlicesApart /\ UpdateOwned /\ UpdateExact
        /\ PostingsFaithful /\ AckedIndexed /\ SearchBacked /\ SearchComplete
-----------------------------------------------------------------------------
(* The slices updateIndex cuts.                                            *)

LEMMA SliceMapType ==
  ASSUME NEW m \in SliceMap
  PROVE  /\ DOMAIN m \subseteq Nat
         /\ \A u \in DOMAIN m : m[u] \in [next : Nat, end : Nat]
<1>1. PICK U \in SUBSET Nat : m \in [U -> [next : Nat, end : Nat]]
  BY DEF SliceMap
<1>2. QED
  BY <1>1

LEMMA SliceMapExcept ==
  ASSUME NEW m \in SliceMap, NEW u \in DOMAIN m, NEW r \in [next : Nat, end : Nat]
  PROVE  /\ [m EXCEPT ![u] = r] \in SliceMap
         /\ DOMAIN [m EXCEPT ![u] = r] = DOMAIN m
         /\ \A v \in DOMAIN m : [m EXCEPT ![u] = r][v] = IF v = u THEN r ELSE m[v]
<1>1. PICK U \in SUBSET Nat : m \in [U -> [next : Nat, end : Nat]]
  BY DEF SliceMap
<1>2. [m EXCEPT ![u] = r] \in [U -> [next : Nat, end : Nat]]
  BY <1>1
<1>3. QED
  BY <1>1, <1>2 DEF SliceMap

LEMMA ChunkType ==
  ASSUME NEW total \in Nat
  PROVE  /\ Chunk(total) \in Nat
         /\ numThreads * Chunk(total) >= total
         /\ total > 0 => Chunk(total) > 0
<1>1. numThreads \in Nat /\ numThreads > 0
  BY ThreadsAssumption
<1> DEFINE a == total + numThreads - 1
<1>2. a \in Nat /\ a >= numThreads - 1 + total
  BY <1>1
<1>3. /\ a \div numThreads \in Nat
      /\ a = numThreads * (a \div numThreads) + (a % numThreads)
      /\ a % numThreads \in 0 .. numThreads - 1
  BY <1>1, <1>2, SMTT(30)
<1>4. Chunk(total) = a \div numThreads
  BY DEF Chunk
<1> DEFINE q == a \div numThreads
           r == a % numThreads
           p == numThreads * q
<1>5. p \in Nat /\ r \in Nat /\ r <= numThreads - 1 /\ a = p + r
  BY <1>1, <1>3
<1> HIDE DEF p, r, q
<1>6. p >= total
  BY <1>1, <1>2, <1>5
<1>7. total > 0 => q > 0
  BY <1>1, <1>3, <1>6 DEF p, q
<1>8. QED
  BY <1>3, <1>4, <1>6, <1>7 DEF p, q

LEMMA Monotone ==
  ASSUME NEW a \in Nat, NEW b \in Nat, NEW c \in Nat, a < b
  PROVE  a * c + c <= b * c
BY SMTT(30)

\* Every index of the vector is in exactly one slice, however many threads and items
\* there are (IndexStore.cpp:50-68).
THEOREM SlicesCover ==
  ASSUME NEW total \in Nat
  PROVE  /\ Slices(total) \in SliceMap
         /\ \A u, i \in Nat : InSlice(Slices(total), u, i) => i \in 1 .. total
         /\ \A i \in 1 .. total : \E u \in Nat : InSlice(Slices(total), u, i)
         /\ \A u, v, i \in Nat : InSlice(Slices(total), u, i) /\ InSlice(Slices(total), v, i) => u = v
<1> DEFINE m == Slices(total)
           C == Chunk(total)
<1>1. C \in Nat /\ numThreads * C >= total /\ (total > 0 => C > 0)
  BY ChunkType
<1>2. numThreads \in Nat /\ numThreads > 0
  BY ThreadsAssumption
<1>3. CASE total < parallelFrom
  <2>1. m = [u \in {0} |-> [next |-> 0, end |-> total]]
    BY <1>3 DEF Slices
  <2>2. m \in [{0} -> [next : Nat, end : Nat]]
    BY <2>1
  <2>3. m \in SliceMap
    BY <2>2 DEF SliceMap
  <2>4. \A u, i \in Nat : InSlice(m, u, i) <=> u = 0 /\ i \in 1 .. total
    BY <2>1 DEF InSlice
  <2> HIDE DEF m
  <2>5. QED
    BY <2>3, <2>4 DEF m
<1>4. CASE ~(total < parallelFrom)
  <2>1. m = [u \in 0 .. numThreads - 1 |->
               [next |-> u * C, end |-> IF u * C + C < total THEN u * C + C ELSE total]]
    BY <1>4 DEF Slices
  <2> HIDE DEF m, C
  <2>2. \A u \in 0 .. numThreads - 1 : u \in Nat /\ u * C \in Nat /\ u * C + C \in Nat
    BY <1>1, <1>2
  <2>3. m \in [0 .. numThreads - 1 -> [next : Nat, end : Nat]]
    BY <2>1, <2>2
  <2>4. m \in SliceMap
    <3>1. 0 .. numThreads - 1 \in SUBSET Nat
      BY <1>2
    <3>2. QED
      BY <2>3, <3>1 DEF SliceMap
  <2>5. \A u, i \in Nat : InSlice(m, u, i) <=>
          u < numThreads /\ u * C < i /\ i <= u * C + C /\ i <= total
    <3>1. ASSUME NEW u \in Nat, NEW i \in Nat, u < numThreads
          PROVE  InSlice(m, u, i) <=> u * C < i /\ i <= u * C + C /\ i <= total
      <4>1. u \in 0 .. numThreads - 1
        BY <1>2, <3>1
      <4>2. m[u].next = u * C /\ m[u].end = IF u * C + C < total THEN u * C + C ELSE total
        BY <2>1, <4>1
      <4>3. QED
        BY <2>1, <2>2, <4>1, <4>2 DEF InSlice
    <3>2. ASSUME NEW u \in Nat, NEW i \in Nat, InSlice(m, u, i) PROVE u < numThreads
      BY <1>2, <2>1, <3>2 DEF InSlice
    <3>3. QED
      BY <3>1, <3>2
  <2>6. \A u, i \in Nat : InSlice(m, u, i) => i \in 1 .. total
    BY <1>1, <2>5
  <2>7. ASSUME NEW i \in 1 .. total PROVE \E u \in Nat : InSlice(m, u, i)
    <3>1. C \in Nat /\ C > 0 /\ i - 1 \in Nat
      BY <1>1, <2>7
    <3> DEFINE u == (i - 1) \div C
               r == (i - 1) % C
    <3>2. u \in Nat /\ r \in 0 .. C - 1 /\ i - 1 = u * C + r
      BY <3>1, SMTT(30)
    <3> HIDE DEF u, r
    <3>3. u * C \in Nat
      BY <3>1, <3>2
    <3>4. u * C < i /\ i <= u * C + C /\ i <= total
      BY <3>1, <3>2, <3>3
    <3>5. u < numThreads
      <4>1. SUFFICES ASSUME numThreads <= u PROVE FALSE
        BY <1>2, <3>2
      <4>2. numThreads * C <= u * C
        BY <1>2, <3>1, <3>2, <4>1, Monotone
      <4>3. QED
        BY <1>1, <1>2, <3>1, <3>3, <3>4, <4>2
    <3>6. QED
      BY <2>5, <3>2, <3>4, <3>5
  <2>8. ASSUME NEW u \in Nat, NEW v \in Nat, NEW i \in Nat, u < v,
               InSlice(m, u, i), InSlice(m, v, i)
        PROVE  FALSE
    <3>1. i <= u * C + C /\ v * C < i
      BY <2>5, <2>8
    <3>2. u * C + C <= v * C
      BY <1>1, <2>8, Monotone
    <3>3. u * C \in Nat /\ v * C \in Nat
      BY <1>1
    <3>4. QED
      BY <1>1, <3>1, <3>2, <3>3
  <2>9. \A u, v, i \in Nat : InSlice(m, u, i) /\ InSlice(m, v, i) => u = v
    BY <2>8
  <2>10. QED
    BY <2>4, <2>6, <2>7, <2>9 DEF m
<1>5. QED
  BY <1>3, <1>4
-----------------------------------------------------------------------------
(* The index.                                                              *)

LEMMA IndexType ==
  ASSUME TypeOK, NEW k \in Word
  PROVE  /\ termInvertedIndex[k] \in Seq([doc : Doc, freq : Nat])
         /\ Len(termInvertedIndex[k]) \in Nat
         /\ DOMAIN termInvertedIndex[k] = 1 .. Len(termInvertedIndex[k])
         /\ \A i \in DOMAIN termInvertedIndex[k] : termInvertedIndex[k][i] \in [doc : Doc, freq : Nat]
<1>1. termInvertedIndex[k] \in Seq([doc : Doc, freq : Nat])
  BY DEF TypeOK
<1>2. QED
  BY <1>1, LenProperties, ElementOfSeq

\* The list of a word that has no posting of the document grows by one posting.
LEMMA AddAbsent ==
  ASSUME TypeOK, NEW k \in Word, NEW d, NEW a, ~Has(k, d)
  PROVE  AddUnchecked(termInvertedIndex[k], d, a) = Append(termInvertedIndex[k], Posting(d, a))
<1>1. Len(termInvertedIndex[k]) \in Nat /\ DOMAIN termInvertedIndex[k] = 1 .. Len(termInvertedIndex[k])
  BY IndexType
<1>2. ~EndsWith(termInvertedIndex[k], d)
  <2>1. SUFFICES ASSUME EndsWith(termInvertedIndex[k], d) PROVE FALSE
    OBVIOUS
  <2>2. termInvertedIndex[k] # <<>> /\ termInvertedIndex[k][Len(termInvertedIndex[k])].doc = d
    BY <2>1 DEF EndsWith, EmptyList
  <2>3. Len(termInvertedIndex[k]) \in DOMAIN termInvertedIndex[k]
    BY <1>1, <2>2, IndexType, EmptySeq
  <2>4. QED
    BY <2>2, <2>3 DEF Has
<1>3. QED
  BY <1>2 DEF AddUnchecked

LEMMA DocType ==
  ASSUME TypeOK
  PROVE  /\ Len(documents) \in Nat
         /\ Doc = 1 .. Len(documents)
BY LenProperties DEF TypeOK, Doc

LEMMA InitIInv == Init => IInv
<1> SUFFICES ASSUME Init PROVE IInv
  OBVIOUS
<1>1. Slices(0) \in SliceMap
  BY SlicesCover
<1>2. documents = <<>> /\ Doc = {} /\ Len(documents) = 0
  BY DEF Init, StoreInit, Doc
<1>3. \A u \in DOMAIN Slices(0) : Slices(0)[u].next \in Nat
  BY <1>1, SliceMapType
<1>4. TypeOK
  BY <1>1, <1>2, <1>3, EmptySeq DEF Init, StoreInit, TypeOK, EmptyList, EmptyPath
<1>5. Types
  BY <1>1, EmptySeq DEF Init, Types, NoScores
<1>6. ItemsDistinct /\ SlicesApart /\ UpdateOwned /\ UpdateExact
  BY DEF Init, ItemsDistinct, SlicesApart, UpdateOwned, UpdateExact
<1>7. PostingsFaithful /\ AckedIndexed /\ SearchComplete
  BY DEF Init, StoreInit, PostingsFaithful, AckedIndexed, SearchComplete, EmptyList
<1>8. SearchBacked
  BY <1>2 DEF Init, SearchBacked, NoScores
<1>9. QED
  BY <1>4, <1>5, <1>6, <1>7, <1>8 DEF IInv

LEMMA ReceiveIndexStep == ASSUME IInv, NEW w \in Worker, ReceiveIndex(w) PROVE IInv'
<1> USE DEF IInv
<1>1. PICK p \in Path, counts \in WordCounts : \E order \in Orders(DOMAIN counts) :
        /\ path' = [path EXCEPT ![w] = p]
        /\ items' = [items EXCEPT ![w] = [i \in DOMAIN order |-> [word |-> order[i],
                                                                count |-> counts[order[i]]]]]
  BY DEF ReceiveIndex
<1>2. PICK order \in Orders(DOMAIN counts) :
        /\ path' = [path EXCEPT ![w] = p]
        /\ items' = [items EXCEPT ![w] = [i \in DOMAIN order |-> [word |-> order[i],
                                                                count |-> counts[order[i]]]]]
  BY <1>1
<1> DEFINE new == [i \in DOMAIN order |-> [word |-> order[i], count |-> counts[order[i]]]]
<1>3. /\ DOMAIN order = 1 .. Cardinality(DOMAIN counts) /\ Cardinality(DOMAIN counts) \in Nat
      /\ \A i \in DOMAIN order : order[i] \in DOMAIN counts
      /\ \A i, j \in DOMAIN order : order[i] = order[j] => i = j
  BY CountsAssumption, FS_CardinalityType DEF Orders
<1>4. /\ \A i \in DOMAIN order : new[i] \in Item
      /\ DOMAIN new = DOMAIN order
      /\ \A i, j \in DOMAIN new : new[i].word = new[j].word => i = j
  BY <1>3, CountsAssumption DEF Item
<1>5. new \in Seq(Item)
  <2>1. new \in [1 .. Cardinality(DOMAIN counts) -> Item]
    BY <1>3, <1>4
  <2>2. QED
    BY <1>3, <2>1, SeqDef
<1> HIDE DEF new
<1>6. /\ pc[w] = "receive" /\ pc' = [pc EXCEPT ![w] = "put"]
      /\ requests' = requests + 1
      /\ items' = [items EXCEPT ![w] = new]
      /\ UNCHANGED <<documents, termInvertedIndex, docNum, slices, terms, at, docScores, declared,
                     acked, shown, promised>>
  BY <1>2 DEF ReceiveIndex, store, searching, history, new
<1>7. TypeOK'
  <2>1. /\ pc' \in [Worker -> {"receive", "put", "update", "lookup"}]
        /\ path' \in [Worker -> Path \union {EmptyPath}]
        /\ requests' \in Nat
    BY <1>2, <1>6 DEF TypeOK
  <2>2. items' \in [Worker -> Seq(Item)]
    BY <1>5, <1>6 DEF TypeOK
  <2>3. \A v \in Worker : pc'[v] = "update" => pc[v] = "update" /\ items'[v] = items[v]
    BY <1>6 DEF TypeOK
  <2>4. QED
    BY <1>6, <2>1, <2>2, <2>3 DEF TypeOK, Doc
<1>8. Types'
  BY <1>2, <1>6 DEF Types, TypeOK, Doc
<1>9. ItemsDistinct'
  BY <1>4, <1>6 DEF ItemsDistinct, TypeOK
<1>10. \A v \in Worker : pc'[v] = "update" => pc[v] = "update" /\ items'[v] = items[v]
  BY <1>6 DEF TypeOK
<1>11. \A v \in Worker : items'[v] = items[v] => CountsOf(v)' = CountsOf(v)
  BY DEF CountsOf
<1>12. SlicesApart' /\ UpdateOwned'
  BY <1>6, <1>10, <1>11 DEF SlicesApart, UpdateOwned, InSlice
<1>13. UpdateExact'
  <2>1. \A k, d : Has(k, d)' <=> Has(k, d)
    BY <1>6 DEF Has
  <2>2. \A v, i : Pending(v, i)' <=> Pending(v, i)
    BY <1>6 DEF Pending, InSlice
  <2>3. QED
    BY <1>6, <1>10, <2>1, <2>2 DEF UpdateExact
<1>14. PostingsFaithful' /\ AckedIndexed'
  BY <1>6 DEF PostingsFaithful, AckedIndexed
<1>15. SearchBacked'
  BY <1>6 DEF SearchBacked, Has, Doc
<1>16. SearchComplete'
  BY <1>6 DEF SearchComplete, TypeOK
<1>17. QED
  BY <1>7, <1>8, <1>9, <1>12, <1>13, <1>14, <1>15, <1>16

LEMMA ReceiveSearchStep == ASSUME IInv, NEW w \in Worker, ReceiveSearch(w) PROVE IInv'
<1> USE DEF IInv
<1>1. PICK q \in Query :
        /\ terms' = [terms EXCEPT ![w] = q]
        /\ promised' = [promised EXCEPT ![w] =
                          {d \in acked : Matches(d, q)}
                            \union {d \in DOMAIN documents : <<q, d>> \in shown}]
  BY DEF ReceiveSearch
<1>2. /\ pc[w] = "receive" /\ pc' = [pc EXCEPT ![w] = "lookup"]
      /\ requests' = requests + 1
      /\ UNCHANGED <<documents, termInvertedIndex, path, items, docNum, slices, at, docScores,
                     declared, acked, shown>>
  BY DEF ReceiveSearch, store, indexing
<1>3. TypeOK'
  <2>1. /\ pc' \in [Worker -> {"receive", "put", "update", "lookup"}]
        /\ terms' \in [Worker -> Query \union {<<>>}]
        /\ requests' \in Nat
    BY <1>1, <1>2 DEF TypeOK
  <2>2. \A v \in Worker : pc'[v] = "update" => pc[v] = "update"
    BY <1>2 DEF TypeOK
  <2>3. QED
    BY <1>2, <2>1, <2>2 DEF TypeOK, Doc
<1>4. Types' /\ ItemsDistinct'
  BY <1>1, <1>2 DEF Types, ItemsDistinct, TypeOK, Doc
<1>5. \A v \in Worker : pc'[v] = "update" => pc[v] = "update"
  BY <1>2 DEF TypeOK
<1>6. SlicesApart' /\ UpdateOwned'
  <2>1. \A v \in Worker : CountsOf(v)' = CountsOf(v)
    BY <1>2 DEF CountsOf
  <2>2. QED
    BY <1>2, <1>5, <2>1 DEF SlicesApart, UpdateOwned, InSlice
<1>7. UpdateExact'
  <2>1. \A k, d : Has(k, d)' <=> Has(k, d)
    BY <1>2 DEF Has
  <2>2. \A v, i : Pending(v, i)' <=> Pending(v, i)
    BY <1>2 DEF Pending, InSlice
  <2>3. QED
    BY <1>2, <1>5, <2>1, <2>2 DEF UpdateExact
<1>8. PostingsFaithful' /\ AckedIndexed'
  BY <1>2 DEF PostingsFaithful, AckedIndexed
<1>9. SearchBacked'
  <2>1. \A k, d : Has(k, d)' <=> Has(k, d)
    BY <1>2 DEF Has
  <2>2. ASSUME NEW d \in promised'[w], NEW i \in DOMAIN q PROVE Has(q[i], d)
    <3>1. \/ d \in acked /\ q[i] \in DOMAIN declared[d]
          \/ d \in Doc /\ <<q, d>> \in shown
      BY <1>1, <2>2 DEF Matches, Doc, Types
    <3>2. QED
      BY <3>1, <2>2 DEF AckedIndexed, Has, SearchBacked
  <2>3. at[w] = at'[w] /\ terms'[w] = q /\ \A v \in Worker \ {w} : terms'[v] = terms[v] /\ promised'[v] = promised[v]
    BY <1>1, <1>2 DEF TypeOK, Types
  <2>4. DOMAIN docScores'[w] = {}
    BY <1>2 DEF Types
  <2>5. QED
    BY <1>2, <2>1, <2>2, <2>3, <2>4 DEF SearchBacked, Doc
<1>10. SearchComplete'
  BY <1>1, <1>2 DEF SearchComplete, TypeOK, Types
<1>11. QED
  BY <1>3, <1>4, <1>6, <1>7, <1>8, <1>9, <1>10

LEMMA CountsType ==
  ASSUME TypeOK, NEW w \in Worker
  PROVE  /\ CountsOf(w) \in Counts
         /\ DOMAIN CountsOf(w) = {items[w][i].word : i \in DOMAIN items[w]}
<1>1. items[w] \in Seq(Item)
  BY DEF TypeOK
<1>2. \A i \in DOMAIN items[w] : items[w][i] \in Item
  BY <1>1, LenProperties, ElementOfSeq
<1> DEFINE K == {items[w][i].word : i \in DOMAIN items[w]}
<1>3. K \in SUBSET Word
  BY <1>2 DEF Item
<1>4. \A k \in K : items[w][CHOOSE i \in DOMAIN items[w] : items[w][i].word = k].count \in Nat
  <2>1. ASSUME NEW k \in K
        PROVE  (CHOOSE i \in DOMAIN items[w] : items[w][i].word = k) \in DOMAIN items[w]
    BY <2>1
  <2>2. QED
    BY <1>2, <2>1 DEF Item
<1>5. CountsOf(w) \in [K -> Nat] /\ DOMAIN CountsOf(w) = K
  BY <1>4 DEF CountsOf
<1> HIDE DEF K
<1>6. CountsOf(w) \in Counts
  BY <1>3, <1>5 DEF Counts
<1>7. QED
  BY <1>5, <1>6 DEF K

LEMMA CountOfItem ==
  ASSUME TypeOK, ItemsDistinct, NEW w \in Worker, NEW i \in DOMAIN items[w]
  PROVE  /\ items[w][i] \in Item
         /\ items[w][i].word \in DOMAIN CountsOf(w)
         /\ CountsOf(w)[items[w][i].word] = items[w][i].count
<1>1. items[w] \in Seq(Item)
  BY DEF TypeOK
<1>2. items[w][i] \in Item
  BY <1>1, LenProperties, ElementOfSeq
<1>3. (CHOOSE j \in DOMAIN items[w] : items[w][j].word = items[w][i].word) = i
  BY DEF ItemsDistinct
<1>4. QED
  BY <1>2, <1>3 DEF CountsOf

LEMMA PutStep == ASSUME IInv, NEW w \in Worker, Put(w) PROVE IInv'
<1> USE DEF IInv
<1> DEFINE n == Len(documents)
<1>1. /\ pc[w] = "put" /\ pc' = [pc EXCEPT ![w] = "update"]
      /\ documents' = Append(documents, path[w])
      /\ docNum' = [docNum EXCEPT ![w] = n + 1]
      /\ slices' = [slices EXCEPT ![w] = Slices(Len(items[w]))]
      /\ declared' = Append(declared, CountsOf(w))
      /\ UNCHANGED <<termInvertedIndex, path, items, terms, at, docScores, requests, acked,
                     shown, promised>>
  BY DEF Put, PutDocument, NextDocument, searching
<1>2. n \in Nat /\ Doc = 1 .. n /\ path[w] \in Path /\ Len(declared) = n
  BY <1>1, DocType DEF Types, TypeOK
<1>3. documents' \in Seq(Path) /\ Len(documents') = n + 1 /\ Doc' = 1 .. n + 1
  <2>1. documents' \in Seq(Path) /\ Len(documents') = n + 1
    BY <1>1, <1>2, AppendProperties DEF TypeOK
  <2>2. QED
    BY <2>1, LenProperties DEF Doc
<1>4. /\ declared' \in Seq(Counts) /\ Len(declared') = n + 1
      /\ declared'[n + 1] = CountsOf(w) /\ \A d \in Doc : declared'[d] = declared[d]
  <2>1. declared \in Seq(Counts) /\ CountsOf(w) \in Counts
    BY CountsType DEF Types
  <2>2. QED
    BY <1>1, <1>2, <2>1, AppendProperties
<1> HIDE DEF n
<1>5. Len(items[w]) \in Nat /\ DOMAIN items[w] = 1 .. Len(items[w])
  BY LenProperties DEF TypeOK
<1>6. /\ Slices(Len(items[w])) \in SliceMap
      /\ \A u, i \in Nat : InSlice(Slices(Len(items[w])), u, i) => i \in DOMAIN items[w]
      /\ \A i \in DOMAIN items[w] : \E u \in Nat : InSlice(Slices(Len(items[w])), u, i)
      /\ \A u, v, i \in Nat : InSlice(Slices(Len(items[w])), u, i)
                               /\ InSlice(Slices(Len(items[w])), v, i) => u = v
  BY <1>5, SlicesCover
<1>7. Doc \subseteq Doc' /\ n + 1 \in Doc' /\ n + 1 \notin Doc
  BY <1>2, <1>3
<1>8. /\ slices'[w] = Slices(Len(items[w])) /\ docNum'[w] = n + 1
      /\ \A v \in Worker \ {w} : slices'[v] = slices[v] /\ docNum'[v] = docNum[v] /\ pc'[v] = pc[v]
  BY <1>1 DEF TypeOK
<1>9. \A k \in Word, d \in Doc' : Has(k, d) => d \in Doc
  <2>1. ASSUME NEW k \in Word, NEW d, Has(k, d) PROVE d \in Doc
    BY <2>1, IndexType DEF Has
  <2>2. QED
    BY <2>1
<1>10. \A k, d : Has(k, d)' <=> Has(k, d)
  BY <1>1 DEF Has
<1>11. TypeOK'
  <2>1. termInvertedIndex' \in [Word -> Seq([doc : Doc', freq : Nat])]
    <3>1. [doc : Doc, freq : Nat] \subseteq [doc : Doc', freq : Nat]
      BY <1>7
    <3>2. \A k \in Word : termInvertedIndex[k] \in Seq([doc : Doc', freq : Nat])
      BY <3>1, IndexType, SeqMonotonic
    <3>3. QED
      BY <1>1, <3>2 DEF TypeOK
  <2>2. /\ pc' \in [Worker -> {"receive", "put", "update", "lookup"}]
        /\ docNum' \in [Worker -> Nat]
        /\ acked' \subseteq Doc'
    BY <1>1, <1>2, <1>7 DEF TypeOK
  <2>3. DOMAIN slices' = Worker
    BY <1>1 DEF TypeOK
  <2>4. ASSUME NEW v \in Worker, NEW u \in DOMAIN slices'[v] PROVE slices'[v][u].next \in Nat
    <3>1. CASE v = w
      BY <1>6, <1>8, <2>4, <3>1, SliceMapType
    <3>2. CASE v # w
      BY <1>8, <2>4, <3>2 DEF TypeOK
    <3>3. QED
      BY <3>1, <3>2
  <2>5. ASSUME NEW v \in Worker, pc'[v] = "update"
        PROVE  /\ docNum'[v] \in Doc'
               /\ \A u \in DOMAIN slices'[v] :
                    slices'[v][u].next < slices'[v][u].end =>
                      slices'[v][u].next + 1 \in DOMAIN items'[v]
    <3>1. CASE v = w
      <4>1. ASSUME NEW u \in DOMAIN slices'[w], slices'[w][u].next < slices'[w][u].end
            PROVE  slices'[w][u].next + 1 \in DOMAIN items'[w]
        <5>1. /\ u \in Nat /\ slices'[w][u].next \in Nat /\ slices'[w][u].end \in Nat
          BY <1>6, <1>8, <4>1, SliceMapType
        <5>2. InSlice(Slices(Len(items[w])), u, slices'[w][u].next + 1)
          BY <1>8, <4>1, <5>1 DEF InSlice
        <5>3. QED
          BY <1>1, <1>6, <5>1, <5>2
      <4>2. QED
        BY <1>7, <1>8, <3>1, <4>1
    <3>2. CASE v # w
      BY <1>1, <1>7, <1>8, <2>5, <3>2 DEF TypeOK
    <3>3. QED
      BY <3>1, <3>2
  <2>6. Len(declared') = Len(documents')
    BY <1>3, <1>4
  <2>7. /\ path' \in [Worker -> Path \union {EmptyPath}]
        /\ items' \in [Worker -> Seq(Item)]
        /\ terms' \in [Worker -> Query \union {<<>>}]
        /\ at' \in [Worker -> Nat \ {0}]
        /\ DOMAIN docScores' = Worker
        /\ requests' \in Nat
    BY <1>1 DEF TypeOK
  <2>8. QED
    BY <1>3, <2>1, <2>2, <2>3, <2>4, <2>5, <2>6, <2>7 DEF TypeOK
<1>12. Types'
  <2>1. slices' \in [Worker -> SliceMap]
    BY <1>1, <1>6 DEF Types
  <2>2. shown' \subseteq Query \X Doc'
    BY <1>1, <1>7 DEF Types
  <2>3. \A v \in Worker : /\ pc'[v] = "put" => path'[v] \in Path
                          /\ pc'[v] # "lookup" => at'[v] = 1 /\ DOMAIN docScores'[v] = {}
                          /\ pc'[v] = "lookup" => terms'[v] \in Query
    BY <1>1 DEF Types, TypeOK
  <2>4. QED
    BY <1>1, <1>4, <2>1, <2>2, <2>3 DEF Types
<1>13. ItemsDistinct'
  BY <1>1 DEF ItemsDistinct
<1>14. SlicesApart'
  <2>1. ASSUME NEW v \in Worker, pc'[v] = "update"
        PROVE  /\ \A u, i \in Nat : InSlice(slices'[v], u, i) => i \in DOMAIN items[v]
               /\ \A u, x, i \in Nat : InSlice(slices'[v], u, i) /\ InSlice(slices'[v], x, i) => u = x
    <3>1. CASE v = w
      BY <1>6, <1>8, <3>1
    <3>2. CASE v # w
      BY <1>8, <2>1, <3>2 DEF SlicesApart
    <3>3. QED
      BY <3>1, <3>2
  <2>2. QED
    BY <1>1, <2>1 DEF SlicesApart, InSlice
<1>15. UpdateOwned'
  <2>1. \A v \in Worker : CountsOf(v)' = CountsOf(v)
    BY <1>1 DEF CountsOf
  <2>2. \A v \in Worker \ {w} : pc'[v] = "update" => docNum'[v] \in Doc /\ docNum'[v] # n + 1
    BY <1>7, <1>8 DEF TypeOK
  <2>3. n + 1 \notin acked
    BY <1>7 DEF TypeOK
  <2>4. ASSUME NEW v \in Worker, pc'[v] = "update"
        PROVE  declared'[docNum'[v]] = CountsOf(v) /\ docNum'[v] \notin acked
    <3>1. CASE v = w
      BY <1>4, <1>8, <2>3, <3>1
    <3>2. CASE v # w
      <4>1. docNum'[v] = docNum[v] /\ docNum[v] \in Doc /\ pc[v] = "update"
        BY <1>8, <2>2, <2>4, <3>2
      <4>2. QED
        BY <1>4, <4>1 DEF UpdateOwned
    <3>3. QED
      BY <3>1, <3>2
  <2>5. ASSUME NEW v \in Worker, NEW x \in Worker, pc'[v] = "update", pc'[x] = "update",
               docNum'[v] = docNum'[x]
        PROVE  v = x
    BY <1>8, <2>2, <2>5 DEF UpdateOwned
  <2>6. QED
    BY <1>1, <2>1, <2>4, <2>5 DEF UpdateOwned
<1>16. UpdateExact'
  <2>1. ASSUME NEW v \in Worker, pc'[v] = "update", NEW i \in DOMAIN items'[v]
        PROVE  Has(items'[v][i].word, docNum'[v]) <=> ~Pending(v, i)'
    <3>1. CASE v = w
      <4>1. items[w][i].word \in Word
        BY <1>1, <2>1, <3>1, CountOfItem DEF Item
      <4>2. ~Has(items[w][i].word, n + 1)
        BY <1>7, <1>9, <4>1
      <4>3. Pending(w, i)'
        <5>1. \E u \in Nat : InSlice(Slices(Len(items[w])), u, i)
          BY <1>1, <1>6, <2>1, <3>1
        <5>2. QED
          BY <1>8, <5>1 DEF Pending, InSlice
      <4>4. QED
        BY <1>1, <1>8, <3>1, <4>2, <4>3
    <3>2. CASE v # w
      <4>1. Pending(v, i)' <=> Pending(v, i)
        BY <1>8, <3>2 DEF Pending, InSlice
      <4>2. QED
        BY <1>1, <1>8, <2>1, <3>2, <4>1 DEF UpdateExact
    <3>3. QED
      BY <3>1, <3>2
  <2>2. QED
    BY <1>10, <2>1 DEF UpdateExact
<1>17. PostingsFaithful'
  <2>1. ASSUME NEW k \in Word, NEW i \in DOMAIN termInvertedIndex[k]
        PROVE  declared'[termInvertedIndex[k][i].doc] = declared[termInvertedIndex[k][i].doc]
    BY <1>4, <2>1, IndexType
  <2>2. termInvertedIndex' = termInvertedIndex
    BY <1>1
  <2> HIDE DEF IInv
  <2>3. PostingsFaithful
    BY DEF IInv
  <2>4. QED
    BY <2>1, <2>2, <2>3 DEF PostingsFaithful
<1>18. AckedIndexed'
  <2>1. \A d \in acked : declared'[d] = declared[d]
    BY <1>4 DEF TypeOK
  <2>2. UNCHANGED <<acked, termInvertedIndex>>
    BY <1>1
  <2> HIDE DEF IInv
  <2>3. AckedIndexed
    BY DEF IInv
  <2>4. QED
    BY <2>1, <2>2, <2>3 DEF AckedIndexed
<1>19. SearchBacked'
  <2>1. \A q \in Query, d \in Doc' : <<q, d>> \in shown => \A i \in DOMAIN q : Has(q[i], d)
    BY DEF SearchBacked, Types
  <2>2. QED
    BY <1>1, <1>7, <1>10, <2>1 DEF SearchBacked
<1>20. SearchComplete'
  BY <1>1 DEF SearchComplete, TypeOK
<1>21. QED
  BY <1>11, <1>12, <1>13, <1>14, <1>15, <1>16, <1>17, <1>18, <1>19, <1>20

\* What one add does to the index and to the slices.
LEMMA UpdateEffect ==
  ASSUME IInv, NEW w \in Worker, NEW u, Update(w, u)
  PROVE  \E i \in DOMAIN items[w] :
           LET k == items[w][i].word
               new == Posting(docNum[w], items[w][i].count)
           IN  /\ items[w][i] \in Item /\ docNum[w] \in Doc /\ Pending(w, i) /\ ~Has(k, docNum[w])
               /\ termInvertedIndex' = [termInvertedIndex EXCEPT
                                          ![k] = Append(termInvertedIndex[k], new)]
               /\ slices' \in [Worker -> SliceMap]
               /\ \A v \in Worker \ {w} : slices'[v] = slices[v]
               /\ \A x, j \in Nat : InSlice(slices'[w], x, j)
                                      <=> InSlice(slices[w], x, j) /\ ~(x = u /\ j = i)
               /\ u \in Nat /\ InSlice(slices[w], u, i)
<1> USE DEF IInv
<1>1. /\ pc[w] = "update" /\ u \in DOMAIN slices[w] /\ slices[w][u].next < slices[w][u].end
      /\ slices' = [slices EXCEPT ![w][u] = [next |-> slices[w][u].next + 1, end |-> slices[w][u].end]]
  BY DEF Update
<1>2. slices[w] \in SliceMap /\ slices \in [Worker -> SliceMap]
  BY DEF Types
<1>3. u \in Nat /\ slices[w][u] \in [next : Nat, end : Nat]
  BY <1>1, <1>2, SliceMapType
<1> DEFINE i == slices[w][u].next + 1
           r == [next |-> i, end |-> slices[w][u].end]
           k == items[w][i].word
           new == Posting(docNum[w], items[w][i].count)
<1>4. i \in Nat /\ slices[w][u].next \in Nat /\ slices[w][u].end \in Nat /\ r \in [next : Nat, end : Nat]
  BY <1>3
<1>5. i \in DOMAIN items[w] /\ docNum[w] \in Doc
  BY <1>1 DEF TypeOK
<1>6. InSlice(slices[w], u, i)
  BY <1>1, <1>4 DEF InSlice
<1>7. items[w][i] \in Item
  BY <1>5, CountOfItem
<1>8. Pending(w, i) /\ ~Has(k, docNum[w])
  BY <1>1, <1>3, <1>5, <1>6 DEF UpdateExact, Pending
<1>9. AddUnchecked(termInvertedIndex[k], docNum[w], items[w][i].count) = Append(termInvertedIndex[k], new)
  BY <1>7, <1>8, AddAbsent DEF Item
<1>10. termInvertedIndex' = [termInvertedIndex EXCEPT ![k] = Append(termInvertedIndex[k], new)]
  BY <1>9 DEF Update, AddTerm
<1>11. slices' = [slices EXCEPT ![w] = [slices[w] EXCEPT ![u] = r]]
  BY <1>1
<1> HIDE DEF r
<1>12. /\ [slices[w] EXCEPT ![u] = r] \in SliceMap
       /\ DOMAIN [slices[w] EXCEPT ![u] = r] = DOMAIN slices[w]
       /\ \A v \in DOMAIN slices[w] : [slices[w] EXCEPT ![u] = r][v] = IF v = u THEN r ELSE slices[w][v]
  BY <1>1, <1>2, <1>4, SliceMapExcept
<1>13. /\ slices' \in [Worker -> SliceMap] /\ slices'[w] = [slices[w] EXCEPT ![u] = r]
       /\ \A v \in Worker \ {w} : slices'[v] = slices[v]
  BY <1>2, <1>11, <1>12
<1>14. ASSUME NEW x \in Nat, NEW j \in Nat
       PROVE  InSlice(slices'[w], x, j) <=> InSlice(slices[w], x, j) /\ ~(x = u /\ j = i)
  <2>1. CASE x = u
    <3>1. slices'[w][x].next = i /\ slices'[w][x].end = slices[w][u].end
      BY <1>1, <1>12, <1>13, <2>1 DEF r
    <3>2. QED
      BY <1>1, <1>4, <1>12, <1>13, <2>1, <3>1 DEF InSlice
  <2>2. CASE x # u
    BY <1>12, <1>13, <2>2 DEF InSlice
  <2>3. QED
    BY <2>1, <2>2
<1> HIDE DEF i
<1>15. QED
  BY <1>3, <1>5, <1>6, <1>7, <1>8, <1>10, <1>13, <1>14

\* The postings of an acknowledged document, in terms of Has.
LEMMA AckedHas ==
  ASSUME TypeOK, Types
  PROVE  AckedIndexed <=> \A d \in acked : \A k \in DOMAIN declared[d] : Has(k, d)
BY DEF AckedIndexed, Has

LEMMA UpdateStep == ASSUME IInv, NEW w \in Worker, NEW u, Update(w, u) PROVE IInv'
<1> USE DEF IInv
<1>1. PICK i \in DOMAIN items[w] :
        LET k == items[w][i].word
            new == Posting(docNum[w], items[w][i].count)
        IN  /\ items[w][i] \in Item /\ docNum[w] \in Doc /\ Pending(w, i) /\ ~Has(k, docNum[w])
            /\ termInvertedIndex' = [termInvertedIndex EXCEPT
                                       ![k] = Append(termInvertedIndex[k], new)]
            /\ slices' \in [Worker -> SliceMap]
            /\ \A v \in Worker \ {w} : slices'[v] = slices[v]
            /\ \A x, j \in Nat : InSlice(slices'[w], x, j)
                                   <=> InSlice(slices[w], x, j) /\ ~(x = u /\ j = i)
            /\ u \in Nat /\ InSlice(slices[w], u, i)
  BY UpdateEffect
<1>2. PICK k \in Word, d \in Doc, a \in Nat :
        /\ k = items[w][i].word /\ d = docNum[w] /\ a = items[w][i].count
        /\ Pending(w, i) /\ ~Has(k, d)
        /\ termInvertedIndex' = [termInvertedIndex EXCEPT
                                    ![k] = Append(termInvertedIndex[k], [doc |-> d, freq |-> a])]
  BY <1>1 DEF Item, Posting
<1> DEFINE new == [doc |-> d, freq |-> a]
           n == Len(termInvertedIndex[k])
<1>3. /\ slices' \in [Worker -> SliceMap]
      /\ \A v \in Worker \ {w} : slices'[v] = slices[v]
      /\ \A x, j \in Nat : InSlice(slices'[w], x, j) <=> InSlice(slices[w], x, j) /\ ~(x = u /\ j = i)
      /\ u \in Nat /\ InSlice(slices[w], u, i)
  BY <1>1
<1>4. /\ pc[w] = "update"
      /\ UNCHANGED <<documents, pc, path, items, docNum, terms, at, docScores, requests, declared,
                     acked, shown, promised>>
      /\ Doc' = Doc
  BY DEF Update, searching, history, Doc
<1>5. /\ n \in Nat
      /\ termInvertedIndex'[k] \in Seq([doc : Doc, freq : Nat])
      /\ DOMAIN termInvertedIndex'[k] = 1 .. n + 1
      /\ termInvertedIndex'[k][n + 1] = new
      /\ \A x \in 1 .. n : termInvertedIndex'[k][x] = termInvertedIndex[k][x]
      /\ DOMAIN termInvertedIndex[k] = 1 .. n
      /\ \A x \in Word \ {k} : termInvertedIndex'[x] = termInvertedIndex[x]
  <2>1. n \in Nat /\ DOMAIN termInvertedIndex[k] = 1 .. n
    BY <1>2, IndexType
  <2>2. termInvertedIndex[k] \in Seq([doc : Doc, freq : Nat]) /\ new \in [doc : Doc, freq : Nat]
    BY IndexType
  <2>3. /\ termInvertedIndex'[k] = Append(termInvertedIndex[k], new)
        /\ \A x \in Word \ {k} : termInvertedIndex'[x] = termInvertedIndex[x]
    BY <1>2 DEF TypeOK
  <2> HIDE DEF new
  <2>4. QED
    BY <2>1, <2>2, <2>3, AppendProperties, LenProperties
<1> HIDE DEF new, n
<1>6. \A x \in Word : \A e : Has(x, e)' <=> Has(x, e) \/ (x = k /\ e = d)
  <2>1. ASSUME NEW e PROVE Has(k, e)' <=> Has(k, e) \/ e = d
    <3>1. new.doc = d
      BY DEF new
    <3>2. ASSUME Has(k, e)' PROVE Has(k, e) \/ e = d
      <4>1. PICK x \in 1 .. n + 1 : termInvertedIndex'[k][x].doc = e
        BY <1>5, <3>2 DEF Has
      <4>2. x = n + 1 \/ x \in 1 .. n
        BY <1>5
      <4>3. QED
        BY <1>5, <3>1, <4>1, <4>2 DEF Has
    <3>3. ASSUME Has(k, e) \/ e = d PROVE Has(k, e)'
      <4>1. CASE Has(k, e)
        <5>1. PICK x \in 1 .. n : termInvertedIndex[k][x].doc = e
          BY <1>5, <4>1 DEF Has
        <5>2. x \in 1 .. n + 1 /\ termInvertedIndex'[k][x].doc = e
          BY <1>5, <5>1
        <5>3. QED
          BY <1>5, <5>2 DEF Has
      <4>2. CASE e = d
        <5>1. n + 1 \in 1 .. n + 1
          BY <1>5
        <5>2. QED
          BY <1>5, <3>1, <4>2, <5>1 DEF Has
      <4>3. QED
        BY <3>3, <4>1, <4>2
    <3>4. QED
      BY <3>2, <3>3
  <2>2. ASSUME NEW x \in Word \ {k}, NEW e PROVE Has(x, e)' <=> Has(x, e)
    BY <1>5 DEF Has
  <2>3. QED
    BY <2>1, <2>2
<1>7. \A v \in Worker : CountsOf(v)' = CountsOf(v)
  BY <1>4 DEF CountsOf
<1>8. \A x, j \in Nat, v \in Worker : InSlice(slices'[v], x, j) => InSlice(slices[v], x, j)
  BY <1>3
<1>9. TypeOK'
  <2>1. termInvertedIndex' \in [Word -> Seq([doc : Doc', freq : Nat])]
    <3>1. Append(termInvertedIndex[k], new) \in Seq([doc : Doc', freq : Nat])
      BY <1>2, <1>4, <1>5 DEF TypeOK, new
    <3>2. QED
      BY <1>2, <1>4, <3>1 DEF TypeOK, new
  <2>2. \A v \in Worker : \A x \in DOMAIN slices'[v] :
          /\ x \in Nat /\ slices'[v][x].next \in Nat /\ slices'[v][x].end \in Nat
    BY <1>3, SliceMapType
  <2>3. ASSUME NEW v \in Worker, pc[v] = "update", NEW x \in DOMAIN slices'[v],
               slices'[v][x].next < slices'[v][x].end
        PROVE  slices'[v][x].next + 1 \in DOMAIN items[v]
    <3>1. InSlice(slices'[v], x, slices'[v][x].next + 1)
      BY <2>2, <2>3 DEF InSlice
    <3>2. QED
      BY <1>8, <2>2, <2>3, <3>1 DEF SlicesApart
  <2>4. DOMAIN slices' = Worker
    BY <1>3
  <2>5. QED
    BY <1>4, <2>1, <2>2, <2>3, <2>4 DEF TypeOK
<1>10. Types' /\ ItemsDistinct'
  BY <1>3, <1>4 DEF Types, ItemsDistinct
<1>11. SlicesApart'
  BY <1>4, <1>8 DEF SlicesApart, InSlice
<1>12. UpdateOwned'
  BY <1>4, <1>7 DEF UpdateOwned
<1>13. UpdateExact'
  <2>1. ASSUME NEW v \in Worker, pc[v] = "update", NEW j \in DOMAIN items[v]
        PROVE  Has(items[v][j].word, docNum[v])' <=> ~Pending(v, j)'
    <3>1. items[v][j].word \in Word /\ j \in Nat
      <4>1. items[v][j] \in Item
        BY <2>1, CountOfItem
      <4>2. j \in Nat
        BY <2>1, LenProperties DEF TypeOK
      <4>3. QED
        BY <4>1, <4>2 DEF Item
    <3>2. Has(items[v][j].word, docNum[v]) <=> ~Pending(v, j)
      BY <2>1 DEF UpdateExact
    <3>3. CASE v # w
      <4>1. docNum[v] # d
        BY <1>2, <1>4, <2>1, <3>3 DEF UpdateOwned
      <4>2. Pending(v, j)' <=> Pending(v, j)
        BY <1>3, <3>3 DEF Pending, InSlice
      <4>3. QED
        BY <1>4, <1>6, <3>1, <3>2, <4>1, <4>2
    <3>4. CASE v = w /\ j # i
      <4>1. items[v][j].word # k
        BY <1>2, <2>1, <3>4 DEF ItemsDistinct
      <4>2. Pending(w, j)' <=> Pending(w, j)
        <5>1. Pending(w, j)' <=> \E x \in Nat : InSlice(slices'[w], x, j)
          BY DEF Pending, InSlice
        <5>2. QED
          BY <1>3, <3>1, <3>4, <5>1 DEF Pending
      <4>3. QED
        BY <1>4, <1>6, <3>1, <3>2, <3>4, <4>1, <4>2
    <3>5. CASE v = w /\ j = i
      <4>1. ~Pending(w, i)'
        <5>1. ASSUME NEW x \in Nat, InSlice(slices'[w], x, i) PROVE FALSE
          <6>1. InSlice(slices[w], x, i) /\ x # u
            BY <1>3, <3>1, <3>5, <5>1
          <6>2. QED
            BY <1>3, <1>4, <3>1, <3>5, <6>1 DEF SlicesApart
        <5>2. QED
          BY <5>1 DEF Pending, InSlice
      <4>2. Has(items[w][i].word, docNum[w])'
        BY <1>2, <1>4, <1>6, <3>1, <3>5
      <4>3. QED
        BY <1>4, <3>5, <4>1, <4>2
    <3>6. QED
      BY <3>3, <3>4, <3>5
  <2>2. QED
    BY <1>4, <2>1 DEF UpdateExact
<1>14. PostingsFaithful'
  <2> HIDE DEF IInv
  <2>1. k \in DOMAIN declared[d] /\ new.freq = declared[d][k] /\ new.doc = d
    BY <1>2, <1>4, CountOfItem DEF IInv, UpdateOwned, new
  <2>2. \A x \in 1 .. n : termInvertedIndex[k][x].doc # d
    BY <1>2, <1>5 DEF Has
  <2>3. PostingsFaithful
    BY DEF IInv
  <2>4. ASSUME NEW x \in DOMAIN termInvertedIndex'[k], NEW y \in DOMAIN termInvertedIndex'[k]
        PROVE  LET p == termInvertedIndex'[k][x]
               IN  /\ p.doc = termInvertedIndex'[k][y].doc => x = y
                   /\ k \in DOMAIN declared[p.doc] /\ p.freq = declared[p.doc][k]
    <3>1. (x \in 1 .. n \/ x = n + 1) /\ (y \in 1 .. n \/ y = n + 1)
      BY <1>5, <2>4
    <3>2. CASE x \in 1 .. n
      <4>1. /\ termInvertedIndex'[k][x] = termInvertedIndex[k][x]
            /\ x \in DOMAIN termInvertedIndex[k]
            /\ termInvertedIndex[k][x].doc # d
        BY <1>5, <2>2, <3>2
      <4>2. /\ k \in DOMAIN declared[termInvertedIndex[k][x].doc]
            /\ termInvertedIndex[k][x].freq = declared[termInvertedIndex[k][x].doc][k]
            /\ \A z \in 1 .. n : termInvertedIndex[k][x].doc = termInvertedIndex[k][z].doc => x = z
        BY <1>5, <4>1, <2>3 DEF PostingsFaithful
      <4>3. CASE y \in 1 .. n
        BY <1>5, <4>1, <4>2, <4>3
      <4>4. CASE y = n + 1
        BY <1>5, <2>1, <4>1, <4>2, <4>4
      <4>5. QED
        BY <3>1, <4>3, <4>4
    <3>3. CASE x = n + 1
      BY <1>5, <2>1, <2>2, <3>1, <3>3
    <3>4. QED
      BY <3>1, <3>2, <3>3
  <2>5. ASSUME NEW z \in Word \ {k}, NEW x \in DOMAIN termInvertedIndex'[z],
               NEW y \in DOMAIN termInvertedIndex'[z]
        PROVE  LET p == termInvertedIndex'[z][x]
               IN  /\ p.doc = termInvertedIndex'[z][y].doc => x = y
                   /\ z \in DOMAIN declared[p.doc] /\ p.freq = declared[p.doc][z]
    BY <1>5, <2>3, <2>5 DEF PostingsFaithful
  <2>6. QED
    BY <1>4, <2>4, <2>5 DEF PostingsFaithful
<1>15. AckedIndexed'
  <2>1. \A e \in acked : \A x \in DOMAIN declared[e] : x \in Word
    <3>1. \A e \in acked : declared[e] \in Counts
      BY LenProperties, ElementOfSeq DEF Types, TypeOK, Doc
    <3>2. QED
      BY <3>1 DEF Counts
  <2>2. \A e \in acked : \A x \in DOMAIN declared[e] : Has(x, e)'
    BY <1>6, <2>1, AckedHas
  <2>3. QED
    BY <1>4, <2>2 DEF AckedIndexed, Has
<1>16. SearchBacked' /\ SearchComplete'
  <2>1. \A q \in Query : \A x \in DOMAIN q : q[x] \in Word
    BY QueryAssumption, LenProperties, ElementOfSeq
  <2>2. \A v \in Worker : \A x \in DOMAIN terms[v] : terms[v][x] \in Word
    <3>1. \A v \in Worker : terms[v] \in Seq(Word)
      BY QueryAssumption, EmptySeq DEF TypeOK
    <3>2. QED
      BY <3>1, LenProperties, ElementOfSeq
  <2>3. SearchBacked'
    <3>1. \A x \in Word : \A e : Has(x, e) => Has(x, e)'
      BY <1>6
    <3>2. \A v \in Worker : \A x \in DOMAIN terms[v] :
            /\ \A e \in promised[v] : Has(terms[v][x], e)'
            /\ \A e \in DOMAIN docScores[v] : x < at[v] => Has(terms[v][x], e)'
      BY <1>4, <2>2, <3>1 DEF SearchBacked
    <3>3. \A q \in Query : \A e \in Doc : <<q, e>> \in shown => \A x \in DOMAIN q : Has(q[x], e)'
      BY <2>1, <3>1 DEF SearchBacked
    <3>4. QED
      BY <1>4, <3>2, <3>3 DEF SearchBacked
  <2>4. SearchComplete'
    BY <1>4 DEF SearchComplete
  <2>5. QED
    BY <2>3, <2>4
<1>17. QED
  BY <1>9, <1>10, <1>11, <1>12, <1>13, <1>14, <1>15, <1>16

LEMMA ReplyIndexStep == ASSUME IInv, NEW w \in Worker, ReplyIndex(w) PROVE IInv'
<1> USE DEF IInv
<1>1. /\ pc[w] = "update" /\ pc' = [pc EXCEPT ![w] = "receive"]
      /\ acked' = acked \union {docNum[w]}
      /\ path' = [path EXCEPT ![w] = EmptyPath]
      /\ items' = [items EXCEPT ![w] = <<>>]
      /\ docNum' = [docNum EXCEPT ![w] = 0]
      /\ slices' = [slices EXCEPT ![w] = Slices(0)]
      /\ UNCHANGED <<documents, termInvertedIndex, terms, at, docScores, requests, declared,
                     shown, promised>>
      /\ Doc' = Doc
  BY DEF ReplyIndex, store, searching, Doc
<1>2. \A v \in Worker : pc'[v] = "update" =>
        /\ v # w /\ pc[v] = "update" /\ items'[v] = items[v] /\ docNum'[v] = docNum[v]
        /\ slices'[v] = slices[v]
  BY <1>1 DEF TypeOK
<1>3. \A k, e : Has(k, e)' <=> Has(k, e)
  BY <1>1 DEF Has
<1>4. TypeOK'
  <2>1. /\ pc' \in [Worker -> {"receive", "put", "update", "lookup"}]
        /\ path' \in [Worker -> Path \union {EmptyPath}]
        /\ docNum' \in [Worker -> Nat]
        /\ DOMAIN slices' = Worker
    BY <1>1 DEF TypeOK
  <2>2. items' \in [Worker -> Seq(Item)]
    BY <1>1, EmptySeq DEF TypeOK
  <2>3. acked' \subseteq Doc
    BY <1>1 DEF TypeOK
  <2>4. ASSUME NEW v \in Worker, NEW x \in DOMAIN slices'[v] PROVE slices'[v][x].next \in Nat
    <3>1. CASE v = w
      <4>1. slices'[w] = Slices(0) /\ Slices(0) \in SliceMap
        BY <1>1, SlicesCover DEF TypeOK
      <4>2. QED
        BY <2>4, <3>1, <4>1, SliceMapType
    <3>2. CASE v # w
      <4>1. slices'[v] = slices[v]
        BY <1>1, <3>2 DEF TypeOK
      <4>2. QED
        BY <2>4, <4>1 DEF TypeOK
    <3>3. QED
      BY <3>1, <3>2
  <2>5. ASSUME NEW v \in Worker, pc'[v] = "update"
        PROVE  /\ docNum'[v] \in Doc
               /\ \A x \in DOMAIN slices'[v] :
                    slices'[v][x].next < slices'[v][x].end =>
                      slices'[v][x].next + 1 \in DOMAIN items'[v]
    BY <1>2, <2>5 DEF TypeOK
  <2>6. QED
    BY <1>1, <2>1, <2>2, <2>3, <2>4, <2>5 DEF TypeOK
<1>5. Types'
  <2>1. slices' \in [Worker -> SliceMap]
    BY <1>1, SlicesCover DEF Types
  <2>2. QED
    BY <1>1, <2>1 DEF Types, TypeOK
<1>6. ItemsDistinct'
  <2>1. \A i \in DOMAIN <<>> : FALSE
    OBVIOUS
  <2>2. QED
    BY <1>1, <2>1 DEF ItemsDistinct, TypeOK
<1>7. SlicesApart'
  BY <1>2 DEF SlicesApart, InSlice
<1>8. UpdateOwned'
  <2>1. \A v \in Worker : items'[v] = items[v] => CountsOf(v)' = CountsOf(v)
    BY DEF CountsOf
  <2>2. QED
    BY <1>1, <1>2, <2>1 DEF UpdateOwned
<1>9. UpdateExact'
  <2>1. \A v \in Worker : \A i : pc'[v] = "update" => (Pending(v, i)' <=> Pending(v, i))
    BY <1>2 DEF Pending, InSlice
  <2>2. QED
    BY <1>2, <1>3, <2>1 DEF UpdateExact
<1>10. PostingsFaithful'
  BY <1>1 DEF PostingsFaithful
<1>11. AckedIndexed'
  <2>1. ASSUME NEW i \in DOMAIN items[w] PROVE Has(items[w][i].word, docNum[w])
    <3>1. i \in Nat
      BY LenProperties DEF TypeOK
    <3>2. slices[w] \in SliceMap
      BY DEF Types
    <3>3. ~Pending(w, i)
      BY <3>1, <3>2, SliceMapType DEF ReplyIndex, Pending, InSlice
    <3>4. QED
      BY <1>1, <3>3 DEF UpdateExact
  <2>2. \A k \in DOMAIN declared[docNum[w]] : Has(k, docNum[w])
    <3>1. DOMAIN declared[docNum[w]] = {items[w][i].word : i \in DOMAIN items[w]}
      BY <1>1, CountsType DEF UpdateOwned
    <3>2. QED
      BY <2>1, <3>1
  <2>3. \A d \in acked : \A k \in DOMAIN declared[d] : Has(k, d)
    BY AckedHas
  <2>4. \A d \in acked' : \A k \in DOMAIN declared[d] : Has(k, d)
    BY <1>1, <2>2, <2>3
  <2>5. \A d \in acked' : \A k \in DOMAIN declared[d] :
          \E i \in DOMAIN termInvertedIndex[k] : termInvertedIndex[k][i].doc = d
    BY <2>4 DEF Has
  <2>6. QED
    BY <1>1, <2>5 DEF AckedIndexed
<1>12. SearchBacked'
  BY <1>1, <1>3 DEF SearchBacked
<1>13. SearchComplete'
  BY <1>1 DEF SearchComplete, TypeOK
<1>14. QED
  BY <1>4, <1>5, <1>6, <1>7, <1>8, <1>9, <1>10, <1>11, <1>12, <1>13

LEMMA QueryType ==
  ASSUME TypeOK, Types, NEW w \in Worker, pc[w] = "lookup"
  PROVE  /\ terms[w] \in Query /\ Len(terms[w]) \in Nat
         /\ DOMAIN terms[w] = 1 .. Len(terms[w])
         /\ \A i \in DOMAIN terms[w] : terms[w][i] \in Word
<1>1. terms[w] \in Query
  BY DEF Types
<1>2. terms[w] \in Seq(Word)
  BY <1>1, QueryAssumption
<1>3. QED
  BY <1>1, <1>2, LenProperties, ElementOfSeq

LEMMA LookupTermStep == ASSUME IInv, NEW w \in Worker, LookupTerm(w) PROVE IInv'
<1> USE DEF IInv
<1> DEFINE k == terms[w][at[w]]
           current == LastFreqs(LookupIndex(k))
           next == IF at[w] = 1 THEN current ELSE Intersect(docScores[w], current)
<1>1. /\ pc[w] = "lookup" /\ at[w] <= Len(terms[w])
      /\ docScores' = [docScores EXCEPT ![w] = next]
      /\ at' = [at EXCEPT ![w] = IF DOMAIN next = {} THEN Len(terms[w]) + 1 ELSE @ + 1]
      /\ UNCHANGED <<documents, termInvertedIndex, pc, path, items, docNum, slices, terms, requests,
                     declared, acked, shown, promised>>
      /\ Doc' = Doc
  BY DEF LookupTerm, store, indexing, history, Doc
<1>2. at[w] \in Nat \ {0} /\ at[w] \in DOMAIN terms[w] /\ k \in Word /\ Len(terms[w]) \in Nat
      /\ DOMAIN terms[w] = 1 .. Len(terms[w])
  <2>1. at[w] \in Nat \ {0}
    BY DEF TypeOK
  <2>2. QED
    BY <1>1, <2>1, QueryType
<1>3. \A d : d \in DOMAIN current <=> Has(k, d)
  BY DEF LastFreqs, LookupIndex, Has
<1>4. \A d \in DOMAIN current : d \in Doc
  BY <1>2, <1>3, IndexType DEF Has
<1>5. DOMAIN next = IF at[w] = 1 THEN DOMAIN current ELSE DOMAIN docScores[w] \intersect DOMAIN current
  BY DEF Intersect
<1> HIDE DEF next, current
<1>6. /\ docScores'[w] = next /\ DOMAIN docScores' = Worker
      /\ \A v \in Worker \ {w} : docScores'[v] = docScores[v] /\ at'[v] = at[v]
      /\ at' \in [Worker -> Nat \ {0}]
      /\ at'[w] = IF DOMAIN next = {} THEN Len(terms[w]) + 1 ELSE at[w] + 1
  <2>1. DOMAIN docScores = Worker
    BY DEF TypeOK
  <2>2. at \in [Worker -> Nat \ {0}]
    BY DEF TypeOK
  <2>3. (IF DOMAIN next = {} THEN Len(terms[w]) + 1 ELSE at[w] + 1) \in Nat \ {0}
    BY <1>2
  <2>4. QED
    BY <1>1, <2>1, <2>2, <2>3
<1>7. TypeOK'
  BY <1>1, <1>6 DEF TypeOK
<1>8. Types'
  <2>1. \A v \in Worker : pc[v] # "lookup" => at'[v] = 1 /\ DOMAIN docScores'[v] = {}
    BY <1>1, <1>6 DEF Types
  <2>2. QED
    BY <1>1, <2>1 DEF Types
<1>9. ItemsDistinct' /\ SlicesApart'
  BY <1>1 DEF ItemsDistinct, SlicesApart, InSlice
<1>10. UpdateOwned'
  <2>1. \A v \in Worker : CountsOf(v)' = CountsOf(v)
    BY <1>1 DEF CountsOf
  <2>2. QED
    BY <1>1, <2>1 DEF UpdateOwned
<1>11. \A x, e : Has(x, e)' <=> Has(x, e)
  BY <1>1 DEF Has
<1>12. UpdateExact'
  <2>1. \A v, i : Pending(v, i)' <=> Pending(v, i)
    BY <1>1 DEF Pending, InSlice
  <2>2. QED
    BY <1>1, <1>11, <2>1 DEF UpdateExact
<1>13. PostingsFaithful' /\ AckedIndexed'
  BY <1>1 DEF PostingsFaithful, AckedIndexed
<1>14. SearchBacked'
  <2>1. ASSUME NEW i \in DOMAIN terms[w], NEW d \in DOMAIN next, i < at'[w] PROVE Has(terms[w][i], d)
    <3>1. i \in Nat /\ i <= at[w] /\ d \in DOMAIN current
      BY <1>2, <1>5, <1>6, <2>1
    <3>2. CASE i = at[w]
      BY <1>3, <3>1, <3>2
    <3>3. CASE i < at[w]
      <4>1. at[w] # 1 /\ d \in DOMAIN docScores[w]
        BY <1>2, <1>5, <2>1, <3>1, <3>3
      <4>2. QED
        BY <3>3, <4>1 DEF SearchBacked
    <3>4. QED
      BY <1>2, <3>1, <3>2, <3>3
  <2>2. \A v \in Worker : DOMAIN docScores'[v] \subseteq Doc
    BY <1>4, <1>5, <1>6 DEF SearchBacked
  <2>3. ASSUME NEW v \in Worker, NEW i \in DOMAIN terms[v]
        PROVE  /\ \A d \in promised[v] : Has(terms[v][i], d)
               /\ \A d \in DOMAIN docScores'[v] : i < at'[v] => Has(terms[v][i], d)
    <3>1. CASE v = w
      BY <1>6, <2>1, <2>3, <3>1 DEF SearchBacked
    <3>2. CASE v # w
      BY <1>6, <2>3, <3>2 DEF SearchBacked
    <3>3. QED
      BY <3>1, <3>2
  <2>4. QED
    BY <1>1, <1>11, <2>2, <2>3 DEF SearchBacked
<1>15. SearchComplete'
  <2>1. promised[w] \subseteq DOMAIN current
    BY <1>2, <1>3 DEF SearchBacked
  <2>2. at[w] # 1 => promised[w] \subseteq DOMAIN docScores[w]
    BY <1>1, <1>2 DEF SearchComplete
  <2>3. promised[w] \subseteq DOMAIN next
    BY <1>5, <2>1, <2>2
  <2>4. QED
    BY <1>1, <1>6, <2>3 DEF SearchComplete
<1>16. QED
  BY <1>7, <1>8, <1>9, <1>10, <1>12, <1>13, <1>14, <1>15

LEMMA ReplySearchStep == ASSUME IInv, NEW w \in Worker, ReplySearch(w) PROVE IInv'
<1> USE DEF IInv
<1> DEFINE D == DOMAIN docScores[w]
           S == {DocResult(d, docScores[w][d]) : d \in D}
<1>1. PICK s \in Orders(S) :
        LET n == IF Len(s) > resultLimit THEN resultLimit ELSE Len(s)
            hits == SubSeq(s, 1, n)
        IN  shown' = shown \union {<<terms[w], hits[i].doc>> : i \in 1 .. n}
  BY DEF ReplySearch
<1>2. /\ pc[w] = "lookup" /\ at[w] > Len(terms[w])
      /\ terms' = [terms EXCEPT ![w] = <<>>]
      /\ at' = [at EXCEPT ![w] = 1]
      /\ docScores' = [docScores EXCEPT ![w] = NoScores]
      /\ promised' = [promised EXCEPT ![w] = {}]
      /\ pc' = [pc EXCEPT ![w] = "receive"]
      /\ UNCHANGED <<documents, termInvertedIndex, path, items, docNum, slices, requests,
                     declared, acked>>
      /\ Doc' = Doc
  BY DEF ReplySearch, store, indexing, Doc
<1>3. IsFiniteSet(S)
  <2>1. D \subseteq Doc
    BY DEF SearchBacked
  <2>2. IsFiniteSet(D)
    <3>1. IsFiniteSet(Doc)
      BY DocType, FS_Interval
    <3>2. QED
      BY <2>1, <3>1, FS_Subset
  <2> DEFINE f == [d \in D |-> DocResult(d, docScores[w][d])]
  <2>3. f \in Surjection(D, S)
    BY DEF Surjection
  <2>4. QED
    BY <2>2, <2>3, FS_Surjection
<1>4. \A r \in S : r.doc \in D
  BY DEF DocResult
<1> HIDE DEF S
<1>5. ASSUME NEW q, NEW d, <<q, d>> \in shown', <<q, d>> \notin shown
      PROVE  q = terms[w] /\ d \in D
  <2> DEFINE n == IF Len(s) > resultLimit THEN resultLimit ELSE Len(s)
             hits == SubSeq(s, 1, n)
  <2>1. s \in Seq(S) /\ DOMAIN s = 1 .. Len(s) /\ Len(s) \in Nat
    <3>1. Cardinality(S) \in Nat
      BY <1>3, FS_CardinalityType
    <3>2. s \in [1 .. Cardinality(S) -> S]
      BY <1>1 DEF Orders
    <3>3. s \in Seq(S)
      BY <3>1, <3>2, SeqDef
    <3>4. QED
      BY <3>3, LenProperties
  <2>2. n \in Nat /\ n <= Len(s)
    BY <2>1, LimitAssumption
  <2>3. shown' = shown \union {<<terms[w], hits[i].doc>> : i \in 1 .. n}
    BY <1>1
  <2> HIDE DEF n
  <2>4. PICK i \in 1 .. n : <<q, d>> = <<terms[w], hits[i].doc>>
    BY <1>5, <2>3
  <2>5. \A j \in 1 .. n : s[j] \in S
    BY <2>1, <2>2, ElementOfSeq
  <2>6. hits[i] = s[i]
    BY <2>2, <2>5, SubSeqProperties
  <2>7. QED
    BY <1>4, <2>2, <2>4, <2>5, <2>6
<1>6. terms[w] \in Query /\ Len(terms[w]) \in Nat /\ DOMAIN terms[w] = 1 .. Len(terms[w])
  BY <1>2, QueryType
<1>7. \A v \in Worker : pc'[v] # "receive" => v # w /\ pc'[v] = pc[v]
  BY <1>2 DEF TypeOK
<1>8. \A v \in Worker \ {w} : /\ terms'[v] = terms[v] /\ at'[v] = at[v] /\ docScores'[v] = docScores[v]
                              /\ promised'[v] = promised[v] /\ pc'[v] = pc[v]
  BY <1>2 DEF TypeOK, Types
<1>9. /\ terms'[w] = <<>> /\ at'[w] = 1 /\ docScores'[w] = NoScores /\ promised'[w] = {}
      /\ pc'[w] = "receive" /\ DOMAIN NoScores = {}
  BY <1>2 DEF TypeOK, Types, NoScores
<1>10. TypeOK'
  <2>1. /\ pc' \in [Worker -> {"receive", "put", "update", "lookup"}]
        /\ terms' \in [Worker -> Query \union {<<>>}]
        /\ at' \in [Worker -> Nat \ {0}]
        /\ DOMAIN docScores' = Worker
    BY <1>2 DEF TypeOK
  <2>2. \A v \in Worker : pc'[v] = "update" => pc[v] = "update"
    BY <1>7
  <2>3. QED
    BY <1>2, <2>1, <2>2 DEF TypeOK
<1>11. Types'
  <2>1. shown' \subseteq Query \X Doc
    <3>1. D \subseteq Doc
      BY DEF SearchBacked
    <3>2. shown \subseteq Query \X Doc
      BY DEF Types
    <3>3. \A e \in shown' : \E q, d : e = <<q, d>>
      BY <1>1, <3>2
    <3>4. QED
      BY <1>5, <1>6, <3>1, <3>2, <3>3
  <2>2. \A v \in Worker : /\ pc'[v] = "put" => path[v] \in Path
                          /\ pc'[v] # "lookup" => at'[v] = 1 /\ DOMAIN docScores'[v] = {}
                          /\ pc'[v] = "lookup" => terms'[v] \in Query
    BY <1>7, <1>8, <1>9 DEF Types
  <2>3. DOMAIN promised' = Worker
    BY <1>2 DEF Types
  <2>4. QED
    BY <1>2, <2>1, <2>2, <2>3 DEF Types
<1>12. ItemsDistinct' /\ SlicesApart'
  BY <1>2, <1>7 DEF ItemsDistinct, SlicesApart, InSlice
<1>13. UpdateOwned'
  <2>1. \A v \in Worker : CountsOf(v)' = CountsOf(v)
    BY <1>2 DEF CountsOf
  <2>2. QED
    BY <1>2, <1>7, <2>1 DEF UpdateOwned
<1>14. \A x, e : Has(x, e)' <=> Has(x, e)
  BY <1>2 DEF Has
<1>15. UpdateExact'
  <2>1. \A v, i : Pending(v, i)' <=> Pending(v, i)
    BY <1>2 DEF Pending, InSlice
  <2>2. QED
    BY <1>2, <1>7, <1>14, <2>1 DEF UpdateExact
<1>16. PostingsFaithful' /\ AckedIndexed'
  BY <1>2 DEF PostingsFaithful, AckedIndexed
<1>17. SearchBacked'
  <2>1. ASSUME NEW q \in Query, NEW d \in Doc, <<q, d>> \in shown', NEW i \in DOMAIN q
        PROVE  Has(q[i], d)
    <3>1. CASE <<q, d>> \in shown
      BY <2>1, <3>1 DEF SearchBacked
    <3>2. CASE <<q, d>> \notin shown
      <4>1. q = terms[w] /\ d \in D
        BY <1>5, <2>1, <3>2
      <4>2. i < at[w]
        BY <1>2, <1>6, <2>1, <4>1 DEF TypeOK
      <4>3. QED
        BY <2>1, <4>1, <4>2 DEF SearchBacked
    <3>3. QED
      BY <3>1, <3>2
  <2>2. \A v \in Worker : DOMAIN docScores'[v] \subseteq Doc
    BY <1>8, <1>9 DEF SearchBacked
  <2>3. ASSUME NEW v \in Worker, NEW i \in DOMAIN terms'[v]
        PROVE  /\ \A d \in promised'[v] : Has(terms'[v][i], d)
               /\ \A d \in DOMAIN docScores'[v] : i < at'[v] => Has(terms'[v][i], d)
    <3>1. CASE v = w
      BY <1>9, <3>1
    <3>2. CASE v # w
      BY <1>8, <2>3, <3>2 DEF SearchBacked
    <3>3. QED
      BY <3>1, <3>2
  <2>4. QED
    BY <1>2, <1>14, <2>1, <2>2, <2>3 DEF SearchBacked
<1>18. SearchComplete'
  BY <1>7, <1>8 DEF SearchComplete
<1>19. QED
  BY <1>10, <1>11, <1>12, <1>13, <1>15, <1>16, <1>17, <1>18
-----------------------------------------------------------------------------
LEMMA NextIInv == IInv /\ [Next]_vars => IInv'
<1> SUFFICES ASSUME IInv, [Next]_vars PROVE IInv'
  OBVIOUS
<1>1. ASSUME NEW w \in Worker, ReceiveIndex(w) PROVE IInv'
  BY <1>1, ReceiveIndexStep
<1>2. ASSUME NEW w \in Worker, ReceiveSearch(w) PROVE IInv'
  BY <1>2, ReceiveSearchStep
<1>3. ASSUME NEW w \in Worker, Put(w) PROVE IInv'
  BY <1>3, PutStep
<1>4. ASSUME NEW w \in Worker, NEW u \in DOMAIN slices[w], Update(w, u) PROVE IInv'
  BY <1>4, UpdateStep
<1>5. ASSUME NEW w \in Worker, ReplyIndex(w) PROVE IInv'
  BY <1>5, ReplyIndexStep
<1>6. ASSUME NEW w \in Worker, LookupTerm(w) PROVE IInv'
  BY <1>6, LookupTermStep
<1>7. ASSUME NEW w \in Worker, ReplySearch(w) PROVE IInv'
  BY <1>7, ReplySearchStep
<1>8. CASE UNCHANGED vars
  <2>1. \A v \in Worker : CountsOf(v)' = CountsOf(v)
    BY <1>8 DEF CountsOf, vars, indexing
  <2>2. UNCHANGED <<documents, termInvertedIndex, pc, path, items, docNum, slices, terms, at,
                    docScores, requests, declared, acked, shown, promised>>
    BY <1>8 DEF vars, store, indexing, searching, history
  <2>3. TypeOK' /\ Types'
    BY <2>2 DEF IInv, TypeOK, Types, Doc
  <2>4. ItemsDistinct' /\ SlicesApart' /\ UpdateOwned'
    BY <2>1, <2>2 DEF IInv, ItemsDistinct, SlicesApart, InSlice, UpdateOwned
  <2>5. UpdateExact' /\ SearchBacked'
    BY <2>2 DEF IInv, UpdateExact, SearchBacked, Has, Pending, InSlice, Doc
  <2>6. PostingsFaithful' /\ AckedIndexed' /\ SearchComplete'
    BY <2>2 DEF IInv, PostingsFaithful, AckedIndexed, SearchComplete
  <2>7. QED
    BY <2>3, <2>4, <2>5, <2>6 DEF IInv
<1>9. QED
  BY <1>1, <1>2, <1>3, <1>4, <1>5, <1>6, <1>7, <1>8 DEF Next, Serve

\* The inductive invariant: types, the shape of the slices, which worker a document
\* belongs to, exactly which of its items are in the index, and what searches found.
THEOREM Invariance == Spec => []IInv
<1>1. QED
  BY InitIInv, NextIInv, PTL DEF Spec

\* However many workers index and search at once, no posting names a document that
\* getDocument cannot resolve (IndexStore.cpp:16-22) and no thread of updateIndex
\* reads outside the item vector (IndexStore.cpp:50-68).
THEOREM TypeCorrect == Spec => []TypeOK
<1>1. IInv => TypeOK
  BY DEF IInv
<1>2. QED
  BY <1>1, Invariance, PTL

\* Every posting carries the count its document was sent with, and a document has
\* one posting per word (ServerProcessingEngine.cpp:160-162 keeps the last of them).
THEOREM Faithful == Spec => []PostingsFaithful
<1>1. IInv => PostingsFaithful
  BY DEF IInv
<1>2. QED
  BY <1>1, Invariance, PTL

\* INDEX_REPLY means indexed, for every number of items and of threads: the slices
\* leave no item out, and the reply waits for every thread.
THEOREM Acknowledged == Spec => []AckedIndexed
<1>1. IInv => AckedIndexed
  BY DEF IInv
<1>2. QED
  BY <1>1, Invariance, PTL

\* A search finds every matching document acknowledged before it started and every
\* one an earlier search for the same terms listed, whatever else is being indexed.
THEOREM Complete == Spec => []SearchComplete
<1>1. IInv => SearchComplete
  BY DEF IInv
<1>2. QED
  BY <1>1, Invariance, PTL
-----------------------------------------------------------------------------
(* The scores of a search, and what a reply lists.                         *)

\* Induction on the natural numbers, for a set that holds 0 and every successor: the
\* numbers outside of it have no least one.
LEMMA SetInduction ==
  ASSUME NEW S, 0 \in S, \A n \in Nat : n \in S => n + 1 \in S
  PROVE  \A n \in Nat : n \in S
<1> DEFINE T == Nat \ S
           R == OpToRel(<, Nat)
<1>1. IsWellFoundedOn(R, Nat)
  BY NatLessThanWellFounded
<1>2. \A m, n \in Nat : m < n => <<m, n>> \in R
  BY DEF OpToRel
<1> SUFFICES ASSUME T # {} PROVE FALSE
  OBVIOUS
<1> HIDE DEF R
<1>3. PICK n \in T : \A m \in T : <<m, n>> \notin R
  BY <1>1, WFMin
<1>4. n - 1 \in Nat /\ n - 1 < n
  BY <1>3
<1>5. n - 1 \in S
  BY <1>2, <1>3, <1>4
<1> QED
  BY <1>3, <1>4, <1>5

\* The sums of the frequencies of the first terms, which Combined is the last of.
Sums(counts, q) ==
  CHOOSE sum : sum = [i \in 0 .. Len(q) |->
                        IF i = 0 THEN 0 ELSE sum[i - 1] + counts[q[i]]]

LEMMA SumsRecursion ==
  ASSUME NEW counts, NEW q, Len(q) \in Nat
  PROVE  /\ Sums(counts, q)[0] = 0
         /\ \A i \in 1 .. Len(q) : Sums(counts, q)[i] = Sums(counts, q)[i - 1] + counts[q[i]]
<1> DEFINE Good(f, m) == \A i \in 0 .. m : f[i] = IF i = 0 THEN 0 ELSE f[i - 1] + counts[q[i]]
           S == {m \in Nat : \E f : Good(f, m)}
<1>1. 0 \in S
  <2>1. Good([i \in 0 .. 0 |-> 0], 0)
    OBVIOUS
  <2> QED
    BY <2>1
<1>2. ASSUME NEW m \in Nat, m \in S
      PROVE  m + 1 \in S
  <2>1. PICK f : Good(f, m)
    BY <1>2
  <2> DEFINE g == [i \in 0 .. m + 1 |-> IF i <= m THEN f[i] ELSE f[m] + counts[q[m + 1]]]
  <2>2. ASSUME NEW i \in 0 .. m + 1
        PROVE  g[i] = IF i = 0 THEN 0 ELSE g[i - 1] + counts[q[i]]
    <3>1. CASE i = 0
      BY <2>1, <3>1
    <3>2. CASE i \in 1 .. m
      <4>1. g[i] = f[i] /\ g[i - 1] = f[i - 1]
        BY <3>2
      <4>2. f[i] = f[i - 1] + counts[q[i]]
        BY <2>1, <3>2
      <4> QED
        BY <3>2, <4>1, <4>2
    <3>3. CASE i = m + 1
      BY <3>3
    <3> QED
      BY <3>1, <3>2, <3>3
  <2>3. Good(g, m + 1)
    BY <2>2
  <2> HIDE DEF g
  <2> QED
    BY <2>3
<1> HIDE DEF S
<1>3. Len(q) \in S
  BY <1>1, <1>2, SetInduction
<1> DEFINE sum == Sums(counts, q)
<1>4. sum = [i \in 0 .. Len(q) |-> IF i = 0 THEN 0 ELSE sum[i - 1] + counts[q[i]]]
  <2>1. PICK f : Good(f, Len(q))
    BY <1>3 DEF S
  <2> DEFINE g == [i \in 0 .. Len(q) |-> f[i]]
  <2>2. g = [i \in 0 .. Len(q) |-> IF i = 0 THEN 0 ELSE g[i - 1] + counts[q[i]]]
    BY <2>1
  <2> HIDE DEF g
  <2> QED
    BY <2>2 DEF Sums
<1> HIDE DEF sum
<1>5. \A i \in 0 .. Len(q) : sum[i] = IF i = 0 THEN 0 ELSE sum[i - 1] + counts[q[i]]
  BY <1>4
<1>6. /\ sum[0] = 0
      /\ \A i \in 1 .. Len(q) : sum[i] = sum[i - 1] + counts[q[i]]
  BY <1>5
<1> QED
  BY <1>6 DEF sum
\* The score of a document is the sum of its declared counts of the terms done.
ScoresSoFar ==
  \A w \in Worker : pc[w] = "lookup" =>
    /\ at[w] <= Len(terms[w]) + 1
    /\ at[w] = 1 => DOMAIN docScores[w] = {}
    /\ \A d \in DOMAIN docScores[w] : docScores[w][d] = Sums(declared[d], terms[w])[at[w] - 1]

\* A search goes on with what it has found when it is at its beginning or not touched,
\* and declared documents stay as they are.
LEMMA ScoresKept ==
  ASSUME IInv, ScoresSoFar,
         \A d \in Doc : declared'[d] = declared[d],
         \A v \in Worker : pc'[v] = "lookup" =>
           \/ /\ at'[v] = 1 /\ Len(terms'[v]) \in Nat /\ DOMAIN docScores'[v] = {}
           \/ /\ pc[v] = "lookup" /\ at'[v] = at[v] /\ terms'[v] = terms[v]
              /\ docScores'[v] = docScores[v]
  PROVE  ScoresSoFar'
<1> SUFFICES ASSUME NEW v \in Worker, pc'[v] = "lookup"
             PROVE  /\ at'[v] <= Len(terms'[v]) + 1
                    /\ at'[v] = 1 => DOMAIN docScores'[v] = {}
                    /\ \A d \in DOMAIN docScores'[v] :
                         docScores'[v][d] = Sums(declared'[d], terms'[v])[at'[v] - 1]
  BY DEF ScoresSoFar, Sums
<1>1. DOMAIN docScores[v] \subseteq Doc
  BY DEF IInv, SearchBacked
<1> QED
  BY <1>1 DEF ScoresSoFar

\* The frequencies LastFreqs finds are those the documents were declared with.
LEMMA LastFreqsDeclared ==
  ASSUME IInv, NEW k \in Word
  PROVE  \A d \in DOMAIN LastFreqs(termInvertedIndex[k]) :
           LastFreqs(termInvertedIndex[k])[d] = declared[d][k]
<1> DEFINE list == termInvertedIndex[k]
<1> SUFFICES ASSUME NEW d \in DOMAIN LastFreqs(list)
             PROVE  LastFreqs(list)[d] = declared[d][k]
  OBVIOUS
<1>1. \A i, j \in DOMAIN list : list[i].doc = list[j].doc => i = j
  BY DEF IInv, PostingsFaithful
<1>2. \A i \in DOMAIN list : list[i].freq = declared[list[i].doc][k]
  BY DEF IInv, PostingsFaithful
<1>3. DOMAIN list \subseteq Nat
  BY IndexType, LenProperties DEF IInv
<1> HIDE DEF list
<1>4. PICK i \in DOMAIN list : list[i].doc = d
  BY DEF LastFreqs
<1> DEFINE P(j) == j \in DOMAIN list /\ list[j].doc = d
                     /\ \A l \in DOMAIN list : list[l].doc = d => l <= j
           last == CHOOSE j \in DOMAIN list :
                     /\ list[j].doc = d
                     /\ \A l \in DOMAIN list : list[l].doc = d => l <= j
<1>5. \E j \in DOMAIN list : /\ list[j].doc = d
                             /\ \A l \in DOMAIN list : list[l].doc = d => l <= j
  BY <1>1, <1>3, <1>4
<1>6. last \in DOMAIN list /\ list[last].doc = d
  BY <1>5
<1>7. LastFreqs(list)[d] = list[last].freq
  BY DEF LastFreqs
<1> QED
  BY <1>2, <1>6, <1>7

LEMMA LookupTermScores ==
  ASSUME IInv, ScoresSoFar, NEW w \in Worker, LookupTerm(w)
  PROVE  ScoresSoFar'
<1> DEFINE k == terms[w][at[w]]
           current == LastFreqs(termInvertedIndex[k])
           next == IF at[w] = 1 THEN current ELSE Intersect(docScores[w], current)
<1>1. /\ pc[w] = "lookup" /\ at[w] <= Len(terms[w])
      /\ docScores' = [docScores EXCEPT ![w] = next]
      /\ at' = [at EXCEPT ![w] = IF DOMAIN next = {} THEN Len(terms[w]) + 1 ELSE @ + 1]
      /\ UNCHANGED <<pc, terms, declared>>
  BY DEF LookupTerm, LookupIndex, history
<1>2. /\ at[w] \in 1 .. Len(terms[w]) /\ k \in Word /\ Len(terms[w]) \in Nat
      /\ DOMAIN docScores = Worker /\ at \in [Worker -> Nat \ {0}]
  <2>1. TypeOK /\ Types
    BY DEF IInv
  <2>2. DOMAIN docScores = Worker /\ at \in [Worker -> Nat \ {0}]
    BY <2>1 DEF TypeOK
  <2> QED
    BY <1>1, <2>1, <2>2, QueryType
<1>3. \A d \in DOMAIN current : current[d] = declared[d][k]
  BY <1>2, LastFreqsDeclared
<1>4. ASSUME NEW d \in DOMAIN next
      PROVE  next[d] = Sums(declared[d], terms[w])[at[w]]
  <2> DEFINE sum == Sums(declared[d], terms[w])
  <2>1. sum[0] = 0 /\ sum[at[w]] = sum[at[w] - 1] + declared[d][k]
    BY <1>2, SumsRecursion
  <2> HIDE DEF sum, current
  <2>2. ASSUME at[w] = 1
        PROVE  next[d] = sum[at[w]]
    <3>1. d \in DOMAIN current /\ next[d] = current[d]
      BY <1>4, <2>2
    <3>2. Has(k, d)
      BY <3>1 DEF current, LastFreqs, Has
    <3>3. declared[d][k] \in Nat
      <4>1. PICK i \in DOMAIN termInvertedIndex[k] : termInvertedIndex[k][i].doc = d
        BY <3>2 DEF Has
      <4>2. declared[d][k] = termInvertedIndex[k][i].freq
        BY <1>2, <4>1 DEF IInv, PostingsFaithful
      <4>3. termInvertedIndex[k][i].freq \in Nat
        BY <1>2, <4>1, IndexType DEF IInv
      <4> QED
        BY <4>2, <4>3
    <3> QED
      BY <1>3, <2>1, <2>2, <3>1, <3>3
  <2>3. ASSUME at[w] # 1
        PROVE  next[d] = sum[at[w]]
    <3>1. /\ d \in DOMAIN docScores[w] /\ d \in DOMAIN current
          /\ next[d] = docScores[w][d] + current[d]
      BY <1>4, <2>3 DEF Intersect
    <3>2. docScores[w][d] = sum[at[w] - 1]
      BY <1>1, <3>1 DEF ScoresSoFar, sum
    <3> QED
      BY <1>3, <2>1, <3>1, <3>2
  <2> QED
    BY <2>2, <2>3 DEF sum
<1> HIDE DEF next
<1>5. /\ docScores'[w] = next
      /\ at'[w] = IF DOMAIN next = {} THEN Len(terms[w]) + 1 ELSE at[w] + 1
      /\ \A v \in Worker \ {w} : docScores'[v] = docScores[v] /\ at'[v] = at[v]
  BY <1>1, <1>2
<1> SUFFICES ASSUME NEW v \in Worker, pc'[v] = "lookup"
             PROVE  /\ at'[v] <= Len(terms'[v]) + 1
                    /\ at'[v] = 1 => DOMAIN docScores'[v] = {}
                    /\ \A d \in DOMAIN docScores'[v] :
                         docScores'[v][d] = Sums(declared'[d], terms'[v])[at'[v] - 1]
  BY DEF ScoresSoFar, Sums
<1>6. CASE v = w
  <2>1. at'[w] <= Len(terms[w]) + 1 /\ (at'[w] = 1 => DOMAIN next = {})
    BY <1>2, <1>5
  <2>2. ASSUME NEW d \in DOMAIN next
        PROVE  next[d] = Sums(declared[d], terms[w])[at'[w] - 1]
    <3>1. at'[w] - 1 = at[w]
      BY <1>2, <1>5, <2>2
    <3> QED
      BY <1>4, <3>1
  <2> QED
    BY <1>1, <1>5, <1>6, <2>1, <2>2
<1>7. CASE v # w
  BY <1>1, <1>5, <1>7 DEF ScoresSoFar
<1> QED
  BY <1>6, <1>7

LEMMA NextScores == IInv /\ ScoresSoFar /\ [Next]_vars => ScoresSoFar'
<1> SUFFICES ASSUME IInv, ScoresSoFar, [Next]_vars PROVE ScoresSoFar'
  OBVIOUS
<1> USE DEF history, store, indexing, searching
<1>1. ASSUME UNCHANGED <<at, terms, docScores, declared>>,
             \A v \in Worker : pc'[v] = "lookup" => pc[v] = "lookup"
      PROVE  ScoresSoFar'
  BY <1>1, ScoresKept
<1>2. pc \in [Worker -> {"receive", "put", "update", "lookup"}]
  BY DEF IInv, TypeOK
<1>3. ASSUME NEW w \in Worker, ReceiveIndex(w) PROVE ScoresSoFar'
  BY <1>1, <1>2, <1>3 DEF ReceiveIndex
<1>4. ASSUME NEW w \in Worker, ReceiveSearch(w) PROVE ScoresSoFar'
  <2>1. PICK q \in Query : terms' = [terms EXCEPT ![w] = q]
    BY <1>4 DEF ReceiveSearch
  <2>2. /\ pc[w] = "receive" /\ pc' = [pc EXCEPT ![w] = "lookup"]
        /\ UNCHANGED <<at, docScores, declared>>
    BY <1>4 DEF ReceiveSearch
  <2>3. Len(q) \in Nat
    BY QueryAssumption
  <2>4. /\ terms'[w] = q /\ at[w] = 1 /\ DOMAIN docScores[w] = {}
        /\ \A v \in Worker \ {w} : terms'[v] = terms[v] /\ pc'[v] = pc[v]
    BY <1>2, <2>1, <2>2 DEF IInv, TypeOK, Types
  <2> QED
    BY <2>2, <2>3, <2>4, ScoresKept
<1>5. ASSUME NEW w \in Worker, Put(w) PROVE ScoresSoFar'
  <2>1. /\ declared' = Append(declared, CountsOf(w)) /\ UNCHANGED <<at, terms, docScores>>
        /\ pc' = [pc EXCEPT ![w] = "update"]
    BY <1>5 DEF Put
  <2>2. \A d \in Doc : declared'[d] = declared[d]
    <3>1. declared \in Seq(Counts) /\ Len(declared) = Len(documents) /\ documents \in Seq(Path)
      BY DEF IInv, TypeOK, Types
    <3>2. CountsOf(w) \in Counts \union {CountsOf(w)} /\ declared \in Seq(Counts \union {CountsOf(w)})
      BY <3>1
    <3>3. \A d \in 1 .. Len(declared) : declared'[d] = declared[d]
      BY <2>1, <3>2, AppendProperties
    <3> QED
      BY <3>1, <3>3, LenProperties DEF Doc
  <2> QED
    BY <1>2, <2>1, <2>2, ScoresKept
<1>6. ASSUME NEW w \in Worker, NEW u \in DOMAIN slices[w], Update(w, u) PROVE ScoresSoFar'
  BY <1>1, <1>6 DEF Update
<1>7. ASSUME NEW w \in Worker, ReplyIndex(w) PROVE ScoresSoFar'
  BY <1>1, <1>2, <1>7 DEF ReplyIndex
<1>8. ASSUME NEW w \in Worker, LookupTerm(w) PROVE ScoresSoFar'
  BY <1>8, LookupTermScores
<1>9. ASSUME NEW w \in Worker, ReplySearch(w) PROVE ScoresSoFar'
  <2>1. /\ at' = [at EXCEPT ![w] = 1] /\ terms' = [terms EXCEPT ![w] = <<>>]
        /\ docScores' = [docScores EXCEPT ![w] = NoScores] /\ UNCHANGED declared
        /\ pc' = [pc EXCEPT ![w] = "receive"]
    BY <1>9 DEF ReplySearch
  <2>2. \A v \in Worker \ {w} : /\ at'[v] = at[v] /\ terms'[v] = terms[v] /\ pc'[v] = pc[v]
                                /\ docScores'[v] = docScores[v]
    BY <1>2, <2>1 DEF IInv, TypeOK
  <2>3. pc'[w] = "receive"
    BY <1>2, <2>1
  <2> QED
    BY <2>1, <2>2, <2>3, ScoresKept
<1>10. CASE UNCHANGED vars
  BY <1>1, <1>10 DEF vars
<1> QED
  BY <1>3, <1>4, <1>5, <1>6, <1>7, <1>8, <1>9, <1>10 DEF Next, Serve

LEMMA InitScores == Init => ScoresSoFar
BY DEF Init, ScoresSoFar

\* A score is the sum of the counts the document was sent with, for all the terms, even
\* while the document is still being indexed (ServerProcessingEngine.cpp:150-176).
THEOREM Exact == Spec => []ScoresExact
<1>1. IInv /\ ScoresSoFar => ScoresExact
  <2> SUFFICES ASSUME IInv, ScoresSoFar, NEW w \in Worker, pc[w] = "lookup",
                      at[w] > Len(terms[w]), NEW d \in DOMAIN docScores[w]
               PROVE  Matches(d, terms[w]) /\ docScores[w][d] = Combined(d, terms[w])
    BY DEF ScoresExact
  <2>1. /\ Len(terms[w]) \in Nat /\ at[w] \in Nat /\ at[w] - 1 = Len(terms[w])
        /\ DOMAIN terms[w] = 1 .. Len(terms[w])
        /\ \A i \in DOMAIN terms[w] : terms[w][i] \in Word
    <3>1. TypeOK /\ Types
      BY DEF IInv
    <3>2. at[w] \in Nat /\ at[w] <= Len(terms[w]) + 1
      BY <3>1 DEF TypeOK, ScoresSoFar
    <3> QED
      BY <3>1, <3>2, QueryType
  <2>2. docScores[w][d] = Combined(d, terms[w])
    BY <2>1 DEF ScoresSoFar, Combined, Sums
  <2>3. \A i \in DOMAIN terms[w] : Has(terms[w][i], d)
    BY <2>1 DEF IInv, SearchBacked
  <2>4. Matches(d, terms[w])
    BY <2>1, <2>3 DEF Matches, Has, IInv, PostingsFaithful
  <2> QED
    BY <2>2, <2>4
<1> QED
  BY <1>1, InitScores, NextScores, Invariance, PTL DEF Spec

\* A sequence that has every element of a finite set once.
LEMMA OrderIsBijection ==
  ASSUME NEW S, IsFiniteSet(S), NEW s \in Orders(S)
  PROVE  /\ Cardinality(S) \in Nat
         /\ s \in [1 .. Cardinality(S) -> S] /\ Len(s) = Cardinality(S)
         /\ \A i, j \in 1 .. Cardinality(S) : s[i] = s[j] => i = j
         /\ \A x \in S : \E i \in 1 .. Cardinality(S) : s[i] = x
<1> DEFINE n == Cardinality(S)
<1>1. n \in Nat
  BY FS_CardinalityType
<1>2. s \in [1 .. n -> S] /\ \A i, j \in 1 .. n : s[i] = s[j] => i = j
  BY DEF Orders
<1>3. Len(s) = n
  BY <1>1, <1>2
<1>4. s \in Injection(1 .. n, S)
  BY <1>2 DEF Injection, IsInjective
<1>5. IsFiniteSet(1 .. n) /\ Cardinality(1 .. n) = n
  BY <1>1, FS_Interval
<1>6. s \in Surjection(1 .. n, S)
  BY <1>4, <1>5, FS_Injection
<1> QED
  BY <1>1, <1>2, <1>3, <1>6 DEF Surjection

\* A set that a function numbers injectively has as many elements as its domain.
LEMMA ImageCardinality ==
  ASSUME NEW S, IsFiniteSet(S), NEW f, NEW T,
         f \in [S -> T], \A x, y \in S : f[x] = f[y] => x = y, \A y \in T : \E x \in S : f[x] = y
  PROVE  IsFiniteSet(T) /\ Cardinality(T) = Cardinality(S)
<1>1. f \in Bijection(S, T)
  BY DEF Bijection, Injection, Surjection, IsInjective
<1>2. ExistsBijection(S, T)
  BY <1>1 DEF ExistsBijection
<1> QED
  BY <1>2, FS_Bijection

\* What a search replies: the best of what it found, in order.
LEMMA ReplyRanks ==
  ASSUME IInv, DOMAIN reply = Worker, NEW w \in Worker, ReplySearch(w)
  PROVE  RanksFound(w)
<1> DEFINE D == DOMAIN docScores[w]
           Result(d) == DocResult(d, docScores[w][d])
           S == {Result(d) : d \in D}
           hits == reply'[w].hits
           listed == {hits[i].doc : i \in DOMAIN hits}
<1>1. PICK s \in Orders(S) :
        /\ Sorted(s)
        /\ LET n == IF Len(s) > resultLimit THEN resultLimit ELSE Len(s)
           IN  reply' = [reply EXCEPT ![w] = [totalHits |-> Len(s), hits |-> SubSeq(s, 1, n)]]
  BY DEF ReplySearch
<1>2. D \subseteq Doc /\ Doc = 1 .. Len(documents) /\ Len(documents) \in Nat
  <2>1. D \subseteq Doc
    BY DEF IInv, SearchBacked
  <2>2. documents \in Seq(Path)
    BY DEF IInv, TypeOK
  <2> QED
    BY <2>1, <2>2, LenProperties DEF Doc
<1>3. IsFiniteSet(D)
  <2>1. IsFiniteSet(1 .. Len(documents))
    BY <1>2, FS_Interval
  <2> QED
    BY <1>2, <2>1, FS_Subset
<1>4. \A d \in D : Result(d).doc = d /\ Result(d).path = documents[d]
  BY <1>2 DEF DocResult, GetDocument
<1> HIDE DEF D, Result
<1>5. IsFiniteSet(S) /\ Cardinality(S) = Cardinality(D)
  <2> DEFINE f == [d \in D |-> Result(d)]
  <2>1. f \in [D -> S]
    OBVIOUS
  <2>2. \A x, y \in D : f[x] = f[y] => x = y
    BY <1>4
  <2>3. \A y \in S : \E x \in D : f[x] = y
    OBVIOUS
  <2> HIDE DEF f, S
  <2> QED
    BY <1>3, <2>1, <2>2, <2>3, ImageCardinality
<1>6. /\ \A d \in D : Result(d) \in S
      /\ \A r \in S : r.doc \in D /\ r = Result(r.doc) /\ r.path = documents[r.doc]
  BY <1>4
<1> DEFINE N == Cardinality(S)
           n == IF N > resultLimit THEN resultLimit ELSE N
<1> HIDE DEF S
<1>7. /\ N \in Nat /\ s \in [1 .. N -> S] /\ Len(s) = N
      /\ \A i, j \in 1 .. N : s[i] = s[j] => i = j
      /\ \A x \in S : \E i \in 1 .. N : s[i] = x
  BY <1>5, OrderIsBijection
<1>8. n \in 0 .. N /\ n \in Nat
  BY <1>7, LimitAssumption
<1>9. reply'[w].totalHits = N /\ reply'[w].hits = SubSeq(s, 1, n)
  BY <1>1, <1>7
<1> HIDE DEF N, n
<1>10. /\ Len(hits) = n /\ DOMAIN hits = 1 .. n
       /\ \A i \in 1 .. n : hits[i] = s[i] /\ hits[i] \in S /\ i \in 1 .. N
  <2>1. \A i \in 1 .. n : s[i] \in S /\ i \in 1 .. N
    BY <1>7, <1>8
  <2>2. hits = SubSeq(s, 1, n)
    BY <1>9
  <2> HIDE DEF hits
  <2>3. /\ hits \in Seq(S) /\ Len(hits) = n
        /\ \A i \in 1 .. n : hits[i] = s[i]
    BY <1>8, <2>1, <2>2, SubSeqProperties
  <2> QED
    BY <1>8, <2>1, <2>3, LenProperties
<1>11. reply'[w].totalHits = Cardinality(D)
  BY <1>5, <1>9 DEF N
<1> HIDE DEF hits
<1>12. /\ \A i \in 1 .. n : hits[i].doc \in listed
       /\ \A d \in listed : \E i \in 1 .. n : hits[i].doc = d
       /\ listed \subseteq D
  BY <1>6, <1>10
<1> HIDE DEF listed
<1>13. Cardinality(listed) = n
  <2> DEFINE I == 1 .. n
             f == [i \in I |-> hits[i].doc]
  <2>1. \A i, j \in I : f[i] = f[j] => i = j
    BY <1>6, <1>7, <1>10
  <2>2. f \in [I -> listed] /\ \A y \in listed : \E i \in I : f[i] = y
    BY <1>12
  <2>3. IsFiniteSet(I) /\ Cardinality(I) = n
    BY <1>8, FS_Interval
  <2> HIDE DEF f, I
  <2> QED
    BY <2>1, <2>2, <2>3, ImageCardinality
<1>14. ASSUME NEW d \in D, d \notin listed
       PROVE  \E j \in 1 .. N : j > n /\ s[j] = Result(d)
  <2>1. PICK j \in 1 .. N : s[j] = Result(d)
    BY <1>6, <1>7
  <2>2. ASSUME j \in 1 .. n PROVE FALSE
    <3>1. hits[j] = Result(d)
      BY <1>10, <2>1, <2>2
    <3>2. hits[j].doc = d
      BY <1>4, <3>1
    <3> QED
      BY <1>12, <1>14, <2>2, <3>2
  <2> QED
    BY <1>8, <2>1, <2>2
<1>15. listed # D => Len(hits) = resultLimit
  <2> SUFFICES ASSUME n # resultLimit PROVE D \subseteq listed
    BY <1>10, <1>12
  <2>1. n = N
    BY DEF n
  <2> QED
    BY <1>7, <1>14, <2>1
<1>16. \A i \in DOMAIN hits : hits[i] = Result(hits[i].doc)
  BY <1>6, <1>10
<1>17. ASSUME NEW d \in D \ listed, NEW i \in DOMAIN hits
       PROVE  ~Before(Result(d), hits[i])
  <2>1. PICK j \in 1 .. N : j > n /\ s[j] = Result(d)
    BY <1>14
  <2>2. i \in 1 .. N /\ i < j /\ hits[i] = s[i] /\ DOMAIN s = 1 .. N
    BY <1>7, <1>8, <1>10, <2>1
  <2> QED
    BY <1>1, <2>1, <2>2 DEF Sorted
<1>18. Len(hits) = Cardinality(listed)
  BY <1>10, <1>13
<1>19. ASSUME NEW i \in DOMAIN hits, NEW j \in DOMAIN hits, i < j
       PROVE  ~Before(hits[j], hits[i])
  <2>1. /\ i \in 1 .. N /\ j \in 1 .. N /\ hits[i] = s[i] /\ hits[j] = s[j]
        /\ DOMAIN s = 1 .. N
    BY <1>7, <1>10
  <2> QED
    BY <1>1, <1>19, <2>1 DEF Sorted
<1> QED
  BY <1>11, <1>12, <1>15, <1>16, <1>17, <1>18, <1>19 DEF D, Result, listed, hits, RanksFound

LEMMA ReplyDomain == DOMAIN reply = Worker /\ [Next]_vars => DOMAIN reply' = Worker
<1> SUFFICES ASSUME DOMAIN reply = Worker, [Next]_vars
             PROVE  DOMAIN reply' = Worker
  OBVIOUS
<1>1. ASSUME NEW w \in Worker,
             ReceiveIndex(w) \/ ReceiveSearch(w) \/ Put(w)
             \/ (\E u \in DOMAIN slices[w] : Update(w, u)) \/ ReplyIndex(w)
      PROVE  reply' = reply
  BY <1>1 DEF searching, ReceiveIndex, ReceiveSearch, Put, Update, ReplyIndex
<1>2. ASSUME NEW w \in Worker, LookupTerm(w) \/ ReplySearch(w)
      PROVE  DOMAIN reply' = Worker
  BY <1>2 DEF LookupTerm, ReplySearch
<1> QED
  BY <1>1, <1>2 DEF Next, Serve, vars, searching

\* A search is over when its worker has replied.
LEMMA OnlyReplyEnds ==
  ASSUME IInv, [Next]_vars, NEW w \in Worker, pc[w] = "lookup", pc'[w] = "receive"
  PROVE  ReplySearch(w)
<1>1. pc \in [Worker -> {"receive", "put", "update", "lookup"}]
  BY DEF IInv, TypeOK
<1>2. ASSUME NEW v \in Worker, ReceiveIndex(v) \/ ReceiveSearch(v) PROVE FALSE
  BY <1>1, <1>2 DEF ReceiveIndex, ReceiveSearch
<1>3. ASSUME NEW v \in Worker, Put(v) \/ ReplyIndex(v) \/ LookupTerm(v) PROVE FALSE
  BY <1>1, <1>3 DEF Put, ReplyIndex, LookupTerm
<1>4. ASSUME NEW v \in Worker, NEW u, Update(v, u) PROVE FALSE
  BY <1>4 DEF Update
<1>5. ASSUME NEW v \in Worker, ReplySearch(v) PROVE v = w
  BY <1>1, <1>5 DEF ReplySearch
<1>6. ~UNCHANGED vars
  BY DEF vars
<1> QED
  BY <1>2, <1>3, <1>4, <1>5, <1>6 DEF Next, Serve

\* A reply counts every document found and lists the best of them, each once with its
\* path and score, best first: what is listed later, or left out, does not rank before it.
THEOREM Ranked == Spec => ReplyRanked
<1> DEFINE Shape == DOMAIN reply = Worker
           Ranks == \A w \in Worker : pc[w] = "lookup" /\ pc'[w] = "receive" => RanksFound(w)
<1>1. Init => Shape
  BY DEF Init
<1>2. Shape /\ [Next]_vars => Shape'
  BY ReplyDomain
<1>3. ASSUME IInv, Shape, [Next]_vars, NEW w \in Worker, pc[w] = "lookup", pc'[w] = "receive"
      PROVE  RanksFound(w)
  BY <1>3, OnlyReplyEnds, ReplyRanks
<1>4. IInv /\ Shape /\ [Next]_vars => [Ranks]_vars
  BY <1>3
<1> HIDE DEF Ranks, Shape
<1>5. ReplyRanked <=> [][Ranks]_vars
  BY DEF ReplyRanked, Ranks
<1> QED
  BY <1>1, <1>2, <1>4, <1>5, Invariance, PTL DEF Spec
=============================================================================
