----------------------------- MODULE IndexStore -----------------------------
(***************************************************************************)
(* IndexStore.cpp of the socket server: the document table, guarded by     *)
(* documentMapMutex, and the inverted index.  Each operator below is one   *)
(* call on the store and takes effect at one instant: the document calls   *)
(* hold their mutex throughout, and InvertedIndexMap is linearizable.      *)
(***************************************************************************)
EXTENDS DocFreqList, FiniteSets, Integers

CONSTANTS Word,
          parallelFrom,  \* updateIndex uses threads from this many terms (1000)
          numThreads     \* and then this many threads (8)

ASSUME ThreadsAssumption == parallelFrom \in Nat /\ numThreads \in Nat \ {0}

VARIABLES documents,         \* document number -> path; paths are numbered in
                             \* their string order, 0 being the empty string
          termInvertedIndex  \* word -> posting list

EmptyPath == 0

StoreInit == /\ documents = <<>>
             /\ termInvertedIndex = [k \in Word |-> EmptyList]

\* The number putDocument returns: the size once the document is added.
NextDocument == Len(documents) + 1

PutDocument(path) == documents' = Append(documents, path)

GetDocument(n) == IF n < 1 \/ n > Len(documents) THEN EmptyPath ELSE documents[n]

\* The add that updateIndex makes for one term of a document.
AddTerm(doc, word, amount) ==
  termInvertedIndex' =
    [termInvertedIndex EXCEPT ![word] = AddUnchecked(@, doc, amount)]

LookupIndex(word) == termInvertedIndex[word]

\* Mutant of Chunk: rounded down.
ChunkFloor(total) == total \div numThreads

Chunk(total) == (total + numThreads - 1) \div numThreads

\* Mutant of Slices: the last slice is not cut at the end of the vector.
SlicesUnclamped(total) ==
  IF total < parallelFrom
    THEN [u \in {0} |-> [next |-> 0, end |-> total]]
    ELSE [u \in 0 .. numThreads - 1 |->
            [next |-> u * Chunk(total), end |-> u * Chunk(total) + Chunk(total)]]

\* updateIndex: the slices of the item vector, one loop each.  A few items are
\* one slice, run by the caller; many are cut for numThreads threads.
Slices(total) ==
  IF total < parallelFrom
    THEN [u \in {0} |-> [next |-> 0, end |-> total]]
    ELSE [u \in 0 .. numThreads - 1 |->
            [next |-> u * Chunk(total),
             end |-> IF u * Chunk(total) + Chunk(total) < total
                       THEN u * Chunk(total) + Chunk(total) ELSE total]]
=============================================================================
