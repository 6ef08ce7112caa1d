---------------------------- MODULE SearchService ----------------------------
(***************************************************************************)
(* The socket server's request handlers: INDEX_REQUEST and SEARCH_REQUEST  *)
(* in ServerProcessingEngine::runWorker, over one shared IndexStore.       *)
(* Every worker serves one client, one request at a time, and forgets its  *)
(* local variables between two; the workers interleave between any two     *)
(* calls on the store.  declared, acked, shown and promised are history    *)
(* variables: they record what clients were told.                          *)
(***************************************************************************)
EXTENDS IndexStore

CONSTANTS Worker,
          Path,         \* full paths "client<id>:<path>", as numbers from 1
          WordCounts,   \* word counts a client may send: Word -> count, partial
          Query,        \* term vectors a client may search for
          resultLimit,  \* hits a reply lists (10)
          MaxRequests   \* bound on the requests served

ASSUME CountsAssumption ==
  \A counts \in WordCounts : /\ DOMAIN counts \subseteq Word /\ IsFiniteSet(DOMAIN counts)
                              /\ counts \in [DOMAIN counts -> Nat]

ASSUME QueryAssumption == Query \subseteq Seq(Word)

ASSUME LimitAssumption == resultLimit \in Nat

VARIABLES pc,
          path, items, docNum, slices,   \* of the index request being served
          terms, at, docScores, reply,   \* of the search being served
          requests,
          declared,  \* document number -> the word counts it was sent with
          acked,     \* documents whose INDEX_REPLY has been sent
          shown,     \* <<terms, document>> listed in a SEARCH_REPLY
          promised   \* worker -> documents its search has to find

store == <<documents, termInvertedIndex>>
indexing == <<path, items, docNum, slices>>
searching == <<terms, at, docScores, reply>>
history == <<declared, acked, shown, promised>>
vars == <<store, pc, indexing, searching, requests, history>>

NoReply == [totalHits |-> 0, hits |-> <<>>]
NoScores == [d \in {} |-> 0]

Init == /\ StoreInit
        /\ pc = [w \in Worker |-> "receive"]
        /\ path = [w \in Worker |-> EmptyPath]
        /\ items = [w \in Worker |-> <<>>]
        /\ docNum = [w \in Worker |-> 0]
        /\ slices = [w \in Worker |-> Slices(0)]
        /\ terms = [w \in Worker |-> <<>>]
        /\ at = [w \in Worker |-> 1]
        /\ docScores = [w \in Worker |-> NoScores]
        /\ reply = [w \in Worker |-> NoReply]
        /\ requests = 0
        /\ declared = <<>>
        /\ acked = {}
        /\ shown = {}
        /\ promised = [w \in Worker |-> {}]

Orders(S) == {s \in [1 .. Cardinality(S) -> S] :
                \A i, j \in DOMAIN s : s[i] = s[j] => i = j}

\* INDEX_REQUEST read; items is the hash map copied into a vector, in any order.
ReceiveIndex(w) ==
  /\ pc[w] = "receive"
  /\ requests < MaxRequests
  /\ requests' = requests + 1
  /\ \E p \in Path, counts \in WordCounts : \E order \in Orders(DOMAIN counts) :
       /\ path' = [path EXCEPT ![w] = p]
       /\ items' = [items EXCEPT ![w] =
                      [i \in DOMAIN order |-> [word |-> order[i],
                                               count |-> counts[order[i]]]]]
  /\ pc' = [pc EXCEPT ![w] = "put"]
  /\ UNCHANGED <<store, docNum, slices, searching, history>>

CountsOf(w) == [k \in {items[w][i].word : i \in DOMAIN items[w]} |->
                  items[w][CHOOSE i \in DOMAIN items[w] : items[w][i].word = k].count]

\* Mutant of Put: a path seen before keeps its number, as in the ZeroMQ store.
PutDeduplicates(w) ==
  LET known == {d \in DOMAIN documents : documents[d] = path[w]}
  IN  /\ pc[w] = "put"
      /\ documents' = IF known = {} THEN Append(documents, path[w]) ELSE documents
      /\ declared' = IF known = {} THEN Append(declared, CountsOf(w)) ELSE declared
      /\ docNum' = [docNum EXCEPT ![w] = IF known = {} THEN NextDocument
                                          ELSE CHOOSE d \in known : TRUE]
      /\ slices' = [slices EXCEPT ![w] = Slices(Len(items[w]))]
      /\ pc' = [pc EXCEPT ![w] = "update"]
      /\ UNCHANGED <<termInvertedIndex, path, items, searching, requests,
                     acked, shown, promised>>

Put(w) == /\ pc[w] = "put"
          /\ PutDocument(path[w])
          /\ docNum' = [docNum EXCEPT ![w] = NextDocument]
          /\ slices' = [slices EXCEPT ![w] = Slices(Len(items[w]))]
          /\ declared' = Append(declared, CountsOf(w))
          /\ pc' = [pc EXCEPT ![w] = "update"]
          /\ UNCHANGED <<termInvertedIndex, path, items, searching, requests,
                         acked, shown, promised>>

\* One turn of the loop of updateIndex's thread u.
Update(w, u) ==
  /\ pc[w] = "update"
  /\ u \in DOMAIN slices[w]
  /\ slices[w][u].next < slices[w][u].end
  /\ LET item == items[w][slices[w][u].next + 1]
     IN  AddTerm(docNum[w], item.word, item.count)
  /\ slices' = [slices EXCEPT ![w][u] = [next |-> @.next + 1, end |-> @.end]]
  /\ UNCHANGED <<documents, pc, path, items, docNum, searching, requests, history>>

\* Mutant of ReplyIndex: the reply leaves before the threads are joined.
ReplyIndexEarly(w) ==
  /\ pc[w] = "update"
  /\ acked' = acked \union {docNum[w]}
  /\ UNCHANGED <<store, pc, indexing, searching, requests, declared, shown, promised>>

\* Every thread is joined, INDEX_REPLY goes out.
ReplyIndex(w) ==
  /\ pc[w] = "update"
  /\ \A u \in DOMAIN slices[w] : slices[w][u].next >= slices[w][u].end
  /\ acked' = acked \union {docNum[w]}
  /\ path' = [path EXCEPT ![w] = EmptyPath]
  /\ items' = [items EXCEPT ![w] = <<>>]
  /\ docNum' = [docNum EXCEPT ![w] = 0]
  /\ slices' = [slices EXCEPT ![w] = Slices(0)]
  /\ pc' = [pc EXCEPT ![w] = "receive"]
  /\ UNCHANGED <<store, searching, requests, declared, shown, promised>>

Matches(d, q) == \A i \in DOMAIN q : q[i] \in DOMAIN declared[d]

\* SEARCH_REQUEST read.  From here the search owes its client every matching
\* document already acknowledged, or already listed for the same terms.
ReceiveSearch(w) ==
  /\ pc[w] = "receive"
  /\ requests < MaxRequests
  /\ requests' = requests + 1
  /\ \E q \in Query :
       /\ terms' = [terms EXCEPT ![w] = q]
       /\ promised' = [promised EXCEPT ![w] =
                         {d \in acked : Matches(d, q)}
                           \union {d \in DOMAIN documents : <<q, d>> \in shown}]
  /\ pc' = [pc EXCEPT ![w] = "lookup"]
  /\ UNCHANGED <<store, indexing, at, docScores, reply, declared, acked, shown>>

\* currentTermDocs[docId] = freq for each posting in turn: the last one wins.
LastFreqs(list) ==
  [d \in {list[i].doc : i \in DOMAIN list} |->
     list[CHOOSE i \in DOMAIN list :
            /\ list[i].doc = d
            /\ \A j \in DOMAIN list : list[j].doc = d => j <= i].freq]

\* Mutant of Intersect: the frequencies of the first term are kept.
IntersectUnsummed(scores, current) ==
  [d \in DOMAIN scores \intersect DOMAIN current |-> scores[d]]

\* The documents found so far, restricted to those of the next term.
Intersect(scores, current) ==
  [d \in DOMAIN scores \intersect DOMAIN current |-> scores[d] + current[d]]

\* Mutant of LookupTerm: without a match the loop does not move on.
LookupTermStuck(w) ==
  /\ pc[w] = "lookup"
  /\ at[w] <= Len(terms[w])
  /\ LET current == LastFreqs(LookupIndex(terms[w][at[w]]))
         next == IF at[w] = 1 THEN current ELSE Intersect(docScores[w], current)
     IN  /\ DOMAIN next # {}
         /\ docScores' = [docScores EXCEPT ![w] = next]
         /\ at' = [at EXCEPT ![w] = @ + 1]
  /\ UNCHANGED <<store, pc, indexing, terms, reply, requests, history>>

\* One turn of the loop over the terms; it ends early once nothing is left.
LookupTerm(w) ==
  /\ pc[w] = "lookup"
  /\ at[w] <= Len(terms[w])
  /\ LET current == LastFreqs(LookupIndex(terms[w][at[w]]))
         next == IF at[w] = 1 THEN current ELSE Intersect(docScores[w], current)
     IN  /\ docScores' = [docScores EXCEPT ![w] = next]
         /\ at' = [at EXCEPT ![w] = IF DOMAIN next = {}
                                      THEN Len(terms[w]) + 1 ELSE @ + 1]
  /\ UNCHANGED <<store, pc, indexing, terms, reply, requests, history>>

DocResult(d, freq) == [doc |-> d, freq |-> freq, path |-> GetDocument(d)]

\* The comparison given to std::sort: more occurrences first, then by path.
Before(a, b) == \/ a.freq > b.freq
                \/ a.freq = b.freq /\ a.path < b.path

\* Mutant of Sorted: paths in order, frequencies ignored.
SortedByPath(s) == \A i, j \in DOMAIN s : i < j => s[i].path <= s[j].path

Sorted(s) == \A i, j \in DOMAIN s : i < j => ~Before(s[j], s[i])

\* Resolve the paths, sort, cut to resultLimit, SEARCH_REPLY goes out.  The
\* getDocument calls are one step: a document's path never changes.
ReplySearch(w) ==
  /\ pc[w] = "lookup"
  /\ at[w] > Len(terms[w])
  /\ \E s \in Orders({DocResult(d, docScores[w][d]) : d \in DOMAIN docScores[w]}) :
       /\ Sorted(s)
       /\ LET n == IF Len(s) > resultLimit THEN resultLimit ELSE Len(s)
              hits == SubSeq(s, 1, n)
          IN  /\ reply' = [reply EXCEPT ![w] = [totalHits |-> Len(s), hits |-> hits]]
              /\ shown' = shown \union {<<terms[w], hits[i].doc>> : i \in 1 .. n}
  /\ terms' = [terms EXCEPT ![w] = <<>>]
  /\ at' = [at EXCEPT ![w] = 1]
  /\ docScores' = [docScores EXCEPT ![w] = NoScores]
  /\ promised' = [promised EXCEPT ![w] = {}]
  /\ pc' = [pc EXCEPT ![w] = "receive"]
  /\ UNCHANGED <<store, indexing, requests, declared, acked>>

Serve(w) == \/ Put(w) \/ (\E u \in DOMAIN slices[w] : Update(w, u)) \/ ReplyIndex(w)
            \/ LookupTerm(w) \/ ReplySearch(w)

Next == \E w \in Worker : ReceiveIndex(w) \/ ReceiveSearch(w) \/ Serve(w)

Spec == Init /\ [][Next]_vars

\* A worker that serves a request, or one of the threads it started, takes a step.
FairSpec == Spec /\ \A w \in Worker : WF_vars(Serve(w))
-----------------------------------------------------------------------------
Doc == DOMAIN documents
Item == [word : Word, count : Nat]
Scores == UNION {[D -> Nat] : D \in SUBSET Nat}

\* Every variable has its type: no posting names a document that getDocument cannot
\* resolve (IndexStore.cpp:16-22), a worker that updates the index holds the number
\* of a document, and its loops stay inside the item vector.
TypeOK ==
  /\ documents \in Seq(Path)
  /\ termInvertedIndex \in [Word -> Seq([doc : Doc, freq : Nat])]
  /\ pc \in [Worker -> {"receive", "put", "update", "lookup"}]
  /\ path \in [Worker -> Path \union {EmptyPath}]
  /\ items \in [Worker -> Seq(Item)]
  /\ docNum \in [Worker -> Nat]
  /\ DOMAIN slices = Worker
  /\ \A w \in Worker : \A u \in DOMAIN slices[w] : slices[w][u].next \in Nat
  /\ terms \in [Worker -> Query \union {<<>>}]
  /\ at \in [Worker -> Nat \ {0}]
  /\ DOMAIN docScores = Worker
  /\ requests \in Nat
  /\ Len(declared) = Len(documents)
  /\ acked \subseteq Doc
  /\ \A w \in Worker : pc[w] = "update" =>
       /\ docNum[w] \in Doc
       /\ \A u \in DOMAIN slices[w] :
            slices[w][u].next < slices[w][u].end =>
              slices[w][u].next + 1 \in DOMAIN items[w]

\* A posting carries the count its document was sent with, and a document has
\* one posting per word: the search, which keeps the last posting of a document,
\* loses nothing (ServerProcessingEngine.cpp:160-162).
PostingsFaithful ==
  \A k \in Word : \A i, j \in DOMAIN termInvertedIndex[k] :
    LET p == termInvertedIndex[k][i]
    IN  /\ p.doc = termInvertedIndex[k][j].doc => i = j
        /\ k \in DOMAIN declared[p.doc] /\ p.freq = declared[p.doc][k]

\* INDEX_REPLY means indexed: every word of an acknowledged document is in the
\* index, however the item vector was cut among the threads.
AckedIndexed ==
  \A d \in acked : \A k \in DOMAIN declared[d] :
    \E i \in DOMAIN termInvertedIndex[k] : termInvertedIndex[k][i].doc = d

\* A search misses no document that was acknowledged before it started, nor one
\* that an earlier search for the same terms has listed, whatever the other
\* workers index meanwhile.
SearchComplete ==
  \A w \in Worker : pc[w] = "lookup" /\ at[w] > 1 =>
                      promised[w] \subseteq DOMAIN docScores[w]

\* The combined frequency of the terms q in document d.
Combined(d, q) ==
  LET sum[i \in 0 .. Len(q)] ==
        IF i = 0 THEN 0 ELSE sum[i - 1] + declared[d][q[i]]
  IN  sum[Len(q)]

\* Every document found holds all the terms, and its score is the sum of the
\* counts it was sent with, even one whose indexing is still going on.
ScoresExact ==
  \A w \in Worker : pc[w] = "lookup" /\ at[w] > Len(terms[w]) =>
    \A d \in DOMAIN docScores[w] :
      Matches(d, terms[w]) /\ docScores[w][d] = Combined(d, terms[w])

\* A reply counts every document found and lists the best of them, each once with its
\* path and score, best first: nothing listed or left out ranks before what is listed
\* above it (ServerProcessingEngine.cpp:187-225).
RanksFound(w) ==
  LET found == docScores[w]
      hits == reply'[w].hits
      listed == {hits[i].doc : i \in DOMAIN hits}
  IN  /\ reply'[w].totalHits = Cardinality(DOMAIN found)
      /\ listed \subseteq DOMAIN found
      /\ Len(hits) = Cardinality(listed)
      /\ listed # DOMAIN found => Len(hits) = resultLimit
      /\ \A i \in DOMAIN hits : hits[i] = DocResult(hits[i].doc, found[hits[i].doc])
      /\ \A i, j \in DOMAIN hits : i < j => ~Before(hits[j], hits[i])
      /\ \A d \in DOMAIN found \ listed : \A i \in DOMAIN hits :
           ~Before(DocResult(d, found[d]), hits[i])
ReplyRanked ==
  [][\A w \in Worker : pc[w] = "lookup" /\ pc'[w] = "receive" => RanksFound(w)]_vars

\* Every request is answered.
RequestsAnswered == \A w \in Worker : pc[w] # "receive" ~> pc[w] = "receive"
=============================================================================
