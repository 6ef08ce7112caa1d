------------------------------ MODULE ZmqService ------------------------------
(***************************************************************************)
(* The ZeroMQ server's handlers of INDEX_REQUEST and SEARCH_REQUEST over   *)
(* its IndexStore, from the payload a worker receives to the reply its     *)
(* client reads.  Unlike the socket server's store, this one gives a path  *)
(* that is indexed again the number it has already.  Calls on the store    *)
(* are atomic: putDocument and getDocument hold documentMapMutex, and add  *)
(* and lookup are linearizable (InvertedIndexMap).                         *)
(***************************************************************************)
EXTENDS ZmqCodec, DocFreqList, FiniteSets, Functions

CONSTANTS Worker,
          Word,
          Requests,     \* INDEX_REQUESTs clients send: [id, path, terms]
          Query,        \* term vectors clients search for
          Dropped,      \* how many bytes a payload may be short of
          resultLimit,  \* hits a reply lists (10)
          MaxRequests   \* bound on the requests served

\* What a string can hold, and a uint32_t can count.
IsString(s) == s \in Seq(Byte) /\ Len(s) < Limit

ASSUME WordAssumption == \A k \in Word : IsString(k)

ASSUME QueryAssumption == \A q \in Query : q \in Seq(Word) /\ Len(q) < Limit

ASSUME WorkerAssumption == IsFiniteSet(Worker)

ASSUME BoundsAssumption == resultLimit \in Nat /\ MaxRequests \in Nat /\ Dropped \subseteq Nat

VARIABLES documents,          \* document number -> full path
          termInvertedIndex,  \* word -> posting list
          pc, docNum, left,   \* of the index request being served
          terms, at, docScores,  \* of the search being served
          answer,             \* the last reply to each worker's client, as it decodes it
          requests,
          asked,              \* worker -> the request as its client meant it
          sent,               \* document number -> the word counts sent for it, in turn
          acked               \* <<document, word>>: acknowledged with INDEX_REPLY

store == <<documents, termInvertedIndex>>
indexing == <<docNum, left>>
searching == <<terms, at, docScores>>
history == <<asked, sent, acked>>
vars == <<store, pc, indexing, searching, answer, requests, history>>

None == [fields |-> <<>>, whole |-> TRUE]
NoScores == [d \in {} |-> 0]

Init == /\ documents = <<>>
        /\ termInvertedIndex = [k \in Word |-> EmptyList]
        /\ pc = [w \in Worker |-> "receive"]
        /\ docNum = [w \in Worker |-> 0]
        /\ left = [w \in Worker |-> NoScores]
        /\ terms = [w \in Worker |-> <<>>]
        /\ at = [w \in Worker |-> 1]
        /\ docScores = [w \in Worker |-> NoScores]
        /\ answer = [w \in Worker |-> None]
        /\ requests = 0
        /\ asked = [w \in Worker |-> <<>>]
        /\ sent = <<>>
        /\ acked = {}

\* "client" <> id <> ":" <> path; the id is one character here.
FullPath(id, path) == <<id>> \o path

\* Both sides count words in an int.
IntMax == Limit \div 2 - 1

ASSUME RequestsAssumption ==
  \A q \in Requests :
    /\ q.id \in Byte /\ IsString(q.path) /\ IsString(FullPath(q.id, q.path))
    /\ q.terms \in Seq([term : Word, frequency : 0 .. IntMax]) /\ Len(q.terms) < Limit

DocumentPathToId(path) == {d \in DOMAIN documents : documents[d] = path}

GetDocument(d) == IF d \in DOMAIN documents THEN documents[d] ELSE <<>>

\* A message arrives whole, or short of some bytes; its type may be among them.
Arrivals(bytes) == {SubSeq(bytes, 1, Len(bytes) - n) : n \in Dropped \intersect 0 .. Len(bytes)}
Payloads(bytes) == {p \in Arrivals(bytes) : ReadMessageType(p).ok}

Serve(w) == /\ pc[w] = "receive"
            /\ requests < MaxRequests
            /\ requests' = requests + 1

\* The reply to w's client, told apart by whether its request was whole.
Send(w, r, whole) ==
  answer' = [answer EXCEPT ![w] =
               [fields |-> IF r.ok THEN r.fields ELSE <<>>, whole |-> whole]]

\* Mutant of PutDocument: the map is searched before the mutex is taken.
PutDocumentUnlocked(w, path) ==
  LET known == DocumentPathToId(path)
      n == Len(documents) + 1
  IN  IF known # {} /\ \A v \in Worker \ {w} : pc[v] = "receive"
        THEN /\ docNum' = [docNum EXCEPT ![w] = CHOOSE d \in known : TRUE]
             /\ UNCHANGED documents
        ELSE /\ docNum' = [docNum EXCEPT ![w] = n]
             /\ documents' = Append(documents, path)

\* Mutant of PutDocument: a new path gets the size before it is added.
PutDocumentStale(w, path) ==
  LET known == DocumentPathToId(path)
  IN  IF known # {}
        THEN /\ docNum' = [docNum EXCEPT ![w] = CHOOSE d \in known : TRUE]
             /\ UNCHANGED documents
        ELSE /\ docNum' = [docNum EXCEPT ![w] = Len(documents)]
             /\ documents' = Append(documents, path)

\* putDocument: the number the path has, or the next one.
PutDocument(w, path) ==
  LET known == DocumentPathToId(path)
      n == Len(documents) + 1
  IN  IF known # {}
        THEN /\ docNum' = [docNum EXCEPT ![w] = CHOOSE d \in known : TRUE]
             /\ UNCHANGED documents
        ELSE /\ docNum' = [docNum EXCEPT ![w] = n]
             /\ documents' = Append(documents, path)

Record(d, counts) == IF d > Len(sent) THEN Append(sent, <<counts>>)
                                      ELSE [sent EXCEPT ![d] = Append(@, counts)]

\* INDEX_REQUEST: decode it; put the document, or answer status 1.
ReceiveIndex(w) ==
  /\ Serve(w)
  /\ \E q \in Requests :
       LET message == EncodeIndexRequest(q.id, q.path, q.terms)
       IN  \E bytes \in Payloads(message) :
             LET r == DecodeIndexRequest(bytes)
             IN  \/ /\ r.ok
                    /\ PutDocument(w, FullPath(r.fields[2], r.fields[3]))
                    /\ left' = [left EXCEPT ![w] = WordCountsOf(r)]
                    /\ sent' = Record(docNum'[w], WordCountsOf(r))
                    /\ asked' = [asked EXCEPT ![w] = [q |-> q, whole |-> bytes = message]]
                    /\ answer' = [answer EXCEPT ![w] = None]
                    /\ pc' = [pc EXCEPT ![w] = "update"]
                 \/ /\ ~r.ok
                    /\ Send(w, DecodeIndexReply(IndexReply(1)), bytes = message)
                    /\ UNCHANGED <<documents, indexing, pc, asked, sent>>
  /\ UNCHANGED <<termInvertedIndex, searching, acked>>

\* updateIndex: one turn of its loop over the hash map, in any order.
Update(w) ==
  /\ pc[w] = "update"
  /\ \E k \in DOMAIN left[w] :
       /\ termInvertedIndex' = [termInvertedIndex EXCEPT ![k] =
                                  AddUnchecked(@, docNum[w], left[w][k])]
       /\ left' = [left EXCEPT ![w] = [j \in DOMAIN @ \ {k} |-> @[j]]]
  /\ UNCHANGED <<documents, pc, docNum, searching, answer, requests, history>>

Words(w) == {<<docNum[w], t.term>> : t \in Range(asked[w].q.terms)}

ReplyIndex(w) ==
  /\ pc[w] = "update" /\ left[w] = NoScores
  /\ Send(w, DecodeIndexReply(IndexReply(0)), asked[w].whole)
  /\ acked' = acked \union Words(w)
  /\ docNum' = [docNum EXCEPT ![w] = 0]
  /\ asked' = [asked EXCEPT ![w] = <<>>]
  /\ pc' = [pc EXCEPT ![w] = "receive"]
  /\ UNCHANGED <<store, left, searching, requests, sent>>

\* SEARCH_REQUEST: decode it; one that cannot be read is answered without hits.
ReceiveSearch(w) ==
  /\ Serve(w)
  /\ \E q \in Query : \E bytes \in Payloads(EncodeSearchRequest(q)) :
       LET r == DecodeSearchRequest(bytes)
       IN  /\ terms' = [terms EXCEPT ![w] = IF r.ok THEN TermsOf(r) ELSE <<>>]
           /\ asked' = [asked EXCEPT ![w] =
                [q |-> q, whole |-> bytes = EncodeSearchRequest(q),
                 owed |-> {d \in DOMAIN documents :
                             \A i \in DOMAIN q : <<d, q[i]>> \in acked}]]
  /\ answer' = [answer EXCEPT ![w] = None]
  /\ pc' = [pc EXCEPT ![w] = "lookup"]
  /\ UNCHANGED <<store, indexing, at, docScores, sent, acked>>

\* currentTermDocs[docId] = freq for each posting in turn: the last one counts.
LastFreqs(list) ==
  [d \in {list[i].doc : i \in DOMAIN list} |->
     list[CHOOSE i \in DOMAIN list :
            /\ list[i].doc = d
            /\ \A j \in DOMAIN list : list[j].doc = d => j <= i].freq]

\* Mutant of Intersect: the frequency of the term at hand replaces the sum.
IntersectUnsummed(scores, current) ==
  [d \in DOMAIN scores \intersect DOMAIN current |-> current[d]]

Intersect(scores, current) ==
  [d \in DOMAIN scores \intersect DOMAIN current |-> scores[d] + current[d]]

\* One turn of the loop over the terms; it ends early once nothing is left.
LookupTerm(w) ==
  /\ pc[w] = "lookup" /\ at[w] <= Len(terms[w])
  /\ LET current == LastFreqs(termInvertedIndex[terms[w][at[w]]])
         next == IF at[w] = 1 THEN current ELSE Intersect(docScores[w], current)
     IN  /\ docScores' = [docScores EXCEPT ![w] = next]
         /\ at' = [at EXCEPT ![w] = IF DOMAIN next = {} THEN Len(terms[w]) + 1 ELSE @ + 1]
  /\ UNCHANGED <<store, pc, indexing, terms, answer, requests, history>>

\* std::string's <, the bytes compared in turn.
PathBefore(s, t) ==
  \E i \in 0 .. Len(s) :
    /\ i <= Len(t) /\ SubSeq(s, 1, i) = SubSeq(t, 1, i)
    /\ i < Len(t)
    /\ i = Len(s) \/ s[i + 1] < t[i + 1]

\* Mutant of Before: the order of the paths only.
BeforeByPath(a, b) == PathBefore(a.path, b.path)

Before(a, b) == \/ a.freq > b.freq
                \/ a.freq = b.freq /\ PathBefore(a.path, b.path)

Hits(scores) == {[path |-> GetDocument(d), freq |-> scores[d]] : d \in DOMAIN scores}

Orders(S) == {s \in [1 .. Cardinality(S) -> S] :
                \A i, j \in DOMAIN s : s[i] = s[j] => i = j}

Sorted(s) == \A i, j \in DOMAIN s : i < j => ~Before(s[j], s[i])

\* Sort the hits, cut them to resultLimit, SEARCH_REPLY.
ReplySearch(w) ==
  /\ pc[w] = "lookup" /\ at[w] > Len(terms[w])
  /\ \E s \in Orders(Hits(docScores[w])) :
       /\ Sorted(s)
       /\ LET n == IF Len(s) > resultLimit THEN resultLimit ELSE Len(s)
          IN  Send(w, DecodeSearchReply(SearchReply(Len(s), SubSeq(s, 1, n))), asked[w].whole)
  /\ terms' = [terms EXCEPT ![w] = <<>>]
  /\ at' = [at EXCEPT ![w] = 1]
  /\ docScores' = [docScores EXCEPT ![w] = NoScores]
  /\ asked' = [asked EXCEPT ![w] = <<>>]
  /\ pc' = [pc EXCEPT ![w] = "receive"]
  /\ UNCHANGED <<store, indexing, requests, sent, acked>>

IndexMessages == {EncodeIndexRequest(q.id, q.path, q.terms) : q \in Requests}
SearchMessages == {EncodeSearchRequest(q) : q \in Query}

\* A message without a type gets no reply, and a REP socket that has not replied receives
\* no more: the worker's loop goes round for ever (ZmqServer has what follows from it).
Skip(w) ==
  /\ Serve(w)
  /\ \E message \in IndexMessages \union SearchMessages :
       Arrivals(message) # Payloads(message)
  /\ pc' = [pc EXCEPT ![w] = "deaf"]
  /\ UNCHANGED <<store, indexing, searching, answer, history>>

Step(w) == Update(w) \/ ReplyIndex(w) \/ LookupTerm(w) \/ ReplySearch(w)

Next == \E w \in Worker : ReceiveIndex(w) \/ ReceiveSearch(w) \/ Skip(w) \/ Step(w)

Spec == Init /\ [][Next]_vars
-----------------------------------------------------------------------------
Doc == DOMAIN documents

\* Every variable has its type; a worker that updates the index holds a number that
\* the store has given, and words it can count.
TypeOK ==
  /\ documents \in Seq(Seq(0 .. Base - 1))
  /\ termInvertedIndex \in [Word -> Seq([doc : Doc, freq : Nat])]
  /\ pc \in [Worker -> {"receive", "update", "lookup", "deaf"}]
  /\ docNum \in [Worker -> Nat]
  /\ \A w \in Worker : /\ pc[w] = "update" => docNum[w] \in Doc
                       /\ DOMAIN left[w] \subseteq Word
                       /\ at[w] \in 1 .. Len(terms[w]) + 1
                       /\ DOMAIN docScores[w] \subseteq Doc
  /\ terms \in [Worker -> Seq(Word)]
  /\ \A w \in Worker : DOMAIN answer[w] = {"fields", "whole"}
  /\ requests \in 0 .. MaxRequests
  /\ DOMAIN sent = Doc
  /\ acked \subseteq Doc \X Word

\* A path has one number, however many workers index it at once
\* (IndexStore.cpp:6-16): no hit list can name a file twice.
PathsDistinct == \A d, e \in Doc : documents[d] = documents[e] => d = e

\* What a worker acts on is what its client meant, and a payload that is short of
\* bytes is refused, never half understood: status 1, or a search without hits.
RequestsUnderstood ==
  \A w \in Worker :
    LET q == asked[w].q
    IN  /\ pc[w] = "update" =>
             /\ asked[w].whole
             /\ documents[docNum[w]] = FullPath(q.id, q.path)
             /\ \A k \in DOMAIN left[w] : [term |-> k, frequency |-> left[w][k]] \in Range(q.terms)
        /\ pc[w] = "lookup" => terms[w] = IF asked[w].whole THEN q ELSE <<>>
        /\ ~answer[w].whole =>
             answer[w].fields \in {<<INDEX_REPLY, 1>>, <<SEARCH_REPLY, 0, 0>>}
        /\ answer[w].whole => answer[w].fields # <<INDEX_REPLY, 1>>

\* The sum of a function's values: as many as the pairs <<i, n>>, n in 1 .. f[i].
Sum(f) == Cardinality(UNION {{i} \X (1 .. f[i]) : i \in DOMAIN f})

Count(counts, k) == IF k \in DOMAIN counts THEN counts[k] ELSE 0

\* All that clients have sent for word k of document d, what workers have still to
\* add of it, and what the postings hold.
Total(d, k) == Sum([i \in DOMAIN sent[d] |-> Count(sent[d][i], k)])
Pending(d, k) == Sum([w \in Worker |-> IF docNum[w] = d THEN Count(left[w], k) ELSE 0])
Posted(d, k) == LET list == termInvertedIndex[k]
                IN  Sum([i \in DOMAIN list |-> IF list[i].doc = d THEN list[i].freq ELSE 0])

\* The index loses no count, though one document's postings come from many requests
\* and are merged only when nothing was added in between (DocFreqList.cpp:87-95).
CountsKept == \A d \in Doc, k \in Word : Posted(d, k) + Pending(d, k) = Total(d, k)

Combined(d, q) == Sum([i \in DOMAIN q |-> Total(d, q[i])])

\* A search finds every document whose words were acknowledged before it began.  A
\* score never exceeds all that was sent for the document, and is exactly that for
\* one that was indexed once.
SearchSound ==
  \A w \in Worker : pc[w] = "lookup" /\ at[w] > 1 =>
    /\ asked[w].owed \subseteq DOMAIN docScores[w]
    /\ at[w] > Len(terms[w]) =>
         \A d \in DOMAIN docScores[w] :
           /\ docScores[w][d] <= Combined(d, terms[w])
           /\ Len(sent[d]) = 1 => docScores[w][d] = Combined(d, terms[w])

\* The client reads the number of documents found and the best of them, each once,
\* best first: nothing left out ranks before anything listed.
RepliesRanked ==
  [][\A w \in Worker : pc[w] = "lookup" /\ pc'[w] = "receive" =>
       LET f == answer'[w].fields
           hits == [i \in 1 .. f[3] |-> [path |-> f[2 * i + 2], freq |-> f[2 * i + 3]]]
           found == Hits(docScores[w])
       IN  /\ f[1] = SEARCH_REPLY
           /\ f[2] = Cardinality(DOMAIN docScores[w])
           /\ f[3] = IF f[2] > resultLimit THEN resultLimit ELSE f[2]
           /\ Range(hits) \subseteq found
           /\ \A i \in DOMAIN hits : \A h \in found \ {hits[j] : j \in 1 .. i} :
                \/ hits[i].freq > h.freq
                \/ hits[i].freq = h.freq /\ PathBefore(hits[i].path, h.path)]_vars

\* README.md:66 has results "ranked by combined word frequency".  The frequency of a
\* word in a document would then be what was sent for it, all of it or the last time.
FrequencyMeaningful ==
  (\A w \in Worker : pc[w] # "update") =>
    \A k \in Word : LET freqs == LastFreqs(termInvertedIndex[k])
                    IN  \A d \in DOMAIN freqs :
                          freqs[d] \in {Total(d, k), Count(sent[d][Len(sent[d])], k)}
=============================================================================
