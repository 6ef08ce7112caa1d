-------------------------- MODULE GrpcService_proof --------------------------
(***************************************************************************)
(* For any number of clients, words, folders and queries: a document's     *)
(* owner identifies its sender, the index holds exactly what was sent, a   *)
(* handler that has returned has indexed its document, and what a search   *)
(* lists is the newest match of each path.                                 *)
(***************************************************************************)
EXTENDS GrpcService, SequenceTheorems, FiniteSetTheorems, WellFoundedInduction, TLAPS

Counts == UNION {[K -> Nat] : K \in SUBSET Word}
States == {"shell", "register", "files", "put", "update", "lookup", "dead"}

\* The word has a posting of the document.
Has(k, d) == \E i \in DOMAIN termInvertedIndex[k] : termInvertedIndex[k][i].doc = d

\* The types TypeOK leaves open.
Types ==
  /\ pc \in [Client -> States] /\ stub \in [Client -> BOOLEAN]
  /\ clientId \in [Client -> Int] /\ docNum \in [Client -> Nat]
  /\ todo \in [Client -> Seq(Found)] /\ left \in [Client -> Counts]
  /\ terms \in [Client -> Query \union {<<>>}] /\ at \in [Client -> Nat \ {0}]
  /\ DOMAIN docScores = Client
  /\ sender \in Seq(Client) /\ declared \in Seq(Counts)
  /\ nextClientId > 0
  /\ \A c \in Client : pc[c] \in {"files", "put", "update"} => todo[c] # <<>>
  /\ \A c \in Client : pc[c] # "lookup" => at[c] = 1

\* An id is given once: it is nobody else's, and no document of anybody else carries it.
Owners ==
  /\ \A c, d \in Client : clientId[c] = clientId[d] /\ clientId[c] # -1 => c = d
  /\ \A d \in Doc : documents[d].owner < nextClientId
  /\ \A d \in Doc, c \in Client :
       documents[d].owner = clientId[c] /\ clientId[c] # -1 => sender[d] = c

\* A document being indexed lacks the words left to its handler, and these only.
LeftExact ==
  \A c \in Client : pc[c] = "update" =>
    /\ docNum[c] \notin acked
    /\ \A k \in DOMAIN declared[docNum[c]] : Has(k, docNum[c]) <=> k \notin DOMAIN left[c]
    /\ \A k \in DOMAIN left[c] : left[c][k] = declared[docNum[c]][k]

\* ComputeIndex has returned: every word of its document is in the index.
AckedIndexed == \A d \in acked : \A k \in DOMAIN declared[d] : Has(k, d)

IInv == /\ TypeOK /\ Types /\ Owners /\ OwnersDistinct /\ LeftExact
        /\ PostingsFaithful /\ AckedIndexed
-----------------------------------------------------------------------------
LEMMA IndexType ==
  ASSUME TypeOK, NEW k \in Word
  PROVE  /\ termInvertedIndex[k] \in Seq([doc : Doc, freq : Nat])
         /\ Len(termInvertedIndex[k]) \in Nat
         /\ DOMAIN termInvertedIndex[k] = 1 .. Len(termInvertedIndex[k])
         /\ \A i \in DOMAIN termInvertedIndex[k] : termInvertedIndex[k][i] \in [doc : Doc, freq : Nat]
<1>1. termInvertedIndex[k] \in Seq([doc : Doc, freq : Nat])
  BY DEF TypeOK
<1>2. QED
  BY <1>1, LenProperties, ElementOfSeq

LEMMA DocType ==
  ASSUME TypeOK
  PROVE  /\ Len(documents) \in Nat /\ Doc = 1 .. Len(documents)
         /\ \A d \in Doc : documents[d] \in [owner : Int, rel : Nat]
<1>1. documents \in Seq([owner : Int, rel : Nat])
  BY DEF TypeOK
<1>2. QED
  BY <1>1, LenProperties, ElementOfSeq DEF Doc

LEMMA DeclaredType ==
  ASSUME TypeOK, Types
  PROVE  \A d \in Doc : declared[d] \in Counts
<1>1. declared \in Seq(Counts) /\ DOMAIN declared = Doc
  BY DEF TypeOK, Types
<1>2. QED
  BY <1>1, LenProperties, ElementOfSeq
-----------------------------------------------------------------------------
LEMMA ProgramStep == ASSUME IInv, Program PROVE IInv'
<1> USE DEF IInv
<1>1. UNCHANGED <<nextClientId, documents, termInvertedIndex, pc, stub,
                  clientId, todo, terms, docNum, left, at, docScores, sender,
                  declared, acked>>
  BY DEF Program, store, engine, handler, history
<1>2. /\ main' \in {"initialize", "shell", "shutdown", "join", "exited", "crashed"}
      /\ serverThread' \in {"none", "build", "assign", "wait", "done"}
      /\ server' \in BOOLEAN /\ listening' \in BOOLEAN /\ stopped' \in BOOLEAN
  <2>1. /\ main \in {"initialize", "shell", "shutdown", "join", "exited", "crashed"}
        /\ serverThread \in {"none", "build", "assign", "wait", "done"}
        /\ server \in BOOLEAN /\ listening \in BOOLEAN /\ stopped \in BOOLEAN
    BY DEF TypeOK
  <2>2. CASE Initialize \/ Crash \/ Waited \/ Join
    BY <2>1, <2>2 DEF Initialize, Crash, Waited, Join
  <2>3. CASE Build \/ Assign
    BY <2>1, <2>3 DEF Build, Assign
  <2>4. CASE Quit \/ Drain
    BY <2>1, <2>4 DEF Quit, Drain
  <2>5. QED
    BY <2>2, <2>3, <2>4 DEF Program
<1>3. TypeOK'
  BY <1>1, <1>2 DEF TypeOK, Types, Doc, States
<1>4. Types'
  BY <1>1, <1>2 DEF Types, States
<1>5. Owners'
  BY <1>1, <1>2 DEF Owners, Types, Doc
<1>6. OwnersDistinct'
  BY <1>1, <1>2 DEF OwnersDistinct, Doc
<1>7. LeftExact'
  BY <1>1, <1>2 DEF LeftExact, Has, Types
<1>8. PostingsFaithful'
  BY <1>1, <1>2 DEF PostingsFaithful
<1>9. AckedIndexed'
  BY <1>1, <1>2 DEF AckedIndexed, Has
<1>10. QED
  BY <1>3, <1>4, <1>5, <1>6, <1>7, <1>8, <1>9

LEMMA ConnectStep == ASSUME IInv, NEW c \in Client, Connect(c) PROVE IInv'
<1> USE DEF IInv
<1>1. /\ pc[c] = "shell" /\ stub' = [stub EXCEPT ![c] = TRUE]
      /\ \/ pc' = [pc EXCEPT ![c] = "register"] /\ UNCHANGED clientId
         \/ clientId' = [clientId EXCEPT ![c] = -1] /\ UNCHANGED pc
      /\ UNCHANGED <<main, serverThread, server, listening, stopped,
                     nextClientId, documents, termInvertedIndex, todo, terms,
                     docNum, left, at, docScores, sender, declared, acked>>
  BY DEF Connect, Command, Goto, program, store, handler, history
<1>2. TypeOK'
  <2>1. Doc' = Doc /\ termInvertedIndex' = termInvertedIndex /\ sender' = sender /\ declared' = declared
    BY <1>1 DEF Doc
  <2>2. ASSUME NEW d \in Client
        PROVE  /\ pc'[d] \in States /\ clientId'[d] \in -1 .. nextClientId' - 1
               /\ docNum'[d] \in Doc \union {0}
               /\ pc'[d] = "update" => /\ docNum'[d] \in Doc /\ sender[docNum'[d]] = d
                                      /\ DOMAIN left'[d] \subseteq DOMAIN declared[docNum'[d]]
               /\ at'[d] \in 1 .. Len(terms'[d]) + 1
               /\ DOMAIN docScores'[d] \subseteq Doc
               /\ pc'[d] = "dead" => ~stub'[d]
    <3>1. /\ pc[d] \in States /\ clientId[d] \in -1 .. nextClientId - 1
          /\ docNum[d] \in Doc \union {0}
          /\ pc[d] = "update" => /\ docNum[d] \in Doc /\ sender[docNum[d]] = d
                                 /\ DOMAIN left[d] \subseteq DOMAIN declared[docNum[d]]
          /\ at[d] \in 1 .. Len(terms[d]) + 1
          /\ DOMAIN docScores[d] \subseteq Doc
          /\ pc[d] = "dead" => ~stub[d]
          /\ nextClientId \in Nat /\ nextClientId > 0
      BY DEF TypeOK, Types, States
    <3>2. /\ DOMAIN pc = Client /\ DOMAIN clientId = Client /\ DOMAIN docNum = Client
          /\ DOMAIN stub = Client /\ DOMAIN at = Client /\ DOMAIN terms = Client
          /\ DOMAIN docScores = Client
      BY DEF Types
    <3> HIDE DEF IInv
    <3>3. CASE d = c
      BY <1>1, <3>1, <3>2, <3>3 DEF States
    <3>4. CASE d # c
      BY <1>1, <3>1, <3>2, <3>4 DEF States
    <3>5. QED
      BY <3>3, <3>4
  <2>3. /\ main' \in {"initialize", "shell", "shutdown", "join", "exited", "crashed"}
        /\ serverThread' \in {"none", "build", "assign", "wait", "done"}
        /\ {server, listening, stopped}' \subseteq BOOLEAN
        /\ documents' \in Seq([owner : Int, rel : Nat])
        /\ termInvertedIndex' \in [Word -> Seq([doc : Doc, freq : Nat])]
        /\ DOMAIN sender = Doc /\ DOMAIN declared = Doc
    BY <1>1 DEF TypeOK
  <2>4. nextClientId' \in Nat
    BY <1>1 DEF TypeOK
  <2>5. acked' \subseteq Doc
    BY <1>1 DEF TypeOK
  <2>6. QED
    BY <2>1, <2>2, <2>3, <2>4, <2>5 DEF TypeOK, States
<1>3. Types'
  <2>1. CASE pc' = [pc EXCEPT ![c] = "register"] /\ UNCHANGED clientId
    BY <1>1, <2>1 DEF Types, States
  <2>2. CASE clientId' = [clientId EXCEPT ![c] = -1] /\ UNCHANGED pc
    BY <1>1, <2>2 DEF Types, States
  <2>3. QED
    BY <1>1, <2>1, <2>2
<1>4. Owners'
  <2>1. \A d \in Client : clientId'[d] = clientId[d] \/ clientId'[d] = -1
    BY <1>1 DEF Types
  <2>2. QED
    BY <1>1, <2>1 DEF Owners, Doc
<1>5. OwnersDistinct'
  BY <1>1 DEF OwnersDistinct, Doc
<1>6. LeftExact'
  <2>1. \A d \in Client : pc'[d] = "update" => pc[d] = "update"
    BY <1>1 DEF Types
  <2>2. QED
    BY <1>1, <2>1 DEF LeftExact, Has
<1>7. PostingsFaithful'
  BY <1>1 DEF PostingsFaithful
<1>8. AckedIndexed'
  BY <1>1 DEF AckedIndexed, Has
<1>9. QED
  BY <1>2, <1>3, <1>4, <1>5, <1>6, <1>7, <1>8

LEMMA IndexStep == ASSUME IInv, NEW c \in Client, Index(c) PROVE IInv'
<1> USE DEF IInv
<1>1. PICK folder \in Folders, where \in {"shell", "files"} :
        /\ todo' = [todo EXCEPT ![c] = folder]
        /\ pc' = [pc EXCEPT ![c] = where]
        /\ where = "files" => folder # <<>>
  BY DEF Index, Files, Goto
<1>2. /\ pc[c] = "shell" /\ folder \in Seq(Found)
      /\ UNCHANGED <<main, serverThread, server, listening, stopped,
                     nextClientId, documents, termInvertedIndex, stub,
                     clientId, terms, docNum, left, at, docScores, sender,
                     declared, acked>>
  BY FoldersAssumption DEF Index, Command, program, store, handler, history
<1>3. TypeOK'
  <2>1. Doc' = Doc /\ termInvertedIndex' = termInvertedIndex /\ sender' = sender /\ declared' = declared
    BY <1>1, <1>2 DEF Doc
  <2>2. ASSUME NEW d \in Client
        PROVE  /\ pc'[d] \in States /\ clientId'[d] \in -1 .. nextClientId' - 1
               /\ docNum'[d] \in Doc \union {0}
               /\ pc'[d] = "update" => /\ docNum'[d] \in Doc /\ sender[docNum'[d]] = d
                                      /\ DOMAIN left'[d] \subseteq DOMAIN declared[docNum'[d]]
               /\ at'[d] \in 1 .. Len(terms'[d]) + 1
               /\ DOMAIN docScores'[d] \subseteq Doc
               /\ pc'[d] = "dead" => ~stub'[d]
    <3>1. /\ pc[d] \in States /\ clientId[d] \in -1 .. nextClientId - 1
          /\ docNum[d] \in Doc \union {0}
          /\ pc[d] = "update" => /\ docNum[d] \in Doc /\ sender[docNum[d]] = d
                                 /\ DOMAIN left[d] \subseteq DOMAIN declared[docNum[d]]
          /\ at[d] \in 1 .. Len(terms[d]) + 1
          /\ DOMAIN docScores[d] \subseteq Doc
          /\ pc[d] = "dead" => ~stub[d]
          /\ nextClientId \in Nat /\ nextClientId > 0
      BY DEF TypeOK, Types, States
    <3>2. /\ DOMAIN pc = Client /\ DOMAIN clientId = Client /\ DOMAIN docNum = Client
          /\ DOMAIN stub = Client /\ DOMAIN at = Client /\ DOMAIN terms = Client
          /\ DOMAIN docScores = Client
      BY DEF Types
    <3> HIDE DEF IInv
    <3>3. CASE d = c
      BY <1>1, <1>2, <3>1, <3>2, <3>3 DEF States
    <3>4. CASE d # c
      BY <1>1, <1>2, <3>1, <3>2, <3>4 DEF States
    <3>5. QED
      BY <3>3, <3>4
  <2>3. /\ main' \in {"initialize", "shell", "shutdown", "join", "exited", "crashed"}
        /\ serverThread' \in {"none", "build", "assign", "wait", "done"}
        /\ {server, listening, stopped}' \subseteq BOOLEAN
        /\ documents' \in Seq([owner : Int, rel : Nat])
        /\ termInvertedIndex' \in [Word -> Seq([doc : Doc, freq : Nat])]
        /\ DOMAIN sender = Doc /\ DOMAIN declared = Doc
    BY <1>1, <1>2 DEF TypeOK
  <2>4. nextClientId' \in Nat
    BY <1>1, <1>2 DEF TypeOK
  <2>5. acked' \subseteq Doc
    BY <1>1, <1>2 DEF TypeOK
  <2>6. QED
    BY <2>1, <2>2, <2>3, <2>4, <2>5 DEF TypeOK, States
<1>4. Types'
  BY <1>1, <1>2 DEF Types, States
<1>5. Owners'
  BY <1>1, <1>2 DEF Owners, Types, Doc
<1>6. OwnersDistinct'
  BY <1>1, <1>2 DEF OwnersDistinct, Doc
<1>7. LeftExact'
  BY <1>1, <1>2 DEF LeftExact, Has, Types
<1>8. PostingsFaithful'
  BY <1>1, <1>2 DEF PostingsFaithful
<1>9. AckedIndexed'
  BY <1>1, <1>2 DEF AckedIndexed, Has
<1>10. QED
  BY <1>3, <1>4, <1>5, <1>6, <1>7, <1>8, <1>9

LEMMA FileStep == ASSUME IInv, NEW c \in Client, File(c) PROVE IInv'
<1> USE DEF IInv
<1>1. /\ pc[c] = "files" /\ todo[c] \in Seq(Found) /\ todo[c] # <<>>
  BY DEF File, Types
<1>2. Tail(todo[c]) \in Seq(Found)
  BY <1>1, HeadTailProperties
<1>3. PICK rest \in Seq(Found), where \in {"shell", "files", "dead", "put"} :
        /\ todo' = [todo EXCEPT ![c] = rest]
        /\ pc' = [pc EXCEPT ![c] = where]
        /\ where \in {"files", "put"} => rest # <<>>
        /\ where = "dead" => ~stub[c]
  <2>1. ASSUME Files(c, Tail(todo[c]))
        PROVE  \E where \in {"shell", "files"} :
                 /\ todo' = [todo EXCEPT ![c] = Tail(todo[c])]
                 /\ pc' = [pc EXCEPT ![c] = where]
                 /\ where = "files" => Tail(todo[c]) # <<>>
    BY <2>1 DEF Files, Goto
  <2>2. UNCHANGED todo => todo' = [todo EXCEPT ![c] = todo[c]]
    BY DEF Types
  <2>3. \/ Files(c, Tail(todo[c]))
        \/ pc' = [pc EXCEPT ![c] = "dead"] /\ UNCHANGED todo /\ ~stub[c]
        \/ pc' = [pc EXCEPT ![c] = "put"] /\ UNCHANGED todo
    BY DEF File, Goto
  <2>4. QED
    BY <1>1, <1>2, <2>1, <2>2, <2>3
<1>4. UNCHANGED <<main, serverThread, server, listening, stopped, nextClientId,
                  documents, termInvertedIndex, stub, clientId, terms, docNum,
                  left, at, docScores, sender, declared, acked>>
  BY DEF File, program, store, handler, history
<1>5. TypeOK'
  <2>1. Doc' = Doc /\ termInvertedIndex' = termInvertedIndex /\ sender' = sender /\ declared' = declared
    BY <1>3, <1>4 DEF Doc
  <2>2. ASSUME NEW d \in Client
        PROVE  /\ pc'[d] \in States /\ clientId'[d] \in -1 .. nextClientId' - 1
               /\ docNum'[d] \in Doc \union {0}
               /\ pc'[d] = "update" => /\ docNum'[d] \in Doc /\ sender[docNum'[d]] = d
                                      /\ DOMAIN left'[d] \subseteq DOMAIN declared[docNum'[d]]
               /\ at'[d] \in 1 .. Len(terms'[d]) + 1
               /\ DOMAIN docScores'[d] \subseteq Doc
               /\ pc'[d] = "dead" => ~stub'[d]
    <3>1. /\ pc[d] \in States /\ clientId[d] \in -1 .. nextClientId - 1
          /\ docNum[d] \in Doc \union {0}
          /\ pc[d] = "update" => /\ docNum[d] \in Doc /\ sender[docNum[d]] = d
                                 /\ DOMAIN left[d] \subseteq DOMAIN declared[docNum[d]]
          /\ at[d] \in 1 .. Len(terms[d]) + 1
          /\ DOMAIN docScores[d] \subseteq Doc
          /\ pc[d] = "dead" => ~stub[d]
          /\ nextClientId \in Nat /\ nextClientId > 0
      BY DEF TypeOK, Types, States
    <3>2. /\ DOMAIN pc = Client /\ DOMAIN clientId = Client /\ DOMAIN docNum = Client
          /\ DOMAIN stub = Client /\ DOMAIN at = Client /\ DOMAIN terms = Client
          /\ DOMAIN docScores = Client
      BY DEF Types
    <3> HIDE DEF IInv
    <3>3. CASE d = c
      BY <1>3, <1>4, <3>1, <3>2, <3>3 DEF States
    <3>4. CASE d # c
      BY <1>3, <1>4, <3>1, <3>2, <3>4 DEF States
    <3>5. QED
      BY <3>3, <3>4
  <2>3. /\ main' \in {"initialize", "shell", "shutdown", "join", "exited", "crashed"}
        /\ serverThread' \in {"none", "build", "assign", "wait", "done"}
        /\ {server, listening, stopped}' \subseteq BOOLEAN
        /\ documents' \in Seq([owner : Int, rel : Nat])
        /\ termInvertedIndex' \in [Word -> Seq([doc : Doc, freq : Nat])]
        /\ DOMAIN sender = Doc /\ DOMAIN declared = Doc
    BY <1>3, <1>4 DEF TypeOK
  <2>4. nextClientId' \in Nat
    BY <1>3, <1>4 DEF TypeOK
  <2>5. acked' \subseteq Doc
    BY <1>3, <1>4 DEF TypeOK
  <2>6. QED
    BY <2>1, <2>2, <2>3, <2>4, <2>5 DEF TypeOK, States
<1>6. Types'
  BY <1>1, <1>2, <1>3, <1>4 DEF Types, States
<1>7. Owners'
  BY <1>1, <1>2, <1>3, <1>4 DEF Owners, Types, Doc
<1>8. OwnersDistinct'
  BY <1>1, <1>2, <1>3, <1>4 DEF OwnersDistinct, Doc
<1>9. LeftExact'
  BY <1>1, <1>2, <1>3, <1>4 DEF LeftExact, Has, Types
<1>10. PostingsFaithful'
  BY <1>1, <1>2, <1>3, <1>4 DEF PostingsFaithful
<1>11. AckedIndexed'
  BY <1>1, <1>2, <1>3, <1>4 DEF AckedIndexed, Has
<1>12. QED
  BY <1>5, <1>6, <1>7, <1>8, <1>9, <1>10, <1>11

LEMMA SearchStep == ASSUME IInv, NEW c \in Client, Search(c) PROVE IInv'
<1> USE DEF IInv
<1>1. PICK q \in Query \union {<<>>}, where \in {"dead", "shell", "lookup"} :
        /\ terms' = [terms EXCEPT ![c] = q]
        /\ pc' = [pc EXCEPT ![c] = where]
        /\ where = "dead" => ~stub[c]
  <2>1. UNCHANGED terms => terms' = [terms EXCEPT ![c] = terms[c]] /\ terms[c] \in Query \union {<<>>}
    BY DEF Types
  <2>2. UNCHANGED pc => pc' = [pc EXCEPT ![c] = pc[c]]
    BY DEF Types
  <2>3. pc[c] = "shell"
    BY DEF Search, Command
  <2>4. \/ pc' = [pc EXCEPT ![c] = "dead"] /\ UNCHANGED terms /\ ~stub[c]
        \/ UNCHANGED <<pc, terms>>
        \/ \E q \in Query : pc' = [pc EXCEPT ![c] = "lookup"] /\ terms' = [terms EXCEPT ![c] = q]
    BY DEF Search, Goto
  <2>5. QED
    BY <2>1, <2>2, <2>3, <2>4
<1>2. /\ pc[c] = "shell" /\ at[c] = 1
      /\ UNCHANGED <<main, serverThread, server, listening, stopped,
                     nextClientId, documents, termInvertedIndex, stub,
                     clientId, todo, docNum, left, at, docScores, sender,
                     declared, acked>>
  BY DEF Search, Command, Types, program, store, handler
<1>3. Len(q) \in Nat
  BY QueryAssumption, EmptySeq, LenProperties
<1>4. TypeOK'
  <2>1. Doc' = Doc /\ termInvertedIndex' = termInvertedIndex /\ sender' = sender /\ declared' = declared
    BY <1>1, <1>2, <1>3 DEF Doc
  <2>2. ASSUME NEW d \in Client
        PROVE  /\ pc'[d] \in States /\ clientId'[d] \in -1 .. nextClientId' - 1
               /\ docNum'[d] \in Doc \union {0}
               /\ pc'[d] = "update" => /\ docNum'[d] \in Doc /\ sender[docNum'[d]] = d
                                      /\ DOMAIN left'[d] \subseteq DOMAIN declared[docNum'[d]]
               /\ at'[d] \in 1 .. Len(terms'[d]) + 1
               /\ DOMAIN docScores'[d] \subseteq Doc
               /\ pc'[d] = "dead" => ~stub'[d]
    <3>1. /\ pc[d] \in States /\ clientId[d] \in -1 .. nextClientId - 1
          /\ docNum[d] \in Doc \union {0}
          /\ pc[d] = "update" => /\ docNum[d] \in Doc /\ sender[docNum[d]] = d
                                 /\ DOMAIN left[d] \subseteq DOMAIN declared[docNum[d]]
          /\ at[d] \in 1 .. Len(terms[d]) + 1
          /\ DOMAIN docScores[d] \subseteq Doc
          /\ pc[d] = "dead" => ~stub[d]
          /\ nextClientId \in Nat /\ nextClientId > 0
      BY DEF TypeOK, Types, States
    <3>2. /\ DOMAIN pc = Client /\ DOMAIN clientId = Client /\ DOMAIN docNum = Client
          /\ DOMAIN stub = Client /\ DOMAIN at = Client /\ DOMAIN terms = Client
          /\ DOMAIN docScores = Client
      BY DEF Types
    <3> HIDE DEF IInv
    <3>3. CASE d = c
      BY <1>1, <1>2, <1>3, <3>1, <3>2, <3>3 DEF States
    <3>4. CASE d # c
      BY <1>1, <1>2, <1>3, <3>1, <3>2, <3>4 DEF States
    <3>5. QED
      BY <3>3, <3>4
  <2>3. /\ main' \in {"initialize", "shell", "shutdown", "join", "exited", "crashed"}
        /\ serverThread' \in {"none", "build", "assign", "wait", "done"}
        /\ {server, listening, stopped}' \subseteq BOOLEAN
        /\ documents' \in Seq([owner : Int, rel : Nat])
        /\ termInvertedIndex' \in [Word -> Seq([doc : Doc, freq : Nat])]
        /\ DOMAIN sender = Doc /\ DOMAIN declared = Doc
    BY <1>1, <1>2, <1>3 DEF TypeOK
  <2>4. nextClientId' \in Nat
    BY <1>1, <1>2, <1>3 DEF TypeOK
  <2>5. acked' \subseteq Doc
    BY <1>1, <1>2, <1>3 DEF TypeOK
  <2>6. QED
    BY <2>1, <2>2, <2>3, <2>4, <2>5 DEF TypeOK, States
<1>5. Types'
  BY <1>1, <1>2, <1>3 DEF Types, States
<1>6. Owners'
  BY <1>1, <1>2, <1>3 DEF Owners, Types, Doc
<1>7. OwnersDistinct'
  BY <1>1, <1>2, <1>3 DEF OwnersDistinct, Doc
<1>8. LeftExact'
  BY <1>1, <1>2, <1>3 DEF LeftExact, Has, Types
<1>9. PostingsFaithful'
  BY <1>1, <1>2, <1>3 DEF PostingsFaithful
<1>10. AckedIndexed'
  BY <1>1, <1>2, <1>3 DEF AckedIndexed, Has
<1>11. QED
  BY <1>4, <1>5, <1>6, <1>7, <1>8, <1>9, <1>10

LEMMA RegisterStep == ASSUME IInv, NEW c \in Client, Register(c) PROVE IInv'
<1> USE DEF IInv
<1>1. /\ pc[c] = "register" /\ pc' = [pc EXCEPT ![c] = "shell"]
      /\ clientId' = [clientId EXCEPT ![c] = nextClientId] /\ nextClientId' = nextClientId + 1
      /\ UNCHANGED <<main, serverThread, server, listening, stopped, documents,
                     termInvertedIndex, stub, todo, terms, docNum, left, at,
                     docScores, sender, declared, acked>>
  BY DEF Register, Goto, program, store, handler, history
<1>2. TypeOK'
  <2>1. Doc' = Doc /\ termInvertedIndex' = termInvertedIndex /\ sender' = sender /\ declared' = declared
    BY <1>1 DEF Doc
  <2>2. ASSUME NEW d \in Client
        PROVE  /\ pc'[d] \in States /\ clientId'[d] \in -1 .. nextClientId' - 1
               /\ docNum'[d] \in Doc \union {0}
               /\ pc'[d] = "update" => /\ docNum'[d] \in Doc /\ sender[docNum'[d]] = d
                                      /\ DOMAIN left'[d] \subseteq DOMAIN declared[docNum'[d]]
               /\ at'[d] \in 1 .. Len(terms'[d]) + 1
               /\ DOMAIN docScores'[d] \subseteq Doc
               /\ pc'[d] = "dead" => ~stub'[d]
    <3>1. /\ pc[d] \in States /\ clientId[d] \in -1 .. nextClientId - 1
          /\ docNum[d] \in Doc \union {0}
          /\ pc[d] = "update" => /\ docNum[d] \in Doc /\ sender[docNum[d]] = d
                                 /\ DOMAIN left[d] \subseteq DOMAIN declared[docNum[d]]
          /\ at[d] \in 1 .. Len(terms[d]) + 1
          /\ DOMAIN docScores[d] \subseteq Doc
          /\ pc[d] = "dead" => ~stub[d]
          /\ nextClientId \in Nat /\ nextClientId > 0
      BY DEF TypeOK, Types, States
    <3>2. /\ DOMAIN pc = Client /\ DOMAIN clientId = Client /\ DOMAIN docNum = Client
          /\ DOMAIN stub = Client /\ DOMAIN at = Client /\ DOMAIN terms = Client
          /\ DOMAIN docScores = Client
      BY DEF Types
    <3> HIDE DEF IInv
    <3>3. CASE d = c
      BY <1>1, <3>1, <3>2, <3>3 DEF States
    <3>4. CASE d # c
      BY <1>1, <3>1, <3>2, <3>4 DEF States
    <3>5. QED
      BY <3>3, <3>4
  <2>3. /\ main' \in {"initialize", "shell", "shutdown", "join", "exited", "crashed"}
        /\ serverThread' \in {"none", "build", "assign", "wait", "done"}
        /\ {server, listening, stopped}' \subseteq BOOLEAN
        /\ documents' \in Seq([owner : Int, rel : Nat])
        /\ termInvertedIndex' \in [Word -> Seq([doc : Doc, freq : Nat])]
        /\ DOMAIN sender = Doc /\ DOMAIN declared = Doc
    BY <1>1 DEF TypeOK
  <2>4. nextClientId' \in Nat
    BY <1>1 DEF TypeOK
  <2>5. acked' \subseteq Doc
    BY <1>1 DEF TypeOK
  <2>6. QED
    BY <2>1, <2>2, <2>3, <2>4, <2>5 DEF TypeOK, States
<1>3. Types'
  <2>1. clientId' \in [Client -> Int] /\ nextClientId' > 0
    BY <1>1 DEF Types, TypeOK
  <2>2. QED
    BY <1>1, <2>1 DEF Types, States
<1>4. Owners'
  <2>1. /\ \A d \in Client : clientId'[d] = IF d = c THEN nextClientId ELSE clientId[d]
        /\ \A d \in Client : clientId[d] \in -1 .. nextClientId - 1
        /\ nextClientId \in Nat /\ Doc' = Doc
    BY <1>1 DEF Types, TypeOK, Doc
  <2>2. \A d, e \in Client : clientId'[d] = clientId'[e] /\ clientId'[d] # -1 => d = e
    BY <2>1 DEF Owners
  <2>3. \A d \in Doc : documents[d].owner < nextClientId /\ documents[d].owner \in Int
    BY DocType DEF Owners
  <2>4. \A d \in Doc : documents[d].owner < nextClientId + 1
    BY <2>1, <2>3
  <2>5. \A d \in Doc, e \in Client :
          documents[d].owner = clientId'[e] /\ clientId'[e] # -1 => sender[d] = e
    BY <2>1, <2>3 DEF Owners
  <2>6. QED
    BY <1>1, <2>1, <2>2, <2>4, <2>5 DEF Owners
<1>5. OwnersDistinct'
  BY <1>1 DEF OwnersDistinct, Doc
<1>6. LeftExact'
  BY <1>1 DEF LeftExact, Has, Types
<1>7. PostingsFaithful'
  BY <1>1 DEF PostingsFaithful
<1>8. AckedIndexed'
  BY <1>1 DEF AckedIndexed, Has
<1>9. QED
  BY <1>2, <1>3, <1>4, <1>5, <1>6, <1>7, <1>8

LEMMA PutStep == ASSUME IInv, NEW c \in Client, Put(c) PROVE IInv'
<1> USE DEF IInv
<1>1. /\ pc[c] = "put" /\ todo[c] \in Seq(Found) /\ todo[c] # <<>>
  BY DEF Put, Types
<1> DEFINE n == Len(documents)
           file == Head(todo[c])
           path == [owner |-> clientId[c], rel |-> file.rel]
<1>2. file \in Found /\ file.rel \in Nat /\ file.counts \in Counts
  <2>1. file \in Found
    BY <1>1, HeadTailProperties
  <2>2. QED
    BY <2>1, FoldersAssumption DEF Counts
<1>3. /\ n \in Nat /\ Doc = 1 .. n /\ Len(sender) = n /\ Len(declared) = n
  <2>1. n \in Nat /\ Doc = 1 .. n
    BY LenProperties DEF TypeOK, Doc
  <2>2. Len(sender) = n /\ Len(declared) = n
    BY <2>1, LenProperties DEF TypeOK, Types
  <2>3. QED
    BY <2>1, <2>2
<1>4. /\ documents' = Append(documents, path) /\ docNum' = [docNum EXCEPT ![c] = Len(documents')]
      /\ left' = [left EXCEPT ![c] = file.counts]
      /\ sender' = Append(sender, c) /\ declared' = Append(declared, file.counts)
      /\ pc' = [pc EXCEPT ![c] = "update"]
      /\ UNCHANGED <<main, serverThread, server, listening, stopped,
                     nextClientId, termInvertedIndex, stub, clientId, todo,
                     terms, at, docScores, acked>>
  BY DEF Put, PutDocument, Goto, program, engine
<1>5. path \in [owner : Int, rel : Nat] /\ path.owner = clientId[c]
  BY <1>2 DEF Types
<1> HIDE DEF path, n, file
<1>6. /\ documents' \in Seq([owner : Int, rel : Nat]) /\ Len(documents') = n + 1
      /\ Doc' = 1 .. n + 1 /\ documents'[n + 1] = path /\ \A d \in Doc : documents'[d] = documents[d]
  <2>1. /\ documents' \in Seq([owner : Int, rel : Nat]) /\ Len(documents') = n + 1
        /\ documents'[n + 1] = path /\ \A d \in 1 .. n : documents'[d] = documents[d]
    BY <1>3, <1>4, <1>5, AppendProperties DEF TypeOK, n
  <2>2. QED
    BY <1>3, <2>1, LenProperties DEF Doc
<1>7. /\ sender' \in Seq(Client) /\ DOMAIN sender' = Doc'
      /\ sender'[n + 1] = c /\ \A d \in Doc : sender'[d] = sender[d]
  <2>1. /\ sender' \in Seq(Client) /\ Len(sender') = n + 1
        /\ sender'[n + 1] = c /\ \A d \in 1 .. n : sender'[d] = sender[d]
    <3>1. sender \in Seq(Client)
      BY DEF Types
    <3> HIDE DEF IInv
    <3>2. QED
      BY <1>3, <1>4, <3>1, AppendProperties
  <2>2. QED
    BY <1>3, <1>6, <2>1, LenProperties
<1>8. /\ declared' \in Seq(Counts) /\ DOMAIN declared' = Doc'
      /\ declared'[n + 1] = file.counts /\ \A d \in Doc : declared'[d] = declared[d]
  <2>1. /\ declared' \in Seq(Counts) /\ Len(declared') = n + 1
        /\ declared'[n + 1] = file.counts /\ \A d \in 1 .. n : declared'[d] = declared[d]
    <3>1. declared \in Seq(Counts)
      BY DEF Types
    <3> HIDE DEF IInv
    <3>2. QED
      BY <1>2, <1>3, <1>4, <3>1, AppendProperties
  <2>2. QED
    BY <1>3, <1>6, <2>1, LenProperties
<1>9. Doc \subseteq Doc' /\ n + 1 \in Doc' /\ n + 1 \notin Doc /\ Doc' = Doc \union {n + 1}
  BY <1>3, <1>6
<1>10. /\ docNum'[c] = n + 1 /\ left'[c] = file.counts /\ pc'[c] = "update"
       /\ \A d \in Client \ {c} : docNum'[d] = docNum[d] /\ left'[d] = left[d] /\ pc'[d] = pc[d]
  BY <1>4, <1>6 DEF Types
<1>11. \A k \in Word : \A i \in DOMAIN termInvertedIndex[k] : termInvertedIndex[k][i].doc \in Doc
  BY IndexType
<1>12. DOMAIN file.counts \subseteq Word
  BY <1>2 DEF Counts
<1>13. \A k, d : Has(k, d)' <=> Has(k, d)
  BY <1>4 DEF Has
<1>14. TypeOK'
  <2>1. termInvertedIndex' \in [Word -> Seq([doc : Doc', freq : Nat])]
    <3>1. [doc : Doc, freq : Nat] \subseteq [doc : Doc', freq : Nat]
      BY <1>9
    <3>2. \A k \in Word : termInvertedIndex[k] \in Seq([doc : Doc', freq : Nat])
      BY <3>1, IndexType, SeqMonotonic
    <3>3. QED
      BY <1>4, <3>2 DEF TypeOK
  <2>2. ASSUME NEW d \in Client
        PROVE  /\ pc'[d] \in States /\ docNum'[d] \in Doc' \union {0}
               /\ pc'[d] = "update" => /\ docNum'[d] \in Doc' /\ sender'[docNum'[d]] = d
                                      /\ DOMAIN left'[d] \subseteq DOMAIN declared'[docNum'[d]]
               /\ DOMAIN docScores'[d] \subseteq Doc'
               /\ pc'[d] = "dead" => ~stub'[d]
    <3>1. CASE d = c
      BY <1>4, <1>7, <1>8, <1>9, <1>10, <3>1 DEF TypeOK, States
    <3>2. CASE d # c
      <4>1. /\ pc[d] \in States /\ docNum[d] \in Doc \union {0}
            /\ pc[d] = "update" => /\ docNum[d] \in Doc /\ sender[docNum[d]] = d
                                  /\ DOMAIN left[d] \subseteq DOMAIN declared[docNum[d]]
            /\ DOMAIN docScores[d] \subseteq Doc
            /\ pc[d] = "dead" => ~stub[d]
        BY DEF TypeOK, States
      <4>2. QED
        BY <1>4, <1>7, <1>8, <1>9, <1>10, <3>2, <4>1
    <3>3. QED
      BY <3>1, <3>2
  <2>3. /\ acked' \subseteq Doc' /\ nextClientId' \in Nat
        /\ main' \in {"initialize", "shell", "shutdown", "join", "exited", "crashed"}
        /\ serverThread' \in {"none", "build", "assign", "wait", "done"}
        /\ {server, listening, stopped}' \subseteq BOOLEAN
        /\ \A d \in Client : clientId'[d] \in -1 .. nextClientId' - 1
                             /\ at'[d] \in 1 .. Len(terms'[d]) + 1
    BY <1>4, <1>9 DEF TypeOK
  <2>4. QED
    BY <1>6, <1>7, <1>8, <2>1, <2>2, <2>3 DEF TypeOK, States
<1>15. Types'
  <2>1. pc' \in [Client -> States] /\ docNum' \in [Client -> Nat] /\ left' \in [Client -> Counts]
    BY <1>2, <1>3, <1>4, <1>6 DEF Types, States
  <2>2. /\ \A d \in Client : pc'[d] \in {"files", "put", "update"} => todo'[d] # <<>>
        /\ \A d \in Client : pc'[d] # "lookup" => at'[d] = 1
    BY <1>1, <1>4, <1>10 DEF Types
  <2>3. QED
    BY <1>4, <1>7, <1>8, <2>1, <2>2 DEF Types
<1>16. Owners'
  <2>1. /\ documents'[n + 1].owner = clientId[c] /\ sender'[n + 1] = c
        /\ \A d \in Doc : documents'[d] = documents[d] /\ sender'[d] = sender[d]
    BY <1>5, <1>6, <1>7
  <2>2. clientId[c] < nextClientId
    BY DEF TypeOK
  <2>3. /\ \A d \in Doc' : documents'[d].owner < nextClientId
        /\ \A d \in Doc', e \in Client :
             documents'[d].owner = clientId[e] /\ clientId[e] # -1 => sender'[d] = e
    BY <1>9, <2>1, <2>2 DEF Owners
  <2>4. QED
    BY <1>4, <2>3 DEF Owners
<1>17. OwnersDistinct'
  <2>1. /\ documents'[n + 1].owner = clientId[c] /\ sender'[n + 1] = c
        /\ \A d \in Doc : documents'[d] = documents[d] /\ sender'[d] = sender[d]
    BY <1>5, <1>6, <1>7
  <2>2. \A d \in Doc : documents[d].owner = clientId[c] /\ clientId[c] # -1 => sender[d] = c
    BY DEF Owners
  <2>3. QED
    BY <1>9, <2>1, <2>2 DEF OwnersDistinct
<1>18. LeftExact'
  <2>1. ASSUME NEW d \in Client, pc'[d] = "update"
        PROVE  /\ docNum'[d] \notin acked
               /\ \A k \in DOMAIN declared'[docNum'[d]] : Has(k, docNum'[d]) <=> k \notin DOMAIN left'[d]
               /\ \A k \in DOMAIN left'[d] : left'[d][k] = declared'[docNum'[d]][k]
    <3>1. CASE d = c
      <4>1. n + 1 \notin acked
        BY <1>9 DEF TypeOK
      <4>2. \A k \in Word : ~Has(k, n + 1)
        BY <1>9, <1>11 DEF Has
      <4>3. QED
        BY <1>8, <1>10, <1>12, <3>1, <4>1, <4>2
    <3>2. CASE d # c
      <4>1. docNum'[d] = docNum[d] /\ docNum[d] \in Doc /\ left'[d] = left[d] /\ pc[d] = "update"
        BY <1>10, <2>1, <3>2 DEF TypeOK
      <4>2. QED
        BY <1>8, <4>1 DEF LeftExact
    <3>3. QED
      BY <3>1, <3>2
  <2>2. QED
    BY <1>4, <1>13, <2>1 DEF LeftExact
<1>19. PostingsFaithful'
  <2>1. \A k \in Word : \A i \in DOMAIN termInvertedIndex[k] :
          declared'[termInvertedIndex[k][i].doc] = declared[termInvertedIndex[k][i].doc]
    BY <1>8, <1>11
  <2>2. termInvertedIndex' = termInvertedIndex
    BY <1>4
  <2> HIDE DEF IInv
  <2>3. PostingsFaithful
    BY DEF IInv
  <2>4. QED
    BY <2>1, <2>2, <2>3 DEF PostingsFaithful
<1>20. AckedIndexed'
  <2>1. \A d \in acked : declared'[d] = declared[d]
    BY <1>8 DEF TypeOK
  <2>2. QED
    BY <1>4, <1>13, <2>1 DEF AckedIndexed
<1>21. QED
  BY <1>14, <1>15, <1>16, <1>17, <1>18, <1>19, <1>20

LEMMA UpdateIndexStep == ASSUME IInv, NEW c \in Client, UpdateIndex(c) PROVE IInv'
<1> USE DEF IInv
<1>1. PICK k \in DOMAIN left[c] :
        /\ termInvertedIndex' = [termInvertedIndex EXCEPT ![k] = AddUnchecked(@, docNum[c], left[c][k])]
        /\ left' = [left EXCEPT ![c] = [j \in DOMAIN @ \ {k} |-> @[j]]]
  BY DEF UpdateIndex
<1>2. /\ pc[c] = "update"
      /\ UNCHANGED <<main, serverThread, server, listening, stopped,
                     nextClientId, documents, pc, stub, clientId, todo, terms,
                     docNum, at, docScores, sender, declared, acked>>
      /\ Doc' = Doc
  BY DEF UpdateIndex, program, engine, history, Doc
<1>3. PICK d \in Doc, a \in Nat :
        /\ d = docNum[c] /\ a = left[c][k] /\ k \in Word /\ sender[d] = c
        /\ k \in DOMAIN declared[d] /\ a = declared[d][k] /\ ~Has(k, d)
  <2>1. docNum[c] \in Doc /\ sender[docNum[c]] = c /\ k \in DOMAIN declared[docNum[c]]
    BY <1>2 DEF TypeOK
  <2>2. left[c] \in Counts
    BY DEF Types
  <2>3. left[c][k] \in Nat /\ k \in Word
    BY <2>2 DEF Counts
  <2>4. QED
    BY <1>2, <2>1, <2>3 DEF LeftExact
<1> DEFINE new == [doc |-> d, freq |-> a]
           n == Len(termInvertedIndex[k])
<1>4. /\ termInvertedIndex[k] \in Seq([doc : Doc, freq : Nat])
      /\ n \in Nat /\ DOMAIN termInvertedIndex[k] = 1 .. n
  BY <1>3, IndexType
<1>5. AddUnchecked(termInvertedIndex[k], docNum[c], left[c][k]) = Append(termInvertedIndex[k], new)
  <2>1. ASSUME EndsWith(termInvertedIndex[k], d) PROVE FALSE
    <3>1. n \in DOMAIN termInvertedIndex[k] /\ termInvertedIndex[k][n].doc = d
      BY <1>4, <2>1, EmptySeq DEF EndsWith, EmptyList
    <3>2. QED
      BY <1>3, <3>1 DEF Has
  <2>2. QED
    BY <1>3, <2>1 DEF AddUnchecked, Posting
<1>6. /\ termInvertedIndex'[k] \in Seq([doc : Doc, freq : Nat])
      /\ DOMAIN termInvertedIndex'[k] = 1 .. n + 1
      /\ termInvertedIndex'[k][n + 1] = new
      /\ \A x \in 1 .. n : termInvertedIndex'[k][x] = termInvertedIndex[k][x]
      /\ \A x \in Word \ {k} : termInvertedIndex'[x] = termInvertedIndex[x]
      /\ DOMAIN termInvertedIndex' = Word /\ new.doc = d /\ new.freq = a
  <2>1. /\ termInvertedIndex'[k] = Append(termInvertedIndex[k], new)
        /\ \A x \in Word \ {k} : termInvertedIndex'[x] = termInvertedIndex[x]
        /\ termInvertedIndex' = [termInvertedIndex EXCEPT ![k] = Append(termInvertedIndex[k], new)]
    BY <1>1, <1>3, <1>5 DEF TypeOK
  <2>2. new \in [doc : Doc, freq : Nat]
    OBVIOUS
  <2>3. DOMAIN termInvertedIndex' = Word /\ new.doc = d /\ new.freq = a
    BY <2>1 DEF TypeOK
  <2> HIDE DEF new
  <2>4. QED
    BY <1>4, <2>1, <2>2, <2>3, AppendProperties, LenProperties
<1> HIDE DEF new, n
<1>7. \A x \in Word : \A e : Has(x, e)' <=> Has(x, e) \/ (x = k /\ e = d)
  <2>1. ASSUME NEW e, Has(k, e)' PROVE Has(k, e) \/ e = d
    <3>1. PICK x \in 1 .. n + 1 : termInvertedIndex'[k][x].doc = e
      BY <1>6, <2>1 DEF Has
    <3>2. x = n + 1 \/ x \in 1 .. n
      BY <1>4
    <3>3. QED
      BY <1>4, <1>6, <3>1, <3>2 DEF Has
  <2>2. ASSUME NEW e, Has(k, e) PROVE Has(k, e)'
    <3>1. PICK x \in 1 .. n : termInvertedIndex[k][x].doc = e
      BY <1>4, <2>2 DEF Has
    <3>2. x \in 1 .. n + 1 /\ termInvertedIndex'[k][x] = termInvertedIndex[k][x]
      BY <1>4, <1>6
    <3>3. QED
      BY <1>6, <3>1, <3>2 DEF Has
  <2>3. Has(k, d)'
    <3>1. n + 1 \in 1 .. n + 1
      BY <1>4
    <3>2. QED
      BY <1>6, <3>1 DEF Has
  <2>4. \A x \in Word \ {k} : \A e : Has(x, e)' <=> Has(x, e)
    BY <1>6 DEF Has
  <2>5. QED
    BY <2>1, <2>2, <2>3, <2>4
<1>8. /\ DOMAIN left'[c] = DOMAIN left[c] \ {k} /\ \A j \in DOMAIN left'[c] : left'[c][j] = left[c][j]
      /\ \A e \in Client \ {c} : left'[e] = left[e]
      /\ left' \in [Client -> Counts]
  <2> DEFINE rest == [j \in DOMAIN left[c] \ {k} |-> left[c][j]]
  <2>1. left' = [left EXCEPT ![c] = rest]
    BY <1>1
  <2>2. left \in [Client -> Counts]
    BY DEF Types
  <2>3. rest \in Counts
    <3>1. PICK K \in SUBSET Word : left[c] \in [K -> Nat]
      BY <2>2 DEF Counts
    <3>2. rest \in [K \ {k} -> Nat]
      BY <3>1
    <3>3. QED
      BY <3>2 DEF Counts
  <2>4. QED
    BY <2>1, <2>2, <2>3
<1>9. TypeOK'
  <2>1. termInvertedIndex' \in [Word -> Seq([doc : Doc', freq : Nat])]
    <3>1. Append(termInvertedIndex[k], new) \in Seq([doc : Doc', freq : Nat])
      BY <1>2, <1>3, <1>4 DEF new
    <3>2. termInvertedIndex' = [termInvertedIndex EXCEPT ![k] = Append(termInvertedIndex[k], new)]
      BY <1>1, <1>5
    <3>3. QED
      BY <1>2, <3>1, <3>2 DEF TypeOK
  <2>2. \A e \in Client : DOMAIN left'[e] \subseteq DOMAIN left[e]
    BY <1>8
  <2>3. QED
    BY <1>2, <2>1, <2>2 DEF TypeOK
<1>10. Types'
  BY <1>2, <1>8 DEF Types
<1>11. Owners'
  BY <1>2 DEF Owners
<1>12. OwnersDistinct'
  BY <1>1, <1>2, <1>3, <1>4, <1>5, <1>6, <1>7, <1>8 DEF OwnersDistinct, Doc
<1>13. LeftExact'
  <2>1. ASSUME NEW e \in Client, pc[e] = "update", NEW j \in DOMAIN declared[docNum[e]]
        PROVE  Has(j, docNum[e])' <=> j \notin DOMAIN left'[e]
    <3>1. /\ Has(j, docNum[e]) <=> j \notin DOMAIN left[e]
          /\ docNum[e] \in Doc /\ sender[docNum[e]] = e
      BY <2>1 DEF LeftExact, TypeOK
    <3>2. j \in Word
      <4>1. declared[docNum[e]] \in Counts
        BY <3>1, DeclaredType
      <4>2. QED
        BY <2>1, <4>1 DEF Counts
    <3>3. CASE e = c
      BY <1>2, <1>3, <1>7, <1>8, <3>1, <3>2, <3>3
    <3>4. CASE e # c
      <4>1. docNum[e] # d
        BY <1>3, <3>1, <3>4
      <4>2. QED
        BY <1>2, <1>7, <1>8, <3>1, <3>2, <3>4, <4>1
    <3>5. QED
      BY <3>3, <3>4
  <2>2. \A e \in Client : pc[e] = "update" => docNum[e] \notin acked
    BY DEF LeftExact
  <2>3. \A e \in Client : pc[e] = "update" => \A j \in DOMAIN left'[e] : left'[e][j] = declared[docNum[e]][j]
    BY <1>8 DEF LeftExact
  <2>4. QED
    BY <1>2, <2>1, <2>2, <2>3 DEF LeftExact
<1>14. PostingsFaithful'
  <2> HIDE DEF IInv
  <2>1. PostingsFaithful
    BY DEF IInv
  <2>2. \A x \in 1 .. n : termInvertedIndex[k][x].doc # d
    BY <1>3, <1>4 DEF Has
  <2>3. ASSUME NEW x \in DOMAIN termInvertedIndex'[k], NEW y \in DOMAIN termInvertedIndex'[k]
        PROVE  LET p == termInvertedIndex'[k][x]
               IN  /\ p.doc = termInvertedIndex'[k][y].doc => x = y
                   /\ k \in DOMAIN declared[p.doc] /\ p.freq = declared[p.doc][k]
    <3>1. (x \in 1 .. n \/ x = n + 1) /\ (y \in 1 .. n \/ y = n + 1)
      BY <1>4, <1>6, <2>3
    <3>2. CASE x \in 1 .. n
      <4>1. /\ termInvertedIndex'[k][x] = termInvertedIndex[k][x]
            /\ x \in DOMAIN termInvertedIndex[k]
            /\ termInvertedIndex[k][x].doc # d
        BY <1>4, <1>6, <2>2, <3>2
      <4>2. /\ k \in DOMAIN declared[termInvertedIndex[k][x].doc]
            /\ termInvertedIndex[k][x].freq = declared[termInvertedIndex[k][x].doc][k]
            /\ \A z \in 1 .. n : termInvertedIndex[k][x].doc = termInvertedIndex[k][z].doc => x = z
        BY <1>3, <1>4, <2>1, <4>1 DEF PostingsFaithful
      <4>3. CASE y \in 1 .. n
        BY <1>6, <4>1, <4>2, <4>3
      <4>4. CASE y = n + 1
        BY <1>6, <4>1, <4>2, <4>4
      <4>5. QED
        BY <3>1, <4>3, <4>4
    <3>3. CASE x = n + 1
      BY <1>3, <1>6, <2>2, <3>1, <3>3
    <3>4. QED
      BY <3>1, <3>2, <3>3
  <2>4. ASSUME NEW z \in Word \ {k}, NEW x \in DOMAIN termInvertedIndex'[z],
               NEW y \in DOMAIN termInvertedIndex'[z]
        PROVE  LET p == termInvertedIndex'[z][x]
               IN  /\ p.doc = termInvertedIndex'[z][y].doc => x = y
                   /\ z \in DOMAIN declared[p.doc] /\ p.freq = declared[p.doc][z]
    BY <1>6, <2>1, <2>4 DEF PostingsFaithful
  <2>5. QED
    BY <1>2, <2>3, <2>4 DEF PostingsFaithful
<1>15. AckedIndexed'
  <2>1. \A e \in acked : \A x \in DOMAIN declared[e] : x \in Word
    <3>1. \A e \in acked : declared[e] \in Counts
      BY DeclaredType DEF TypeOK
    <3>2. QED
      BY <3>1 DEF Counts
  <2>2. \A e \in acked : \A x \in DOMAIN declared[e] : Has(x, e)'
    BY <1>7, <2>1 DEF AckedIndexed
  <2>3. QED
    BY <1>2, <2>2 DEF AckedIndexed
<1>16. QED
  BY <1>9, <1>10, <1>11, <1>12, <1>13, <1>14, <1>15

LEMMA ReplyIndexStep == ASSUME IInv, NEW c \in Client, ReplyIndex(c) PROVE IInv'
<1> USE DEF IInv
<1>1. /\ pc[c] = "update" /\ todo[c] \in Seq(Found) /\ todo[c] # <<>>
  BY DEF ReplyIndex, Types
<1>2. Tail(todo[c]) \in Seq(Found)
  BY <1>1, HeadTailProperties
<1>3. PICK where \in {"shell", "files"} :
        /\ todo' = [todo EXCEPT ![c] = Tail(todo[c])]
        /\ pc' = [pc EXCEPT ![c] = where]
        /\ where = "files" => Tail(todo[c]) # <<>>
  BY DEF ReplyIndex, Files, Goto
<1>4. /\ DOMAIN left[c] = {} /\ acked' = acked \union {docNum[c]}
      /\ docNum' = [docNum EXCEPT ![c] = 0]
      /\ UNCHANGED <<main, serverThread, server, listening, stopped,
                     nextClientId, documents, termInvertedIndex, stub,
                     clientId, terms, left, at, docScores, sender, declared>>
  BY DEF ReplyIndex, NoScores, program, store
<1>5. TypeOK'
  <2>1. Doc' = Doc /\ termInvertedIndex' = termInvertedIndex /\ sender' = sender /\ declared' = declared
    BY <1>1, <1>3, <1>4 DEF Doc
  <2>2. ASSUME NEW d \in Client
        PROVE  /\ pc'[d] \in States /\ clientId'[d] \in -1 .. nextClientId' - 1
               /\ docNum'[d] \in Doc \union {0}
               /\ pc'[d] = "update" => /\ docNum'[d] \in Doc /\ sender[docNum'[d]] = d
                                      /\ DOMAIN left'[d] \subseteq DOMAIN declared[docNum'[d]]
               /\ at'[d] \in 1 .. Len(terms'[d]) + 1
               /\ DOMAIN docScores'[d] \subseteq Doc
               /\ pc'[d] = "dead" => ~stub'[d]
    <3>1. /\ pc[d] \in States /\ clientId[d] \in -1 .. nextClientId - 1
          /\ docNum[d] \in Doc \union {0}
          /\ pc[d] = "update" => /\ docNum[d] \in Doc /\ sender[docNum[d]] = d
                                 /\ DOMAIN left[d] \subseteq DOMAIN declared[docNum[d]]
          /\ at[d] \in 1 .. Len(terms[d]) + 1
          /\ DOMAIN docScores[d] \subseteq Doc
          /\ pc[d] = "dead" => ~stub[d]
          /\ nextClientId \in Nat /\ nextClientId > 0
      BY DEF TypeOK, Types, States
    <3>2. /\ DOMAIN pc = Client /\ DOMAIN clientId = Client /\ DOMAIN docNum = Client
          /\ DOMAIN stub = Client /\ DOMAIN at = Client /\ DOMAIN terms = Client
          /\ DOMAIN docScores = Client
      BY DEF Types
    <3> HIDE DEF IInv
    <3>3. CASE d = c
      BY <1>1, <1>3, <1>4, <3>1, <3>2, <3>3 DEF States
    <3>4. CASE d # c
      BY <1>1, <1>3, <1>4, <3>1, <3>2, <3>4 DEF States
    <3>5. QED
      BY <3>3, <3>4
  <2>3. /\ main' \in {"initialize", "shell", "shutdown", "join", "exited", "crashed"}
        /\ serverThread' \in {"none", "build", "assign", "wait", "done"}
        /\ {server, listening, stopped}' \subseteq BOOLEAN
        /\ documents' \in Seq([owner : Int, rel : Nat])
        /\ termInvertedIndex' \in [Word -> Seq([doc : Doc, freq : Nat])]
        /\ DOMAIN sender = Doc /\ DOMAIN declared = Doc
    BY <1>1, <1>3, <1>4 DEF TypeOK
  <2>4. nextClientId' \in Nat
    BY <1>1, <1>3, <1>4 DEF TypeOK
  <2>5. acked' \subseteq Doc
    BY <1>1, <1>3, <1>4 DEF TypeOK
  <2>6. QED
    BY <2>1, <2>2, <2>3, <2>4, <2>5 DEF TypeOK, States
<1>6. Types'
  BY <1>1, <1>2, <1>3, <1>4 DEF Types, States
<1>7. Owners'
  BY <1>1, <1>2, <1>3, <1>4 DEF Owners, Types, Doc
<1>8. OwnersDistinct'
  BY <1>1, <1>2, <1>3, <1>4 DEF OwnersDistinct, Doc
<1>9. LeftExact'
  <2>1. \A d \in Client : pc'[d] = "update" => pc[d] = "update" /\ d # c /\ docNum'[d] = docNum[d]
    BY <1>3, <1>4 DEF Types
  <2>2. \A d \in Client : pc'[d] = "update" => docNum[d] # docNum[c]
    BY <1>1, <2>1 DEF TypeOK
  <2>3. \A k, d : Has(k, d)' <=> Has(k, d)
    BY <1>4 DEF Has
  <2>4. QED
    BY <1>4, <2>1, <2>2, <2>3 DEF LeftExact
<1>10. PostingsFaithful'
  BY <1>1, <1>2, <1>3, <1>4 DEF PostingsFaithful
<1>11. AckedIndexed'
  <2>1. \A k \in DOMAIN declared[docNum[c]] : Has(k, docNum[c])
    BY <1>1, <1>4 DEF LeftExact
  <2>2. \A k, d : Has(k, d)' <=> Has(k, d)
    BY <1>4 DEF Has
  <2>3. QED
    BY <1>4, <2>1, <2>2 DEF AckedIndexed
<1>12. QED
  BY <1>5, <1>6, <1>7, <1>8, <1>9, <1>10, <1>11

LEMMA LookupIndexStep == ASSUME IInv, NEW c \in Client, LookupIndex(c) PROVE IInv'
<1> USE DEF IInv
<1> DEFINE list == termInvertedIndex[terms[c][at[c]]]
           scores == IF at[c] = 1 THEN FirstScores(list) ELSE NextScores(docScores[c], list)
<1>1. /\ pc[c] = "lookup" /\ at[c] <= Len(terms[c])
      /\ docScores' = [docScores EXCEPT ![c] = scores]
      /\ at' = [at EXCEPT ![c] = IF DOMAIN scores = {} THEN Len(terms[c]) + 1 ELSE @ + 1]
      /\ UNCHANGED <<main, serverThread, server, listening, stopped,
                     nextClientId, documents, termInvertedIndex, pc, stub,
                     clientId, todo, terms, docNum, left, sender, declared,
                     acked>>
  BY DEF LookupIndex, program, store, engine, history
<1>2. /\ at[c] \in Nat \ {0} /\ Len(terms[c]) \in Nat /\ terms[c][at[c]] \in Word
  <2>1. terms[c] \in Seq(Word) /\ at[c] \in Nat \ {0}
    BY QueryAssumption, EmptySeq DEF Types
  <2>2. QED
    BY <1>1, <2>1, LenProperties, ElementOfSeq
<1>3. DOMAIN scores \subseteq Doc
  <2>1. \A i \in DOMAIN list : list[i].doc \in Doc
    BY <1>2, IndexType
  <2>2. DOMAIN FirstScores(list) \subseteq Doc
    BY <2>1 DEF FirstScores
  <2>3. DOMAIN docScores[c] \subseteq Doc
    BY DEF TypeOK
  <2>4. QED
    BY <2>2, <2>3 DEF NextScores
<1> HIDE DEF scores
<1> DEFINE m == IF DOMAIN scores = {} THEN Len(terms[c]) + 1 ELSE at[c] + 1
<1>4. m \in 1 .. Len(terms[c]) + 1 /\ at' = [at EXCEPT ![c] = m]
  BY <1>1, <1>2
<1> HIDE DEF m
<1>5. TypeOK'
  <2>1. Doc' = Doc /\ termInvertedIndex' = termInvertedIndex /\ sender' = sender /\ declared' = declared
    BY <1>1, <1>3, <1>4 DEF Doc
  <2>2. ASSUME NEW d \in Client
        PROVE  /\ pc'[d] \in States /\ clientId'[d] \in -1 .. nextClientId' - 1
               /\ docNum'[d] \in Doc \union {0}
               /\ pc'[d] = "update" => /\ docNum'[d] \in Doc /\ sender[docNum'[d]] = d
                                      /\ DOMAIN left'[d] \subseteq DOMAIN declared[docNum'[d]]
               /\ at'[d] \in 1 .. Len(terms'[d]) + 1
               /\ DOMAIN docScores'[d] \subseteq Doc
               /\ pc'[d] = "dead" => ~stub'[d]
    <3>1. /\ pc[d] \in States /\ clientId[d] \in -1 .. nextClientId - 1
          /\ docNum[d] \in Doc \union {0}
          /\ pc[d] = "update" => /\ docNum[d] \in Doc /\ sender[docNum[d]] = d
                                 /\ DOMAIN left[d] \subseteq DOMAIN declared[docNum[d]]
          /\ at[d] \in 1 .. Len(terms[d]) + 1
          /\ DOMAIN docScores[d] \subseteq Doc
          /\ pc[d] = "dead" => ~stub[d]
          /\ nextClientId \in Nat /\ nextClientId > 0
      BY DEF TypeOK, Types, States
    <3>2. /\ DOMAIN pc = Client /\ DOMAIN clientId = Client /\ DOMAIN docNum = Client
          /\ DOMAIN stub = Client /\ DOMAIN at = Client /\ DOMAIN terms = Client
          /\ DOMAIN docScores = Client
      BY DEF Types
    <3> HIDE DEF IInv
    <3>3. CASE d = c
      BY <1>1, <1>3, <1>4, <3>1, <3>2, <3>3 DEF States
    <3>4. CASE d # c
      BY <1>1, <1>3, <1>4, <3>1, <3>2, <3>4 DEF States
    <3>5. QED
      BY <3>3, <3>4
  <2>3. /\ main' \in {"initialize", "shell", "shutdown", "join", "exited", "crashed"}
        /\ serverThread' \in {"none", "build", "assign", "wait", "done"}
        /\ {server, listening, stopped}' \subseteq BOOLEAN
        /\ documents' \in Seq([owner : Int, rel : Nat])
        /\ termInvertedIndex' \in [Word -> Seq([doc : Doc, freq : Nat])]
        /\ DOMAIN sender = Doc /\ DOMAIN declared = Doc
    BY <1>1, <1>3, <1>4 DEF TypeOK
  <2>4. nextClientId' \in Nat
    BY <1>1, <1>3, <1>4 DEF TypeOK
  <2>5. acked' \subseteq Doc
    BY <1>1, <1>3, <1>4 DEF TypeOK
  <2>6. QED
    BY <2>1, <2>2, <2>3, <2>4, <2>5 DEF TypeOK, States
<1>6. Types'
  BY <1>1, <1>2, <1>3, <1>4 DEF Types, States
<1>7. Owners'
  BY <1>1, <1>2, <1>3, <1>4 DEF Owners, Types, Doc
<1>8. OwnersDistinct'
  BY <1>1, <1>2, <1>3, <1>4 DEF OwnersDistinct, Doc
<1>9. LeftExact'
  BY <1>1, <1>2, <1>3, <1>4 DEF LeftExact, Has, Types
<1>10. PostingsFaithful'
  BY <1>1, <1>2, <1>3, <1>4 DEF PostingsFaithful
<1>11. AckedIndexed'
  BY <1>1, <1>2, <1>3, <1>4 DEF AckedIndexed, Has
<1>12. QED
  BY <1>5, <1>6, <1>7, <1>8, <1>9, <1>10, <1>11

LEMMA ReplySearchStep == ASSUME IInv, NEW c \in Client, ReplySearch(c) PROVE IInv'
<1> USE DEF IInv
<1>1. /\ pc[c] = "lookup" /\ pc' = [pc EXCEPT ![c] = "shell"]
      /\ terms' = [terms EXCEPT ![c] = <<>>] /\ at' = [at EXCEPT ![c] = 1]
      /\ docScores' = [docScores EXCEPT ![c] = NoScores] /\ DOMAIN NoScores = {}
      /\ UNCHANGED <<main, serverThread, server, listening, stopped,
                     nextClientId, documents, termInvertedIndex, stub,
                     clientId, todo, docNum, left, sender, declared, acked>>
  BY DEF ReplySearch, Goto, NoScores, program, store
<1>2. Len(<<>>) = 0 /\ <<>> \in Seq(Word)
  BY EmptySeq
<1>3. TypeOK'
  <2>1. Doc' = Doc /\ termInvertedIndex' = termInvertedIndex /\ sender' = sender /\ declared' = declared
    BY <1>1, <1>2 DEF Doc
  <2>2. ASSUME NEW d \in Client
        PROVE  /\ pc'[d] \in States /\ clientId'[d] \in -1 .. nextClientId' - 1
               /\ docNum'[d] \in Doc \union {0}
               /\ pc'[d] = "update" => /\ docNum'[d] \in Doc /\ sender[docNum'[d]] = d
                                      /\ DOMAIN left'[d] \subseteq DOMAIN declared[docNum'[d]]
               /\ at'[d] \in 1 .. Len(terms'[d]) + 1
               /\ DOMAIN docScores'[d] \subseteq Doc
               /\ pc'[d] = "dead" => ~stub'[d]
    <3>1. /\ pc[d] \in States /\ clientId[d] \in -1 .. nextClientId - 1
          /\ docNum[d] \in Doc \union {0}
          /\ pc[d] = "update" => /\ docNum[d] \in Doc /\ sender[docNum[d]] = d
                                 /\ DOMAIN left[d] \subseteq DOMAIN declared[docNum[d]]
          /\ at[d] \in 1 .. Len(terms[d]) + 1
          /\ DOMAIN docScores[d] \subseteq Doc
          /\ pc[d] = "dead" => ~stub[d]
          /\ nextClientId \in Nat /\ nextClientId > 0
      BY DEF TypeOK, Types, States
    <3>2. /\ DOMAIN pc = Client /\ DOMAIN clientId = Client /\ DOMAIN docNum = Client
          /\ DOMAIN stub = Client /\ DOMAIN at = Client /\ DOMAIN terms = Client
          /\ DOMAIN docScores = Client
      BY DEF Types
    <3> HIDE DEF IInv
    <3>3. CASE d = c
      BY <1>1, <1>2, <3>1, <3>2, <3>3 DEF States
    <3>4. CASE d # c
      BY <1>1, <1>2, <3>1, <3>2, <3>4 DEF States
    <3>5. QED
      BY <3>3, <3>4
  <2>3. /\ main' \in {"initialize", "shell", "shutdown", "join", "exited", "crashed"}
        /\ serverThread' \in {"none", "build", "assign", "wait", "done"}
        /\ {server, listening, stopped}' \subseteq BOOLEAN
        /\ documents' \in Seq([owner : Int, rel : Nat])
        /\ termInvertedIndex' \in [Word -> Seq([doc : Doc, freq : Nat])]
        /\ DOMAIN sender = Doc /\ DOMAIN declared = Doc
    BY <1>1, <1>2 DEF TypeOK
  <2>4. nextClientId' \in Nat
    BY <1>1, <1>2 DEF TypeOK
  <2>5. acked' \subseteq Doc
    BY <1>1, <1>2 DEF TypeOK
  <2>6. QED
    BY <2>1, <2>2, <2>3, <2>4, <2>5 DEF TypeOK, States
<1>4. Types'
  BY <1>1, <1>2 DEF Types, States
<1>5. Owners'
  BY <1>1, <1>2 DEF Owners, Types, Doc
<1>6. OwnersDistinct'
  BY <1>1, <1>2 DEF OwnersDistinct, Doc
<1>7. LeftExact'
  BY <1>1, <1>2 DEF LeftExact, Has, Types
<1>8. PostingsFaithful'
  BY <1>1, <1>2 DEF PostingsFaithful
<1>9. AckedIndexed'
  BY <1>1, <1>2 DEF AckedIndexed, Has
<1>10. QED
  BY <1>3, <1>4, <1>5, <1>6, <1>7, <1>8, <1>9

LEMMA InitIInv == Init => IInv
<1> SUFFICES ASSUME Init PROVE IInv
  OBVIOUS
<1>1. Doc = {} /\ DOMAIN NoScores = {} /\ DOMAIN <<>> = {} /\ Len(<<>>) = 0
  BY EmptySeq DEF Init, Doc, NoScores
<1>2. TypeOK
  <2>1. documents = <<>> /\ sender = <<>> /\ declared = <<>> /\ acked = {}
    BY DEF Init
  <2>2. documents \in Seq([owner : Int, rel : Nat])
    BY <2>1, EmptySeq
  <2>3. termInvertedIndex \in [Word -> Seq([doc : Doc, freq : Nat])]
    BY EmptySeq DEF Init, EmptyList
  <2>4. ASSUME NEW c \in Client
        PROVE  /\ pc[c] = "shell" /\ clientId[c] = -1 /\ docNum[c] = 0 /\ at[c] = 1
               /\ terms[c] = <<>> /\ docScores[c] = NoScores
    BY DEF Init
  <2>5. -1 \in -1 .. nextClientId - 1 /\ nextClientId \in Nat
    BY DEF Init
  <2>6. /\ main = "initialize" /\ serverThread = "none"
        /\ {server, listening, stopped} \subseteq BOOLEAN
    BY DEF Init
  <2>7. 1 \in 1 .. 0 + 1
    OBVIOUS
  <2>8. QED
    BY <1>1, <2>1, <2>2, <2>3, <2>4, <2>5, <2>6, <2>7 DEF TypeOK
<1>3. NoScores \in Counts
  <2>1. NoScores \in [{} -> Nat]
    BY DEF NoScores
  <2>2. QED
    BY <2>1 DEF Counts
<1>4. Types
  BY <1>3, EmptySeq DEF Init, Types, States
<1>5. Owners /\ OwnersDistinct
  BY <1>1 DEF Init, Owners, OwnersDistinct
<1>6. LeftExact /\ PostingsFaithful /\ AckedIndexed
  BY <1>1 DEF Init, LeftExact, PostingsFaithful, AckedIndexed, EmptyList
<1>7. QED
  BY <1>2, <1>4, <1>5, <1>6 DEF IInv

LEMMA StutterStep == ASSUME IInv, UNCHANGED vars PROVE IInv'
<1> USE DEF IInv
<1>1. UNCHANGED <<main, serverThread, server, listening, stopped, nextClientId, documents,
                  termInvertedIndex, pc, stub, clientId, todo, terms, docNum, left, at,
                  docScores, sender, declared, acked>>
  BY DEF vars, program, store, engine, handler, history
<1>2. TypeOK'
  BY <1>1 DEF TypeOK, Doc
<1>3. Types' /\ Owners' /\ OwnersDistinct'
  BY <1>1 DEF Types, Owners, OwnersDistinct, Doc
<1>4. LeftExact' /\ PostingsFaithful' /\ AckedIndexed'
  BY <1>1 DEF LeftExact, PostingsFaithful, AckedIndexed, Has
<1>5. QED
  BY <1>2, <1>3, <1>4

LEMMA NextIInv == IInv /\ [Next]_vars => IInv'
<1> SUFFICES ASSUME IInv, [Next]_vars PROVE IInv'
  OBVIOUS
<1>1. CASE Program
  BY <1>1, ProgramStep
<1>2. ASSUME NEW c \in Client, Connect(c) \/ Index(c) \/ File(c) \/ Search(c) PROVE IInv'
  BY <1>2, ConnectStep, IndexStep, FileStep, SearchStep
<1>3. ASSUME NEW c \in Client, Handle(c) PROVE IInv'
  BY <1>3, RegisterStep, PutStep, UpdateIndexStep, ReplyIndexStep, LookupIndexStep,
     ReplySearchStep DEF Handle
<1>4. CASE UNCHANGED vars
  BY <1>4, StutterStep
<1>5. QED
  BY <1>1, <1>2, <1>3, <1>4 DEF Next

\* The inductive invariant: types, whose an id is, and which words of a document
\* that is being indexed are still to come.
THEOREM Invariance == Spec => []IInv
<1>1. QED
  BY InitIInv, NextIInv, PTL DEF Spec

\* Whatever clients call at the same time, a posting names a document the store has
\* numbered, and a client stops only where its stub is null.
THEOREM TypeCorrect == Spec => []TypeOK
<1>1. IInv => TypeOK
  BY DEF IInv
<1>2. QED
  BY <1>1, Invariance, PTL

\* The owner in a path tells the clients apart: nextClientId gives no id twice
\* (FileRetrievalEngineImpl.cpp:13), though a client may register again and again.
THEOREM Owner == Spec => []OwnersDistinct
<1>1. IInv => OwnersDistinct
  BY DEF IInv
<1>2. QED
  BY <1>1, Invariance, PTL

\* A posting carries the count its document was sent with, and a document has one
\* posting per word, though every handler adds to the one index.
THEOREM Faithful == Spec => []PostingsFaithful
<1>1. IInv => PostingsFaithful
  BY DEF IInv
<1>2. QED
  BY <1>1, Invariance, PTL

\* The reply of ComputeIndex means indexed: no word of the document is missing.
THEOREM Acknowledged == Spec => []AckedIndexed
<1>1. IInv => AckedIndexed
  BY DEF IInv
<1>2. QED
  BY <1>1, Invariance, PTL
-----------------------------------------------------------------------------
(* What a search finds, and what the shell lists.                            *)

\* Induction on the natural numbers, for a set that holds 0 and every successor: the
\* numbers outside of it have no least one.
LEMMA SetInduction ==
  ASSUME NEW S, 0 \in S, \A n \in Nat : n \in S => n + 1 \in S
  PROVE  \A n \in Nat : n \in S
<1> DEFINE T == Nat \ S
           R == OpToRel(<, Nat)
<1>1. IsWellFoundedOn(R, Nat)
  BY NatLessThanWellFounded
<1>2. \A m, n \in Nat : m < n => <<m, n>> \in R
  BY DEF OpToRel
<1> SUFFICES ASSUME T # {} PROVE FALSE
  OBVIOUS
<1> HIDE DEF R
<1>3. PICK n \in T : \A m \in T : <<m, n>> \notin R
  BY <1>1, WFMin
<1>4. n - 1 \in Nat /\ n - 1 < n
  BY <1>3
<1>5. n - 1 \in S
  BY <1>2, <1>3, <1>4
<1> QED
  BY <1>3, <1>4, <1>5

\* The sums of the frequencies of the first terms, which Combined is the last of.
Sums(counts, q) ==
  CHOOSE sum : sum = [i \in 0 .. Len(q) |->
                        IF i = 0 THEN 0 ELSE sum[i - 1] + counts[q[i]]]

\* Each sum adds the count of one more term.
LEMMA SumsRecursion ==
  ASSUME NEW counts, NEW q, Len(q) \in Nat
  PROVE  /\ Sums(counts, q)[0] = 0
         /\ \A i \in 1 .. Len(q) : Sums(counts, q)[i] = Sums(counts, q)[i - 1] + counts[q[i]]
<1> DEFINE Good(f, m) == \A i \in 0 .. m : f[i] = IF i = 0 THEN 0 ELSE f[i - 1] + counts[q[i]]
           S == {m \in Nat : \E f : Good(f, m)}
<1>1. 0 \in S
  <2>1. Good([i \in 0 .. 0 |-> 0], 0)
    OBVIOUS
  <2> QED
    BY <2>1
<1>2. ASSUME NEW m \in Nat, m \in S
      PROVE  m + 1 \in S
  <2>1. PICK f : Good(f, m)
    BY <1>2
  <2> DEFINE g == [i \in 0 .. m + 1 |-> IF i <= m THEN f[i] ELSE f[m] + counts[q[m + 1]]]
  <2>2. ASSUME NEW i \in 0 .. m + 1
        PROVE  g[i] = IF i = 0 THEN 0 ELSE g[i - 1] + counts[q[i]]
    <3>1. CASE i = 0
      BY <2>1, <3>1
    <3>2. CASE i \in 1 .. m
      <4>1. g[i] = f[i] /\ g[i - 1] = f[i - 1]
        BY <3>2
      <4>2. f[i] = f[i - 1] + counts[q[i]]
        BY <2>1, <3>2
      <4> QED
        BY <3>2, <4>1, <4>2
    <3>3. CASE i = m + 1
      BY <3>3
    <3> QED
      BY <3>1, <3>2, <3>3
  <2>3. Good(g, m + 1)
    BY <2>2
  <2> HIDE DEF g
  <2> QED
    BY <2>3
<1> HIDE DEF S
<1>3. Len(q) \in S
  BY <1>1, <1>2, SetInduction
<1> DEFINE sum == Sums(counts, q)
<1>4. sum = [i \in 0 .. Len(q) |-> IF i = 0 THEN 0 ELSE sum[i - 1] + counts[q[i]]]
  <2>1. PICK f : Good(f, Len(q))
    BY <1>3 DEF S
  <2> DEFINE g == [i \in 0 .. Len(q) |-> f[i]]
  <2>2. g = [i \in 0 .. Len(q) |-> IF i = 0 THEN 0 ELSE g[i - 1] + counts[q[i]]]
    BY <2>1
  <2> HIDE DEF g
  <2> QED
    BY <2>2 DEF Sums
<1> HIDE DEF sum
<1>5. \A i \in 0 .. Len(q) : sum[i] = IF i = 0 THEN 0 ELSE sum[i - 1] + counts[q[i]]
  BY <1>4
<1>6. /\ sum[0] = 0
      /\ \A i \in 1 .. Len(q) : sum[i] = sum[i - 1] + counts[q[i]]
  BY <1>5
<1> QED
  BY <1>6 DEF sum

\* A sequence that has every element of a finite set once.
LEMMA OrderIsBijection ==
  ASSUME NEW S, IsFiniteSet(S), NEW s \in Orders(S)
  PROVE  /\ Cardinality(S) \in Nat
         /\ s \in [1 .. Cardinality(S) -> S] /\ Len(s) = Cardinality(S)
         /\ \A i, j \in 1 .. Cardinality(S) : s[i] = s[j] => i = j
         /\ \A x \in S : \E i \in 1 .. Cardinality(S) : s[i] = x
<1> DEFINE n == Cardinality(S)
<1>1. n \in Nat
  BY FS_CardinalityType
<1>2. s \in [1 .. n -> S] /\ \A i, j \in 1 .. n : s[i] = s[j] => i = j
  BY DEF Orders
<1>3. Len(s) = n
  BY <1>1, <1>2
<1>4. s \in Injection(1 .. n, S)
  BY <1>2 DEF Injection, IsInjective
<1>5. IsFiniteSet(1 .. n) /\ Cardinality(1 .. n) = n
  BY <1>1, FS_Interval
<1>6. s \in Surjection(1 .. n, S)
  BY <1>4, <1>5, FS_Injection
<1> QED
  BY <1>1, <1>2, <1>3, <1>6 DEF Surjection

\* A set that a function numbers injectively has as many elements as its domain.
LEMMA ImageCardinality ==
  ASSUME NEW S, IsFiniteSet(S), NEW f, NEW T,
         f \in [S -> T], \A x, y \in S : f[x] = f[y] => x = y, \A y \in T : \E x \in S : f[x] = y
  PROVE  IsFiniteSet(T) /\ Cardinality(T) = Cardinality(S)
<1>1. f \in Bijection(S, T)
  BY DEF Bijection, Injection, Surjection, IsInjective
<1>2. ExistsBijection(S, T)
  BY <1>1 DEF ExistsBijection
<1> QED
  BY <1>2, FS_Bijection

\* The values of a function on a finite set are finitely many.
LEMMA ImageFinite ==
  ASSUME NEW S, IsFiniteSet(S), NEW f, DOMAIN f = S
  PROVE  IsFiniteSet({f[x] : x \in S})
<1> DEFINE g == [x \in S |-> f[x]]
<1>1. g \in Surjection(S, {f[x] : x \in S})
  BY DEF Surjection
<1> QED
  BY <1>1, FS_Surjection

\* What a search in progress has found: every document that was acknowledged before it
\* began and has its terms, and of each document found the sum of the counts it was sent with.
Searching(c) ==
  pc[c] = "lookup" =>
    /\ terms[c] \in Query
    /\ known[c] \subseteq acked
    /\ at[c] > 1 =>
         /\ \A e \in known[c] : Matches(e, terms[c]) => e \in DOMAIN docScores[c]
         /\ \A d \in DOMAIN docScores[c] :
              /\ \A i \in 1 .. at[c] - 1 : terms[c][i] \in DOMAIN declared[d]
              /\ docScores[c][d] = Sums(declared[d], terms[c])[at[c] - 1]

SearchInv == DOMAIN known = Client /\ DOMAIN shown = Client /\ \A c \in Client : Searching(c)

\* A query is a sequence of words, and not empty.
LEMMA QueryType ==
  ASSUME NEW q \in Query
  PROVE  /\ Len(q) \in Nat \ {0} /\ DOMAIN q = 1 .. Len(q)
         /\ \A i \in 1 .. Len(q) : q[i] \in Word
<1>1. q \in Seq(Word) /\ q # <<>>
  BY QueryAssumption
<1> QED
  BY <1>1, LenProperties, ElementOfSeq, EmptySeq

\* Nobody searches at first.
LEMMA SearchInitially == Init => SearchInv
BY DEF Init, SearchInv, Searching

\* The step of another client, or of this one before it searches, leaves a search as it was:
\* the documents it has found are declared already.
LEMMA SearchKept ==
  ASSUME IInv, NEW c \in Client, Searching(c),
         pc'[c] = "lookup" => pc[c] = "lookup",
         terms'[c] = terms[c], at'[c] = at[c], docScores'[c] = docScores[c], known'[c] = known[c],
         acked \subseteq acked', \A d \in Doc : declared'[d] = declared[d]
  PROVE  Searching(c)'
<1> SUFFICES ASSUME pc'[c] = "lookup" PROVE Searching(c)'
  BY DEF Searching
<1>1. pc[c] = "lookup"
  OBVIOUS
<1>2. DOMAIN docScores[c] \subseteq Doc /\ acked \subseteq Doc
  BY DEF IInv, TypeOK
<1>3. \A e \in known[c] : declared'[e] = declared[e]
  BY <1>1, <1>2 DEF Searching
<1>4. \A e \in known'[c] : Matches(e, terms[c])' => Matches(e, terms[c])
  BY <1>3 DEF Matches
<1>5. \A d \in DOMAIN docScores[c] : declared'[d] = declared[d]
  BY <1>2
<1> QED
  BY <1>1, <1>4, <1>5 DEF Searching

\* What the first postings of a term give: the documents that have one, and their counts.
LEMMA FirstScoresExact ==
  ASSUME IInv, NEW k \in Word
  PROVE  /\ \A d : d \in DOMAIN FirstScores(termInvertedIndex[k]) <=> Has(k, d)
         /\ \A d \in DOMAIN FirstScores(termInvertedIndex[k]) :
              /\ k \in DOMAIN declared[d]
              /\ FirstScores(termInvertedIndex[k])[d] = declared[d][k]
<1> DEFINE list == termInvertedIndex[k]
<1>1. \A i, j \in DOMAIN list : list[i].doc = list[j].doc => i = j
  BY DEF IInv, PostingsFaithful
<1>2. \A i \in DOMAIN list : k \in DOMAIN declared[list[i].doc] /\ list[i].freq = declared[list[i].doc][k]
  BY DEF IInv, PostingsFaithful
<1>3. DOMAIN list \subseteq Nat
  BY IndexType DEF IInv
<1> HIDE DEF list
<1>4. \A d : d \in DOMAIN FirstScores(list) <=> \E i \in DOMAIN list : list[i].doc = d
  BY DEF FirstScores
<1>5. ASSUME NEW d \in DOMAIN FirstScores(list)
      PROVE  k \in DOMAIN declared[d] /\ FirstScores(list)[d] = declared[d][k]
  <2>1. PICK i \in DOMAIN list : list[i].doc = d
    BY <1>4
  <2>2. {j \in DOMAIN list : list[j].doc = d} = {i}
    BY <1>1, <2>1
  <2>3. i >= i
    BY <1>3
  <2>4. Max({i}) = i
    BY <2>3 DEF Max
  <2>5. FirstScores(list)[d] = list[i].freq
    BY <2>2, <2>4 DEF FirstScores
  <2> QED
    BY <1>2, <2>1, <2>5
<1> QED
  BY <1>4, <1>5 DEF list, Has

\* One more term: what remains has it too, and no acknowledged document that has all the
\* terms is lost.
LEMMA LookupSearch ==
  ASSUME IInv, SearchInv, NEW c \in Client, LookupIndex(c)
  PROVE  Searching(c)'
<1> DEFINE q == terms[c]
           n == at[c]
           list == termInvertedIndex[q[n]]
           scores == IF n = 1 THEN FirstScores(list) ELSE NextScores(docScores[c], list)
           m == IF DOMAIN scores = {} THEN Len(q) + 1 ELSE n + 1
<1>1. /\ pc[c] = "lookup" /\ n <= Len(q)
      /\ docScores' = [docScores EXCEPT ![c] = scores]
      /\ at' = [at EXCEPT ![c] = m]
      /\ UNCHANGED <<pc, terms, known, acked, declared>>
  BY DEF LookupIndex, engine, history
<1>2. q \in Query /\ known[c] \subseteq acked
  BY <1>1 DEF SearchInv, Searching
<1>3. n \in Nat /\ n > 0 /\ Len(q) \in Nat /\ DOMAIN q = 1 .. Len(q) /\ n \in 1 .. Len(q) /\ q[n] \in Word
  <2>1. n \in Nat /\ n > 0
    BY DEF IInv, Types
  <2> QED
    BY <1>1, <1>2, <2>1, QueryType
<1>4. /\ docScores'[c] = scores /\ at'[c] = m
  BY <1>1 DEF IInv, Types
<1>5. /\ \A d : d \in DOMAIN FirstScores(list) <=> Has(q[n], d)
      /\ \A d \in DOMAIN FirstScores(list) :
           q[n] \in DOMAIN declared[d] /\ FirstScores(list)[d] = declared[d][q[n]]
  BY <1>3, FirstScoresExact
<1>6. n > 1 => /\ \A e \in known[c] : Matches(e, q) => e \in DOMAIN docScores[c]
               /\ \A d \in DOMAIN docScores[c] :
                    /\ \A i \in 1 .. n - 1 : q[i] \in DOMAIN declared[d]
                    /\ docScores[c][d] = Sums(declared[d], q)[n - 1]
  BY <1>1 DEF SearchInv, Searching
<1>7. \A e \in known[c] : Matches(e, q) => Has(q[n], e)
  <2> TAKE e \in known[c]
  <2> HAVE Matches(e, q)
  <2>1. e \in acked /\ q[n] \in DOMAIN declared[e]
    BY <1>2, <1>3 DEF Matches
  <2> QED
    BY <2>1 DEF IInv, AckedIndexed
<1> HIDE DEF list
<1>8. \A d \in DOMAIN scores :
        /\ d \in DOMAIN FirstScores(list)
        /\ n > 1 => d \in DOMAIN docScores[c]
        /\ scores[d] = (IF n = 1 THEN 0 ELSE docScores[c][d]) + FirstScores(list)[d]
  <2>1. CASE n = 1
    <3>1. ASSUME NEW d \in DOMAIN FirstScores(list) PROVE FirstScores(list)[d] \in Nat
      <4>1. Has(q[n], d) /\ FirstScores(list)[d] = declared[d][q[n]] /\ q[n] \in DOMAIN declared[d]
        BY <1>5, <3>1
      <4>2. d \in Doc
        BY <1>3, <4>1, IndexType DEF Has, IInv
      <4>3. declared[d] \in Counts
        BY <4>2, DeclaredType DEF IInv
      <4> QED
        BY <4>1, <4>3 DEF Counts
    <3> QED
      BY <2>1, <3>1
  <2>2. CASE n # 1
    BY <2>2 DEF NextScores
  <2> QED
    BY <2>1, <2>2
<1>9. \A e \in known[c] : Matches(e, q) => e \in DOMAIN scores
  <2> TAKE e \in known[c]
  <2> HAVE Matches(e, q)
  <2>1. e \in DOMAIN FirstScores(list)
    BY <1>5, <1>7
  <2>2. CASE n = 1
    BY <2>1, <2>2
  <2>3. CASE n # 1
    <3>1. e \in DOMAIN docScores[c]
      BY <1>3, <1>6, <2>3
    <3> QED
      BY <2>1, <2>3, <3>1 DEF NextScores
  <2> QED
    BY <2>2, <2>3
<1>10. ASSUME NEW d \in DOMAIN scores
       PROVE  /\ \A i \in 1 .. n : q[i] \in DOMAIN declared[d]
              /\ scores[d] = Sums(declared[d], q)[n]
  <2>1. q[n] \in DOMAIN declared[d] /\ FirstScores(list)[d] = declared[d][q[n]]
    BY <1>5, <1>8
  <2>2. /\ Sums(declared[d], q)[0] = 0
        /\ Sums(declared[d], q)[n] = Sums(declared[d], q)[n - 1] + declared[d][q[n]]
    BY <1>3, SumsRecursion
  <2>3. CASE n = 1
    <3>1. scores[d] = 0 + declared[d][q[n]]
      BY <1>8, <2>1, <2>3
    <3> QED
      BY <2>1, <2>2, <2>3, <3>1
  <2>4. CASE n # 1
    <3>1. n > 1
      BY <1>3, <2>4
    <3>2. d \in DOMAIN docScores[c]
      BY <1>8, <3>1
    <3>3. /\ \A i \in 1 .. n - 1 : q[i] \in DOMAIN declared[d]
          /\ docScores[c][d] = Sums(declared[d], q)[n - 1]
      BY <1>6, <3>1, <3>2
    <3>4. scores[d] = docScores[c][d] + declared[d][q[n]]
      BY <1>8, <2>1, <2>4
    <3>5. \A i \in 1 .. n : i = n \/ i \in 1 .. n - 1
      BY <1>3
    <3> QED
      BY <2>1, <2>2, <3>3, <3>4, <3>5
  <2> QED
    BY <2>3, <2>4
<1>11. \A d \in DOMAIN scores : m = n + 1 /\ m - 1 = n
  BY <1>3
<1> HIDE DEF scores, m
<1>12. \A d \in DOMAIN docScores'[c] :
         /\ \A i \in 1 .. at'[c] - 1 : terms'[c][i] \in DOMAIN declared'[d]
         /\ docScores'[c][d] = Sums(declared'[d], terms'[c])[at'[c] - 1]
  BY <1>1, <1>4, <1>10, <1>11
<1>13. terms'[c] \in Query /\ known'[c] \subseteq acked'
  BY <1>1, <1>2
<1>14. \A e \in known'[c] : Matches(e, terms[c])' => e \in DOMAIN docScores'[c]
  BY <1>1, <1>4, <1>9 DEF Matches
<1> QED
  BY <1>12, <1>13, <1>14 DEF Searching

\* A search begins with what has been acknowledged, and has looked nothing up.
LEMMA SearchBegins ==
  ASSUME IInv, SearchInv, NEW c \in Client, Search(c), pc[c] # "lookup", pc'[c] = "lookup"
  PROVE  Searching(c)'
<1>1. PICK q \in Query : /\ terms' = [terms EXCEPT ![c] = q]
                         /\ known' = [known EXCEPT ![c] = acked]
  BY DEF Search, Goto, IInv, Types
<1>2. UNCHANGED <<at, acked, declared>>
  BY DEF Search, handler
<1>3. at[c] = 1
  BY DEF IInv, Types
<1>4. terms'[c] = q /\ known'[c] = acked
  BY <1>1 DEF IInv, Types, SearchInv
<1> QED
  BY <1>2, <1>3, <1>4 DEF Searching

\* A step of one client leaves the others' variables alone.
LEMMA SearchPreserved == IInv /\ SearchInv /\ [Next]_vars => SearchInv'
<1> SUFFICES ASSUME IInv, SearchInv, [Next]_vars PROVE SearchInv'
  OBVIOUS
<1> DEFINE Kept(c) ==
     /\ pc'[c] = "lookup" => pc[c] = "lookup"
     /\ terms'[c] = terms[c] /\ at'[c] = at[c] /\ docScores'[c] = docScores[c] /\ known'[c] = known[c]
<1>1. DOMAIN known' = Client /\ DOMAIN shown' = Client
  <2>1. DOMAIN known = Client /\ DOMAIN shown = Client
    BY DEF SearchInv
  <2> QED
    BY <2>1 DEF Next, vars, history, Program, Connect, Index, File, Search, Handle, Register,
                Put, UpdateIndex, ReplyIndex, LookupIndex, ReplySearch
<1>2. acked \subseteq acked'
  BY DEF Next, vars, history, Program, Connect, Index, File, Search, Handle, Register,
         Put, UpdateIndex, ReplyIndex, LookupIndex, ReplySearch
<1>3. \A d \in Doc : declared'[d] = declared[d]
  <2>1. CASE UNCHANGED declared
    BY <2>1
  <2>2. ASSUME NEW c \in Client, Put(c) PROVE \A d \in Doc : declared'[d] = declared[d]
    <3>1. declared \in Seq(Counts) /\ DOMAIN declared = Doc
      BY DEF IInv, TypeOK, Types
    <3>2. declared' = Append(declared, Head(todo[c]).counts)
      BY <2>2 DEF Put
    <3>3. DOMAIN declared = 1 .. Len(declared) /\ Len(declared) \in Nat
      BY <3>1, LenProperties
    <3> DEFINE D == Counts \union {Head(todo[c]).counts}
    <3>4. declared \in Seq(D) /\ Head(todo[c]).counts \in D
      BY <3>1
    <3> HIDE DEF D
    <3> QED
      BY <3>1, <3>2, <3>3, <3>4, AppendProperties
  <2>3. UNCHANGED declared \/ \E c \in Client : Put(c)
    BY DEF Next, vars, history, Program, Connect, Index, File, Search, Handle, Register,
           UpdateIndex, ReplyIndex, LookupIndex, ReplySearch
  <2> QED
    BY <2>1, <2>2, <2>3
<1>4. ASSUME NEW c \in Client, Kept(c) PROVE Searching(c)'
  BY <1>2, <1>3, <1>4, SearchKept DEF SearchInv
<1>5. /\ pc \in [Client -> States] /\ DOMAIN terms = Client /\ DOMAIN at = Client
      /\ DOMAIN docScores = Client /\ DOMAIN known = Client
  BY DEF IInv, Types, SearchInv
<1>6. ASSUME NEW c \in Client, NEW d \in Client, d # c, Connect(c) \/ Index(c) \/ File(c) \/ Search(c) \/ Handle(c)
      PROVE  Kept(d)
  <2>1. CASE Connect(c) \/ Index(c)
    BY <1>5, <1>6, <2>1 DEF Connect, Index, Files, Goto, handler, history
  <2>2. CASE File(c)
    BY <1>5, <1>6, <2>2 DEF File, Files, Goto, handler, history
  <2>3. CASE Search(c)
    BY <1>5, <1>6, <2>3 DEF Search, Goto, handler
  <2>4. CASE Register(c) \/ Put(c)
    BY <1>5, <1>6, <2>4 DEF Register, Put, Goto, handler, history, engine
  <2>5. CASE UpdateIndex(c) \/ ReplyIndex(c)
    BY <1>5, <1>6, <2>5 DEF UpdateIndex, ReplyIndex, Files, Goto, handler, history, engine
  <2>6. CASE LookupIndex(c)
    BY <1>5, <1>6, <2>6 DEF LookupIndex, history, engine
  <2>7. CASE ReplySearch(c)
    BY <1>5, <1>6, <2>7 DEF ReplySearch, Goto
  <2> QED
    BY <1>6, <2>1, <2>2, <2>3, <2>4, <2>5, <2>6, <2>7 DEF Handle
<1>7. ASSUME NEW c \in Client, Connect(c) \/ Index(c) \/ File(c) \/ Search(c) \/ Handle(c)
      PROVE  Searching(c)'
  <2>1. CASE Connect(c) \/ Index(c)
    BY <1>4, <1>5, <2>1 DEF Connect, Index, Files, Goto, handler, history
  <2>2. CASE File(c)
    BY <1>4, <1>5, <2>2 DEF File, Files, Goto, handler, history
  <2>3. CASE Search(c)
    <3>1. pc[c] # "lookup"
      BY <2>3 DEF Search, Command
    <3>2. CASE pc'[c] = "lookup"
      BY <2>3, <3>1, <3>2, SearchBegins
    <3> QED
      BY <3>2 DEF Searching
  <2>4. CASE Register(c) \/ Put(c)
    BY <1>4, <1>5, <2>4 DEF Register, Put, Goto, handler, history, engine
  <2>5. CASE UpdateIndex(c) \/ ReplyIndex(c)
    BY <1>4, <1>5, <2>5 DEF UpdateIndex, ReplyIndex, Files, Goto, handler, history, engine
  <2>6. CASE LookupIndex(c)
    BY <2>6, LookupSearch
  <2>7. CASE ReplySearch(c)
    BY <1>5, <2>7 DEF ReplySearch, Goto, Searching
  <2> QED
    BY <1>7, <2>1, <2>2, <2>3, <2>4, <2>5, <2>6, <2>7 DEF Handle
<1>8. CASE Program
  BY <1>1, <1>4, <1>8 DEF Program, engine, handler, history, SearchInv
<1>9. CASE UNCHANGED vars
  BY <1>1, <1>4, <1>9 DEF vars, engine, handler, history, SearchInv
<1>10. ASSUME NEW c \in Client, Connect(c) \/ Index(c) \/ File(c) \/ Search(c) \/ Handle(c)
       PROVE  SearchInv'
  <2>1. ASSUME NEW d \in Client, d # c PROVE Searching(d)'
    BY <1>4, <1>6, <1>10, <2>1
  <2>2. Searching(c)'
    BY <1>7, <1>10
  <2>3. \A d \in Client : Searching(d)'
    BY <2>1, <2>2
  <2> QED
    BY <1>1, <2>3 DEF SearchInv
<1> QED
  BY <1>8, <1>9, <1>10 DEF Next

\* A set of numbers up to n that is not empty has a greatest.
LEMMA TopOf ==
  ASSUME NEW n \in Nat, NEW E, E \subseteq 1 .. n, E # {}
  PROVE  \E x \in E : \A y \in E : x >= y
<1> DEFINE T == {m \in Nat : m <= n => \A F \in SUBSET (1 .. m) :
                  F # {} => \E x \in F : \A y \in F : x >= y}
<1>1. 0 \in T
  <2>1. 1 .. 0 = {}
    OBVIOUS
  <2> QED
    BY <2>1
<1>2. ASSUME NEW m \in Nat, m \in T PROVE m + 1 \in T
  <2> SUFFICES ASSUME m + 1 <= n, NEW F \in SUBSET (1 .. m + 1), F # {}
               PROVE  \E x \in F : \A y \in F : x >= y
    OBVIOUS
  <2>1. CASE m + 1 \in F
    BY <2>1
  <2>2. CASE m + 1 \notin F
    <3>1. F \in SUBSET (1 .. m)
      BY <2>2
    <3> QED
      BY <1>2, <3>1
  <2> QED
    BY <2>1, <2>2
<1> HIDE DEF T
<1>3. n \in T
  BY <1>1, <1>2, SetInduction
<1> QED
  BY <1>3 DEF T

\* ReplySearch lists each path once, best first, for the newest of its documents found.
LEMMA RepliesListed ==
  ASSUME IInv, SearchInv, NEW c \in Client, ReplySearch(c)
  PROVE  Listing(c)
<1> DEFINE q == terms[c]
           scores == docScores[c]
           D == DOMAIN scores
           paths == {GetDocument(d) : d \in D}
           newest(p) == Max({d \in D : GetDocument(d) = p})
           result(p) == [path |-> p, freq |-> scores[newest(p)]]
           S == {result(p) : p \in paths}
           hits == shown'[c]
           listed == {hits[i].path : i \in DOMAIN hits}
<1>1. PICK s \in Orders(S) :
        Sorted(s) /\ shown' = [shown EXCEPT ![c] = SubSeq(s, 1, Min({shownLimit, Len(s)}))]
  BY DEF ReplySearch, SearchResults
<1>2. /\ pc[c] = "lookup" /\ q \in Query /\ at[c] > Len(q) /\ at[c] \in 1 .. Len(q) + 1
      /\ Len(q) \in Nat \ {0} /\ DOMAIN q = 1 .. Len(q)
  <2>1. pc[c] = "lookup" /\ at[c] > Len(q) /\ at[c] \in 1 .. Len(q) + 1
    BY DEF ReplySearch, IInv, TypeOK
  <2>2. q \in Query
    BY <2>1 DEF SearchInv, Searching
  <2> QED
    BY <2>1, <2>2, QueryType
<1>3. at[c] = Len(q) + 1 /\ at[c] > 1 /\ at[c] - 1 = Len(q)
  BY <1>2
<1>4. /\ known[c] \subseteq acked /\ \A e \in known[c] : Matches(e, q) => e \in D
      /\ \A d \in D : Matches(d, q) /\ scores[d] = Combined(d, q)
  <2>1. /\ known[c] \subseteq acked /\ \A e \in known[c] : Matches(e, q) => e \in D
        /\ \A d \in D :
             /\ \A i \in 1 .. Len(q) : q[i] \in DOMAIN declared[d]
             /\ scores[d] = Sums(declared[d], q)[Len(q)]
    BY <1>2, <1>3 DEF SearchInv, Searching
  <2> QED
    BY <1>2, <2>1 DEF Matches, Combined, Sums
<1>5. D \subseteq Doc /\ Doc = 1 .. Len(documents) /\ Len(documents) \in Nat
  BY DocType DEF IInv, TypeOK
<1>6. /\ \A d \in D : GetDocument(d) = documents[d] /\ documents[d] \in [owner : Int, rel : Nat]
      /\ IsFiniteSet(D)
  <2>1. IsFiniteSet(1 .. Len(documents))
    <3> HIDE DEF D, paths, newest, result, S, hits, listed
    <3> QED
      BY <1>5, FS_Interval
  <2>2. IsFiniteSet(D)
    BY <1>5, <2>1, FS_Subset
  <2>3. \A d \in Doc : documents[d] \in [owner : Int, rel : Nat]
    BY DocType DEF IInv
  <2> QED
    BY <1>5, <2>2, <2>3 DEF GetDocument, Doc
<1>7. \A p \in paths : /\ newest(p) \in D /\ documents[newest(p)] = p
                       /\ \A e \in D : documents[e] = p => e <= newest(p)
  <2> TAKE p \in paths
  <2> DEFINE E == {d \in D : GetDocument(d) = p}
  <2>1. E # {} /\ E \subseteq 1 .. Len(documents)
    BY <1>5
  <2>2. \E x \in E : \A y \in E : x >= y
    BY <1>5, <2>1, TopOf
  <2>3. Max(E) \in E /\ \A y \in E : Max(E) >= y
    BY <2>2 DEF Max
  <2>4. \A e \in D : documents[e] = p => e \in E
    BY <1>6
  <2> QED
    BY <1>5, <1>6, <2>1, <2>3, <2>4
<1>8. \A d \in D : documents[d] \in paths
  BY <1>6
<1>9. paths \subseteq [owner : Int, rel : Nat]
  BY <1>6
<1>10. \A p \in paths : result(p).path = p /\ result(p).freq = scores[newest(p)]
  OBVIOUS
<1>11. IsFiniteSet(paths)
  <2> DEFINE f == [d \in D |-> GetDocument(d)]
  <2>1. DOMAIN f = D /\ paths = {f[d] : d \in D}
    OBVIOUS
  <2> HIDE DEF f, paths
  <2> QED
    BY <1>6, <2>1, ImageFinite
<1> HIDE DEF D, newest, paths, result
<1>12. IsFiniteSet(S)
  <2> DEFINE f == [p \in paths |-> result(p)]
  <2>1. DOMAIN f = paths /\ S = {f[p] : p \in paths}
    OBVIOUS
  <2> HIDE DEF f, S
  <2> QED
    BY <1>11, <2>1, ImageFinite
<1>13. \A r \in S : r.path \in paths /\ r = result(r.path)
  BY <1>10
<1>14. \A p \in paths : result(p) \in S
  OBVIOUS
<1> HIDE DEF S
<1> DEFINE N == Cardinality(S)
           n == Min({shownLimit, N})
<1>15. /\ N \in Nat /\ s \in [1 .. N -> S] /\ Len(s) = N
       /\ \A i, j \in 1 .. N : s[i] = s[j] => i = j
       /\ \A x \in S : \E i \in 1 .. N : s[i] = x
  BY <1>12, OrderIsBijection
<1>16. n \in 0 .. N /\ n \in Nat /\ (n = N \/ n = shownLimit)
  <2>1. shownLimit \in Nat /\ N \in Nat
    BY <1>15, LimitAssumption
  <2> HIDE DEF N
  <2>2. \E x \in {shownLimit, N} : \A y \in {shownLimit, N} : x =< y
    BY <2>1
  <2>3. n \in {shownLimit, N} /\ \A y \in {shownLimit, N} : n =< y
    BY <2>2 DEF Min
  <2> QED
    BY <2>1, <2>3
<1>17. hits = SubSeq(s, 1, n)
  BY <1>1, <1>15 DEF SearchInv
<1> HIDE DEF N, n, hits
<1>18. /\ Len(hits) = n /\ DOMAIN hits = 1 .. n
       /\ \A i \in 1 .. n : hits[i] = s[i] /\ hits[i] \in S /\ i \in 1 .. N
  <2>1. \A i \in 1 .. n : s[i] \in S /\ i \in 1 .. N
    BY <1>15, <1>16
  <2>2. /\ hits \in Seq(S) /\ Len(hits) = n
        /\ \A i \in 1 .. n : hits[i] = s[i]
    BY <1>16, <1>17, <2>1, SubSeqProperties
  <2> QED
    BY <1>16, <2>1, <2>2, LenProperties
<1>19. \A i \in 1 .. n : hits[i].path \in listed
  BY <1>18
<1>20. \A p \in listed : \E i \in 1 .. n : hits[i].path = p
  BY <1>18
<1> HIDE DEF listed
<1>21. Cardinality(listed) = Len(hits)
  <2> DEFINE I == 1 .. n
             f == [i \in I |-> hits[i].path]
  <2>1. \A i, j \in I : f[i] = f[j] => i = j
    BY <1>13, <1>15, <1>18
  <2>2. f \in [I -> listed] /\ \A y \in listed : \E i \in I : f[i] = y
    BY <1>19, <1>20
  <2>3. IsFiniteSet(I) /\ Cardinality(I) = n
    BY <1>16, FS_Interval
  <2> HIDE DEF f, I
  <2>4. Cardinality(listed) = Cardinality(I)
    BY <2>1, <2>2, <2>3, ImageCardinality
  <2> QED
    BY <1>18, <2>3, <2>4
<1>22. DOMAIN s = 1 .. N /\ \A i, j \in 1 .. N : i < j => ~Before(s[j], s[i])
  BY <1>1, <1>15 DEF Sorted
<1>23. \A i, j \in DOMAIN hits : i < j => ~Before(hits[j], hits[i])
  BY <1>18, <1>22
<1>24. \A p \in paths : /\ newest(p) \in Doc /\ Matches(newest(p), q)
                        /\ documents[newest(p)] = p /\ result(p) = Hit(newest(p), q)
  <2> TAKE p \in paths
  <2>1. newest(p) \in D /\ documents[newest(p)] = p
    BY <1>7
  <2>2. newest(p) \in Doc /\ Matches(newest(p), q) /\ scores[newest(p)] = Combined(newest(p), q)
    BY <1>4, <1>5, <2>1
  <2>3. result(p) = [path |-> p, freq |-> scores[newest(p)]]
    BY DEF result
  <2> QED
    BY <2>1, <2>2, <2>3 DEF Hit
<1>25. ASSUME NEW i \in DOMAIN hits
       PROVE  \E d \in Doc :
                /\ Matches(d, q) /\ hits[i] = Hit(d, q)
                /\ \A e \in known[c] : documents[e] = documents[d] /\ e > d => ~Matches(e, q)
  <2> DEFINE p == hits[i].path
  <2>1. p \in paths /\ hits[i] = result(p)
    BY <1>13, <1>18
  <2>2. \A e \in D : documents[e] = p => e <= newest(p)
    BY <1>7, <2>1
  <2>3. ASSUME NEW e \in known[c], documents[e] = p, e > newest(p) PROVE ~Matches(e, q)
    <3> SUFFICES ASSUME Matches(e, q) PROVE FALSE
      OBVIOUS
    <3>1. e \in D /\ e <= newest(p)
      BY <1>4, <2>2, <2>3
    <3>2. e \in Nat /\ newest(p) \in Nat
      BY <1>5, <1>24, <2>1, <3>1
    <3> QED
      BY <2>3, <3>1, <3>2
  <2> QED
    BY <1>24, <2>1, <2>3
<1>26. ASSUME NEW e \in known[c], Matches(e, q), documents[e] \notin listed
       PROVE  /\ Len(hits) = shownLimit
              /\ \E d \in Doc : /\ documents[d] = documents[e] /\ d >= e /\ Matches(d, q)
                               /\ \A i \in DOMAIN hits : ~Before(Hit(d, q), hits[i])
  <2> DEFINE p == documents[e]
             d == newest(p)
  <2>1. e \in D /\ p \in paths
    BY <1>4, <1>8, <1>26
  <2>2. PICK k \in 1 .. N : s[k] = result(p)
    BY <1>14, <1>15, <2>1
  <2>3. s[k].path = p
    BY <1>10, <2>1, <2>2
  <2>4. k \notin 1 .. n
    BY <1>18, <1>19, <1>26, <2>3
  <2>5. n # N
    BY <2>4
  <2>6. Len(hits) = shownLimit
    BY <1>16, <1>18, <2>5
  <2>7. documents[d] = p /\ d \in Doc /\ Matches(d, q) /\ s[k] = Hit(d, q)
    BY <1>24, <2>1, <2>2
  <2>8. d >= e
    <3>1. e <= d /\ e \in Nat /\ d \in Nat
      BY <1>5, <1>7, <2>1, <2>7
    <3> QED
      BY <3>1
  <2>9. \A i \in DOMAIN hits : ~Before(Hit(d, q), hits[i])
    <3> TAKE i \in DOMAIN hits
    <3>1. i \in 1 .. n /\ i \in 1 .. N /\ hits[i] = s[i]
      BY <1>18
    <3>2. i < k
      BY <1>15, <1>16, <2>2, <2>4, <3>1
    <3> QED
      BY <1>22, <2>2, <2>7, <3>1, <3>2
  <2> QED
    BY <2>6, <2>7, <2>8, <2>9
<1> QED
  BY <1>21, <1>23, <1>25, <1>26 DEF Listing, listed, hits

\* A client leaves lookup for the shell when its search has returned, and not otherwise.
LEMMA OnlyReplyEnds ==
  ASSUME IInv, [Next]_vars, NEW c \in Client, pc[c] = "lookup", pc'[c] = "shell"
  PROVE  ReplySearch(c)
<1>1. pc \in [Client -> States]
  BY DEF IInv, Types
<1>2. ~Program /\ ~UNCHANGED vars
  BY DEF Program, vars
<1>3. ASSUME NEW d \in Client, Connect(d) \/ Index(d) \/ Search(d) PROVE FALSE
  BY <1>1, <1>3 DEF Connect, Index, Search, Command, Files, Goto
<1>4. ASSUME NEW d \in Client, File(d) \/ Register(d) \/ Put(d) PROVE FALSE
  BY <1>1, <1>4 DEF File, Register, Put, Files, Goto
<1>5. ASSUME NEW d \in Client, UpdateIndex(d) \/ ReplyIndex(d) \/ LookupIndex(d) PROVE FALSE
  BY <1>1, <1>5 DEF UpdateIndex, ReplyIndex, LookupIndex, Files, Goto
<1>6. ASSUME NEW d \in Client, ReplySearch(d) PROVE d = c
  BY <1>1, <1>6 DEF ReplySearch, Goto
<1> QED
  BY <1>2, <1>3, <1>4, <1>5, <1>6 DEF Next, Handle

\* What the shell lists (FileRetrievalEngineImpl.cpp:71-75): each path once, best first,
\* for the newest of its documents found, and a path that an acknowledged document with
\* all the words has is missing only below shownLimit results that are no worse.
THEOREM Listed == Spec => ListedNewestMatch
<1>1. Spec => []SearchInv
  BY SearchInitially, SearchPreserved, Invariance, PTL DEF Spec
<1>2. ASSUME IInv, SearchInv, [Next]_vars, NEW c \in Client, pc[c] = "lookup", pc'[c] = "shell"
      PROVE  Listing(c)
  BY <1>2, OnlyReplyEnds, RepliesListed
<1> DEFINE Lists == \A c \in Client : pc[c] = "lookup" /\ pc'[c] = "shell" => Listing(c)
<1>3. IInv /\ SearchInv /\ [Next]_vars => [Lists]_vars
  BY <1>2
<1>4. ListedNewestMatch <=> [][Lists]_vars
  BY DEF ListedNewestMatch
<1> QED
  BY <1>1, <1>3, <1>4, Invariance, PTL DEF Spec
=============================================================================
