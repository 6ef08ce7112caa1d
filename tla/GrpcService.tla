------------------------------ MODULE GrpcService ------------------------------
(***************************************************************************)
(* The gRPC stack: the server program from main to its exit, the handlers  *)
(* of FileRetrievalEngineImpl, and the client programs that call them.     *)
(* gRPC itself is external: a call to a server that listens runs a handler *)
(* thread and returns its reply, a call to any other server fails, and     *)
(* Shutdown refuses new calls and waits for the running ones.              *)
(***************************************************************************)
EXTENDS DocFreqList, FiniteSetsExt

CONSTANTS Client, Word,
          Folders,     \* what a client may index: sequences of [rel, readable, counts]
          Query,       \* term vectors clients search for; the shell takes no empty one
          shownLimit,  \* results the shell lists (10)
          MaxCommands  \* bound on the commands of all clients

\* The files of all folders.
Found == UNION {{folder[i] : i \in DOMAIN folder} : folder \in Folders}

ASSUME FoldersAssumption ==
  /\ Folders \subseteq Seq(Found)
  /\ \A file \in Found :
       /\ file.rel \in Nat /\ file.readable \in BOOLEAN
       /\ DOMAIN file.counts \subseteq Word /\ file.counts \in [DOMAIN file.counts -> Nat]

ASSUME QueryAssumption == Query \subseteq Seq(Word) \ {<<>>}

ASSUME LimitAssumption == shownLimit \in Nat

VARIABLES main,          \* where the main thread of the server is
          serverThread,  \* where the thread that runs rungRPCServer is
          server,        \* the pointer server is not null
          listening,     \* new calls are taken
          stopped,       \* Shutdown has returned
          nextClientId, documents, termInvertedIndex,
          pc,            \* where a client, or the handler of its call, is
          stub, clientId, todo, terms,  \* of a client
          docNum, left, at, docScores,  \* of the handler that serves it
          shown,         \* what its shell last listed
          commands,
          sender,        \* document number -> the client that sent it
          declared,      \* document number -> its word counts
          acked,         \* the documents whose client was told "Indexed"
          known          \* client -> the documents acknowledged before its search

program == <<main, serverThread, server, listening, stopped>>
store == <<documents, termInvertedIndex>>
engine == <<stub, clientId, todo, terms>>
handler == <<docNum, left, at, docScores>>
history == <<sender, declared, acked, known>>
vars == <<program, nextClientId, store, pc, engine, handler, shown, commands, history>>

NoScores == [d \in {} |-> 0]

Init == /\ main = "initialize"
        /\ serverThread = "none"
        /\ server = FALSE /\ listening = FALSE /\ stopped = FALSE
        /\ nextClientId = 1
        /\ documents = <<>>
        /\ termInvertedIndex = [k \in Word |-> EmptyList]
        /\ pc = [c \in Client |-> "shell"]
        /\ stub = [c \in Client |-> FALSE]
        /\ clientId = [c \in Client |-> -1]
        /\ todo = [c \in Client |-> <<>>]
        /\ terms = [c \in Client |-> <<>>]
        /\ docNum = [c \in Client |-> 0]
        /\ left = [c \in Client |-> NoScores]
        /\ at = [c \in Client |-> 1]
        /\ docScores = [c \in Client |-> NoScores]
        /\ shown = [c \in Client |-> <<>>]
        /\ commands = 0
        /\ sender = <<>> /\ declared = <<>> /\ acked = {}
        /\ known = [c \in Client |-> {}]
-----------------------------------------------------------------------------
(* The server program.                                                     *)

\* main: initialize starts the server thread, then the shell reads commands.
Initialize == /\ main = "initialize"
              /\ main' = "shell"
              /\ serverThread' = "build"
              /\ UNCHANGED <<server, listening, stopped>>

\* BuildAndStart: from here calls are served, or the port was taken.
Build == /\ serverThread = "build"
         /\ listening' \in BOOLEAN
         /\ serverThread' = "assign"
         /\ UNCHANGED <<main, server, stopped>>

\* server = ...; null when BuildAndStart failed.
Assign == /\ serverThread = "assign"
          /\ server' = listening
          /\ serverThread' = "wait"
          /\ UNCHANGED <<main, listening, stopped>>

\* server->Wait() on a null pointer ends the process.
Crash == /\ serverThread = "wait" /\ ~server
         /\ main' = "crashed"
         /\ serverThread' = "done"
         /\ UNCHANGED <<server, listening, stopped>>

\* server->Wait() returns once Shutdown is complete.
Waited == /\ serverThread = "wait" /\ server /\ stopped
          /\ serverThread' = "done"
          /\ UNCHANGED <<main, server, listening, stopped>>

\* Mutant of Quit: the test is inverted.
QuitInverted == /\ main = "shell"
                /\ \/ ~server /\ main' = "shutdown" /\ listening' = FALSE
                   \/ server /\ main' = "join" /\ UNCHANGED listening
                /\ UNCHANGED <<serverThread, server, stopped>>

\* The command quit: shutdown stops the server if there is one yet.
Quit == /\ main = "shell"
        /\ \/ server /\ main' = "shutdown" /\ listening' = FALSE
           \/ ~server /\ main' = "join" /\ UNCHANGED listening
        /\ UNCHANGED <<serverThread, server, stopped>>

Serving(c) == pc[c] \in {"register", "put", "update", "lookup"}

\* Shutdown returns: every running handler has ended.
Drain == /\ main = "shutdown"
         /\ \A c \in Client : ~Serving(c)
         /\ main' = "join" /\ stopped' = TRUE
         /\ UNCHANGED <<serverThread, server, listening>>

\* serverThread.join(), and main returns.
Join == /\ main = "join" /\ serverThread = "done"
        /\ main' = "exited"
        /\ UNCHANGED <<serverThread, server, listening, stopped>>

Program == /\ main # "crashed"
           /\ Initialize \/ Build \/ Assign \/ Crash \/ Waited \/ Quit \/ Drain \/ Join
           /\ UNCHANGED <<nextClientId, store, pc, engine, handler, shown, commands, history>>
-----------------------------------------------------------------------------
(* The client programs, up to a call and from its return.                  *)

Command(c) == /\ pc[c] = "shell"
              /\ commands < MaxCommands
              /\ commands' = commands + 1

Goto(c, where) == pc' = [pc EXCEPT ![c] = where]

\* connect: a new stub either way; without an answer to Register the id is -1.
Connect(c) ==
  /\ Command(c)
  /\ stub' = [stub EXCEPT ![c] = TRUE]
  /\ \/ /\ listening
        /\ Goto(c, "register")
        /\ UNCHANGED clientId
     \/ /\ ~listening
        /\ clientId' = [clientId EXCEPT ![c] = -1]
        /\ UNCHANGED pc
  /\ UNCHANGED <<program, nextClientId, store, todo, terms, handler, shown, history>>

\* indexFolder has these files left; without any it returns to the shell.
Files(c, rest) == /\ todo' = [todo EXCEPT ![c] = rest]
                  /\ Goto(c, IF rest = <<>> THEN "shell" ELSE "files")

\* index <folder>: the loop over the files of the folder starts.
Index(c) ==
  /\ Command(c)
  /\ \E folder \in Folders : Files(c, folder)
  /\ UNCHANGED <<program, nextClientId, store, stub, clientId, terms, handler, shown, history>>

\* One turn of the loop: a file that cannot be read is skipped; a null stub ends
\* the program; a call that fails is reported, and the loop goes on.
File(c) ==
  /\ pc[c] = "files"
  /\ LET file == Head(todo[c])
         skip == Files(c, Tail(todo[c]))
         call(where) == Goto(c, where) /\ UNCHANGED todo
     IN  \/ ~file.readable /\ skip
         \/ file.readable /\ ~stub[c] /\ call("dead")
         \/ file.readable /\ stub[c] /\ listening /\ call("put")
         \/ file.readable /\ stub[c] /\ ~listening /\ skip
  /\ UNCHANGED <<program, nextClientId, store, stub, clientId, terms, handler, shown, commands, history>>

\* search: a null stub ends the program, a call that fails lists nothing.
Search(c) ==
  /\ Command(c)
  /\ \E q \in Query :
       \/ ~stub[c] /\ Goto(c, "dead") /\ UNCHANGED <<terms, known, shown>>
       \/ /\ stub[c] /\ ~listening
          /\ shown' = [shown EXCEPT ![c] = <<>>]
          /\ UNCHANGED <<pc, terms, known>>
       \/ /\ stub[c] /\ listening
          /\ Goto(c, "lookup")
          /\ terms' = [terms EXCEPT ![c] = q]
          /\ known' = [known EXCEPT ![c] = acked]
          /\ UNCHANGED shown
  /\ UNCHANGED <<program, nextClientId, store, stub, clientId, todo, handler, sender,
                 declared, acked>>
-----------------------------------------------------------------------------
(* The handlers, each on a thread of the gRPC server.                      *)

\* Mutant of Register: every client gets the same id.
RegisterSame(c) ==
  /\ pc[c] = "register"
  /\ clientId' = [clientId EXCEPT ![c] = nextClientId]
  /\ Goto(c, "shell")
  /\ UNCHANGED <<program, nextClientId, store, stub, todo, terms, handler, shown, commands,
                 history>>

Register(c) ==
  /\ pc[c] = "register"
  /\ clientId' = [clientId EXCEPT ![c] = nextClientId]
  /\ nextClientId' = nextClientId + 1
  /\ Goto(c, "shell")
  /\ UNCHANGED <<program, store, stub, todo, terms, handler, shown, commands, history>>

\* putDocument: always a new number, for the path "client<id>:<rel>".
PutDocument(c, path) ==
  /\ documents' = Append(documents, path)
  /\ docNum' = [docNum EXCEPT ![c] = Len(documents')]

GetDocument(d) == IF d \in DOMAIN documents THEN documents[d] ELSE <<>>

\* ComputeIndex up to putDocument.
Put(c) ==
  /\ pc[c] = "put"
  /\ PutDocument(c, [owner |-> clientId[c], rel |-> Head(todo[c]).rel])
  /\ left' = [left EXCEPT ![c] = Head(todo[c]).counts]
  /\ sender' = Append(sender, c)
  /\ declared' = Append(declared, Head(todo[c]).counts)
  /\ Goto(c, "update")
  /\ UNCHANGED <<program, nextClientId, termInvertedIndex, engine, at, docScores, shown,
                 commands, acked, known>>

\* updateIndex: the words are added in any order, by one thread or by eight.
UpdateIndex(c) ==
  /\ pc[c] = "update"
  /\ \E k \in DOMAIN left[c] :
       /\ termInvertedIndex' = [termInvertedIndex EXCEPT ![k] =
                                  AddUnchecked(@, docNum[c], left[c][k])]
       /\ left' = [left EXCEPT ![c] = [j \in DOMAIN @ \ {k} |-> @[j]]]
  /\ UNCHANGED <<program, nextClientId, documents, pc, engine, docNum, at, docScores,
                 shown, commands, history>>

\* ComputeIndex returns, and the client goes on with its next file.
ReplyIndex(c) ==
  /\ pc[c] = "update" /\ left[c] = NoScores
  /\ acked' = acked \union {docNum[c]}
  /\ docNum' = [docNum EXCEPT ![c] = 0]
  /\ Files(c, Tail(todo[c]))
  /\ UNCHANGED <<program, nextClientId, store, stub, clientId, terms, left, at, docScores,
                 shown, commands, sender, declared, known>>

\* docScores[docId] = freq for each posting of the first term: the last one counts.
FirstScores(list) ==
  [d \in {list[i].doc : i \in DOMAIN list} |->
     list[Max({i \in DOMAIN list : list[i].doc = d})].freq]

\* currentScores: the documents so far that have the next term too.
NextScores(scores, list) ==
  LET found == FirstScores(list)
  IN  [d \in DOMAIN scores \intersect DOMAIN found |-> scores[d] + found[d]]

\* Mutant of LookupIndex: without a match the loop does not move on.
LookupIndexStuck(c) ==
  /\ pc[c] = "lookup" /\ at[c] <= Len(terms[c])
  /\ LET list == termInvertedIndex[terms[c][at[c]]]
         scores == IF at[c] = 1 THEN FirstScores(list) ELSE NextScores(docScores[c], list)
     IN  /\ docScores' = [docScores EXCEPT ![c] = scores]
         /\ at' = [at EXCEPT ![c] = IF DOMAIN scores = {} THEN @ ELSE @ + 1]
  /\ UNCHANGED <<program, nextClientId, store, pc, engine, docNum, left, shown, commands,
                 history>>

\* One turn of ComputeSearch's loop over the terms, left when nothing remains.
LookupIndex(c) ==
  /\ pc[c] = "lookup" /\ at[c] <= Len(terms[c])
  /\ LET list == termInvertedIndex[terms[c][at[c]]]
         scores == IF at[c] = 1 THEN FirstScores(list) ELSE NextScores(docScores[c], list)
     IN  /\ docScores' = [docScores EXCEPT ![c] = scores]
         /\ at' = [at EXCEPT ![c] = IF DOMAIN scores = {} THEN Len(terms[c]) + 1 ELSE @ + 1]
  /\ UNCHANGED <<program, nextClientId, store, pc, engine, docNum, left, shown, commands,
                 history>>

\* Mutant of SearchResults: the oldest document of a path is the one reported.
SearchResultsOldest(scores) ==
  LET paths == {GetDocument(d) : d \in DOMAIN scores}
  IN  {[path |-> p, freq |-> scores[Min({d \in DOMAIN scores : GetDocument(d) = p})]] :
         p \in paths}

\* search_results, keyed by path and filled in the order of the document numbers.
SearchResults(scores) ==
  LET paths == {GetDocument(d) : d \in DOMAIN scores}
  IN  {[path |-> p, freq |-> scores[Max({d \in DOMAIN scores : GetDocument(d) = p})]] :
         p \in paths}

\* The text of an id up to the ':' after it: its decimal digits, with the '-' of -1
\* below them and the ':' above, as in ASCII.
Digits[n \in Nat] == IF n < 10 THEN <<n>> ELSE Append(Digits[n \div 10], n % 10)
OwnerText(id) == Append(IF id = -1 THEN <<-1, 1>> ELSE Digits[id], 10)

TextBefore(s, t) ==
  \E i \in DOMAIN s \intersect DOMAIN t :
    s[i] < t[i] /\ \A j \in 1 .. i - 1 : s[j] = t[j]

\* std::string's <: "client-1:" is before "client10:", and that before "client2:".
PathBefore(p, q) == \/ TextBefore(OwnerText(p.owner), OwnerText(q.owner))
                    \/ p.owner = q.owner /\ p.rel < q.rel

\* The order in which the client sorts what the map gave it.
Before(a, b) == \/ a.freq > b.freq
                \/ a.freq = b.freq /\ PathBefore(a.path, b.path)

\* The orders in which the map may give its entries, and what sorting makes of them.
Orders(S) == {s \in [1 .. Cardinality(S) -> S] :
                \A i, j \in DOMAIN s : s[i] = s[j] => i = j}
Sorted(s) == \A i, j \in DOMAIN s : i < j => ~Before(s[j], s[i])

\* ComputeSearch returns; the client sorts, and its shell lists the first.
ReplySearch(c) ==
  /\ pc[c] = "lookup" /\ at[c] > Len(terms[c])
  /\ \E s \in Orders(SearchResults(docScores[c])) :
       /\ Sorted(s)
       /\ shown' = [shown EXCEPT ![c] = SubSeq(s, 1, Min({shownLimit, Len(s)}))]
  /\ terms' = [terms EXCEPT ![c] = <<>>]
  /\ at' = [at EXCEPT ![c] = 1]
  /\ docScores' = [docScores EXCEPT ![c] = NoScores]
  /\ known' = [known EXCEPT ![c] = {}]
  /\ Goto(c, "shell")
  /\ UNCHANGED <<program, nextClientId, store, stub, clientId, todo, docNum, left,
                 commands, sender, declared, acked>>

Handle(c) == \/ Register(c) \/ Put(c) \/ UpdateIndex(c) \/ ReplyIndex(c)
             \/ LookupIndex(c) \/ ReplySearch(c)

Next == \/ Program
        \/ \E c \in Client : Connect(c) \/ Index(c) \/ File(c) \/ Search(c)
                             \/ Handle(c)

Spec == Init /\ [][Next]_vars

\* The server thread, the main thread outside the shell, and the handlers run on.
FairSpec ==
  /\ Spec
  /\ WF_vars(Program /\ serverThread' # serverThread /\ main # "initialize")
  /\ WF_vars(Program /\ main' # main /\ main # "shell")
  /\ \A c \in Client : WF_vars(Handle(c))
-----------------------------------------------------------------------------
Doc == DOMAIN documents

\* Every variable has its type; a handler that updates the index adds words to a
\* document that the store has numbered, and a client that has died had no stub.
TypeOK ==
  /\ main \in {"initialize", "shell", "shutdown", "join", "exited", "crashed"}
  /\ serverThread \in {"none", "build", "assign", "wait", "done"}
  /\ {server, listening, stopped} \subseteq BOOLEAN
  /\ documents \in Seq([owner : Int, rel : Nat])
  /\ termInvertedIndex \in [Word -> Seq([doc : Doc, freq : Nat])]
  /\ nextClientId \in Nat
  /\ \A c \in Client :
       /\ pc[c] \in {"shell", "register", "files", "put", "update", "lookup", "dead"}
       /\ clientId[c] \in -1 .. nextClientId - 1
       /\ docNum[c] \in Doc \union {0}
       /\ pc[c] = "update" => /\ docNum[c] \in Doc
                              /\ sender[docNum[c]] = c
                              /\ DOMAIN left[c] \subseteq DOMAIN declared[docNum[c]]
       /\ at[c] \in 1 .. Len(terms[c]) + 1
       /\ DOMAIN docScores[c] \subseteq Doc
       /\ pc[c] = "dead" => ~stub[c]
  /\ DOMAIN sender = Doc /\ DOMAIN declared = Doc
  /\ acked \subseteq Doc

\* Two clients' documents never share an owner, unless neither had registered
\* (FileRetrievalEngineImpl.cpp:13, ClientProcessingEngine.cpp:31).
OwnersDistinct ==
  \A d, e \in Doc :
    documents[d].owner = documents[e].owner /\ documents[d].owner # -1 =>
      sender[d] = sender[e]

\* A posting is what its document was sent with: concurrent handlers never mix.
PostingsFaithful ==
  \A k \in Word : \A i, j \in DOMAIN termInvertedIndex[k] :
    LET p == termInvertedIndex[k][i]
    IN  /\ p.doc = termInvertedIndex[k][j].doc => i = j
        /\ k \in DOMAIN declared[p.doc] /\ p.freq = declared[p.doc][k]

\* The combined frequency of the terms q in document d.
Combined(d, q) ==
  LET sum[i \in 0 .. Len(q)] ==
        IF i = 0 THEN 0 ELSE sum[i - 1] + declared[d][q[i]]
  IN  sum[Len(q)]

Matches(d, q) == \A i \in DOMAIN q : q[i] \in DOMAIN declared[d]
Hit(d, q) == [path |-> documents[d], freq |-> Combined(d, q)]

\* What a search lists, though every indexing of a file makes a new document: each path
\* once, best first, with the counts of a document that has all the words.  A newer one
\* of the path, acknowledged before the search, then lacks a word (so the listed document
\* may be one that the file has superseded), and a path that such a document with all
\* the words has is missing only if shownLimit results no worse are listed.
Listing(c) ==
  LET q == terms[c]
      hits == shown'[c]
      listed == {hits[i].path : i \in DOMAIN hits}
  IN  /\ Cardinality(listed) = Len(hits)
      /\ \A i, j \in DOMAIN hits : i < j => ~Before(hits[j], hits[i])
      /\ \A i \in DOMAIN hits : \E d \in Doc :
           /\ Matches(d, q) /\ hits[i] = Hit(d, q)
           /\ \A e \in known[c] : documents[e] = documents[d] /\ e > d => ~Matches(e, q)
      /\ \A e \in known[c] : Matches(e, q) /\ documents[e] \notin listed =>
           /\ Len(hits) = shownLimit
           /\ \E d \in Doc : /\ documents[d] = documents[e] /\ d >= e /\ Matches(d, q)
                            /\ \A i \in DOMAIN hits : ~Before(Hit(d, q), hits[i])

\* Every search that returns lists that, whatever is indexed meanwhile
\* (FileRetrievalEngineImpl.cpp:71-75, ClientProcessingEngine.cpp:141-152).
ListedNewestMatch ==
  [][\A c \in Client : pc[c] = "lookup" /\ pc'[c] = "shell" => Listing(c)]_vars

\* quit ends the program, whatever calls are running, except in the window in which
\* the server runs but its pointer is not there yet: then the shell waits for a thread
\* that waits for a Shutdown, and clients are served on (ServerProcessingEngine.cpp:30).
QuitEnds ==
  /\ main = "shutdown" ~> main = "exited"
  /\ main = "join" ~> \/ main \in {"exited", "crashed"}
                      \/ main = "join" /\ listening /\ server

\* Every call returns, so no client waits for ever, whatever quit does to the server.
CallsReturn == \A c \in Client : Serving(c) ~> pc[c] \in {"shell", "files"}
=============================================================================
