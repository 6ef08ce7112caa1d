----------------------------- MODULE SocketSession -----------------------------
(***************************************************************************)
(* The sessions of the socket stack, field by field: client programs, one  *)
(* after the other, and the server's worker for each.  A field is a uint32 *)
(* or a length-prefixed string; what breaks off inside a field loses it.   *)
(* Neither side looks at the result of most reads, so a field that does    *)
(* not come is what was in the variable: anything for a number, the empty  *)
(* string for a string.  The store is the list of documents: see           *)
(* SearchService for what its calls do among concurrent workers.           *)
(***************************************************************************)
EXTENDS Integers, FiniteSets, Sequences

CONSTANTS WordChar,      \* the characters words are made of
          minLength,     \* a word is longer than this (3)
          Folders,       \* what clients index: sequences of [path, content]
          Query,         \* term vectors clients search for
          Garbage,       \* values of a uint32 nobody has written
          resultLimit,   \* hits a reply lists (10)
          MaxSessions, MaxCommands

IsSeq(s) == s \in Seq({s[i] : i \in DOMAIN s})

ASSUME FoldersAssumption ==
  \A folder \in Folders : IsSeq(folder) /\ \A i \in DOMAIN folder : IsSeq(folder[i].content)

ASSUME QueryAssumption == \A q \in Query : IsSeq(q)

ASSUME BoundsAssumption == minLength \in Nat /\ Garbage \subseteq Nat /\ resultLimit \in Nat

VARIABLES pc, connected, clientId,  \* of the client program
          command, files, result,
          out, answer,              \* fields it has to send, and has read of the reply
          toServer, toClient,       \* fields under way
          worker, id, got, reply,   \* of the worker: what it read, and has to write
          process,                  \* "up", "stopped" by quit or "killed" by SIGPIPE
          nextClientId, documents,
          session, commands,
          meant,                    \* the file, or the terms, the client means to send
          origin                    \* document number -> where it came from

client == <<pc, connected, clientId, command, files, result, out, answer>>
server == <<worker, id, got, reply, process, nextClientId, documents>>
vars == <<client, toServer, toClient, server, session, commands, meant, origin>>

REGISTER_REQUEST == 1
REGISTER_REPLY == 2
INDEX_REQUEST == 3
INDEX_REPLY == 4
SEARCH_REQUEST == 5
SEARCH_REPLY == 6
QUIT == 7

NoResult == [totalHits |-> 0, hits |-> <<>>]
NoCounts == [w \in {} |-> 0]

Init == /\ pc = "shell" /\ connected = FALSE /\ clientId = -1
        /\ command = "none" /\ files = <<>> /\ result = NoResult
        /\ out = <<>> /\ answer = <<>>
        /\ toServer = <<>> /\ toClient = <<>>
        /\ worker = "none" /\ id = -1 /\ got = <<>> /\ reply = <<>>
        /\ process = "up" /\ nextClientId = 1 /\ documents = <<>>
        /\ session = 1 /\ commands = 0
        /\ meant = <<>> /\ origin = <<>>

ClientOpen == connected /\ pc \notin {"dead", "gone"}
ServerOpen == process = "up" /\ worker # "none"

\* What the worker still reads comes from nowhere, and what it writes goes nowhere.
Severed == ~ClientOpen \/ process # "up"
-----------------------------------------------------------------------------
(* What is written.                                                        *)

\* The loop over the characters: the word at hand, and the words counted.
Bump(counts, word) ==
  [w \in DOMAIN counts \union {word} |->
     (IF w \in DOMAIN counts THEN counts[w] ELSE 0) + (IF w = word THEN 1 ELSE 0)]
Flush(s) == IF Len(s.word) > minLength THEN Bump(s.counts, s.word) ELSE s.counts
Char(s, c) == IF c \in WordChar THEN [s EXCEPT !.word = Append(@, c)]
                                ELSE [word |-> <<>>, counts |-> Flush(s)]
Scan(content) ==
  LET upTo[i \in 0 .. Len(content)] ==
        IF i = 0 THEN [word |-> <<>>, counts |-> NoCounts] ELSE Char(upTo[i - 1], content[i])
  IN  upTo[Len(content)]

\* Mutant of Tokenize: a word that ends with the file is forgotten.
TokenizeUnflushed(content) == Scan(content).counts

Tokenize(content) == Flush(Scan(content))

Odd(n) == n % 2 = 1

\* What a loop writes that sends a string and a number in each turn.
Pairs(strings, numbers) ==
  [i \in 1 .. 2 * Len(strings) |-> IF Odd(i) THEN strings[(i + 1) \div 2]
                                            ELSE numbers[i \div 2]]

\* The orders in which a hash map may give its keys.
Orders(S) == {s \in [1 .. Cardinality(S) -> S] :
                \A i, j \in DOMAIN s : s[i] = s[j] => i = j}

IndexRequest(owner, path, counts, order) ==
  <<INDEX_REQUEST, owner, path, Cardinality(DOMAIN counts)>>
    \o Pairs(order, [i \in DOMAIN order |-> counts[order[i]]])

SearchRequest(terms) == <<SEARCH_REQUEST, Len(terms)>> \o terms

\* Mutant of SearchReply: the total is counted after the list was cut.
SearchReplyListed(r) ==
  <<SEARCH_REPLY, Len(r.hits), Len(r.hits)>>
    \o Pairs([i \in DOMAIN r.hits |-> r.hits[i].path], [i \in DOMAIN r.hits |-> r.hits[i].freq])

SearchReply(r) ==
  <<SEARCH_REPLY, r.totalHits, Len(r.hits)>>
    \o Pairs([i \in DOMAIN r.hits |-> r.hits[i].path], [i \in DOMAIN r.hits |-> r.hits[i].freq])
-----------------------------------------------------------------------------
(* What the reading code asks for next, given the fields it has.           *)

\* runWorker: the type, and what that type has.
NextRequest(f) ==
  CASE f = <<>> -> "type"
    [] f # <<>> /\ f[1] = INDEX_REQUEST ->
         IF Len(f) = 2 THEN "string"
         ELSE IF Len(f) < 4 THEN "uint32"
         ELSE IF Len(f) = 4 + 2 * f[4] THEN "done"
         ELSE IF Odd(Len(f)) THEN "uint32" ELSE "string"
    [] f # <<>> /\ f[1] = SEARCH_REQUEST ->
         IF Len(f) = 1 THEN "uint32" ELSE IF Len(f) = 2 + f[2] THEN "done" ELSE "string"
    [] OTHER -> "done"

\* Mutant of NextReply: indexFolder leaves the status unread.
NextReplyStatusless(f) ==
  CASE f = <<>> -> "type"
    [] f # <<>> /\ f[1] = SEARCH_REPLY ->
         IF Len(f) < 3 THEN "uint32"
         ELSE IF Len(f) = 3 + 2 * f[3] THEN "done"
         ELSE IF Odd(Len(f)) THEN "string" ELSE "uint32"
    [] f # <<>> /\ f[1] = INDEX_REPLY -> "done"
    [] OTHER -> IF Len(f) = 1 THEN "uint32" ELSE "done"

\* connect, indexFolder and search.
NextReply(f) ==
  CASE f = <<>> -> "type"
    [] f # <<>> /\ f[1] = SEARCH_REPLY ->
         IF Len(f) < 3 THEN "uint32"
         ELSE IF Len(f) = 3 + 2 * f[3] THEN "done"
         ELSE IF Odd(Len(f)) THEN "string" ELSE "uint32"
    [] OTHER -> IF Len(f) = 1 THEN "uint32" ELSE "done"

\* What a failed read leaves in the variable it was to fill.
Unread(kind) == IF kind = "string" THEN {<<>>} ELSE Garbage
-----------------------------------------------------------------------------
(* The client program.                                                     *)

Command(c) == /\ pc = "shell"
              /\ commands < MaxCommands
              /\ commands' = commands + 1
              /\ command' = c

Request(fields) == /\ out' = fields
                   /\ answer' = <<>>
                   /\ pc' = "send"

\* connect: the server accepts and starts a worker, REGISTER_REQUEST follows.
Connect ==
  /\ Command("connect") /\ ~connected /\ process = "up" /\ worker = "none"
  /\ connected' = TRUE
  /\ worker' = "read" /\ id' = -1 /\ got' = <<>> /\ reply' = <<>>
  /\ toServer' = <<>> /\ toClient' = <<>>
  /\ Request(<<REGISTER_REQUEST>>)
  /\ UNCHANGED <<clientId, files, result, process, nextClientId, documents, session, meant,
                 origin>>

\* index: the loop over the files starts.
Index ==
  /\ Command("index") /\ connected
  /\ \E folder \in Folders : files' = folder
  /\ pc' = "files"
  /\ UNCHANGED <<connected, clientId, result, out, answer, toServer, toClient, server,
                 session, meant, origin>>

\* One turn of the loop: a file without words is skipped, any other is sent.
File ==
  /\ pc = "files" /\ files # <<>>
  /\ LET file == Head(files)
         counts == Tokenize(file.content)
     IN  IF counts = NoCounts
           THEN UNCHANGED <<pc, out, answer, meant>>
           ELSE /\ \E order \in Orders(DOMAIN counts) :
                     Request(IndexRequest(clientId, file.path, counts, order))
                /\ meant' = [owner |-> clientId, path |-> file.path, content |-> file.content]
  /\ files' = Tail(files)
  /\ UNCHANGED <<connected, clientId, command, result, toServer, toClient, server, session,
                 commands, origin>>

FilesDone ==
  /\ pc = "files" /\ files = <<>>
  /\ pc' = "shell" /\ meant' = <<>>
  /\ UNCHANGED <<connected, clientId, command, files, result, out, answer, toServer,
                 toClient, server, session, commands, origin>>

Search ==
  /\ Command("search") /\ connected
  /\ \E q \in Query : Request(SearchRequest(q)) /\ meant' = q
  /\ result' = NoResult
  /\ UNCHANGED <<connected, clientId, files, toServer, toClient, server, session, origin>>

\* The program ends, and what it had in memory is gone.
Dies == pc' = "dead" /\ out' = <<>> /\ answer' = <<>> /\ files' = <<>>

\* sendUint32 or sendString, its result ignored.  A write to a closed connection
\* goes nowhere, or ends the program with SIGPIPE.
Send ==
  /\ pc = "send"
  /\ \/ /\ out' = Tail(out)
        /\ pc' = IF Len(out) = 1 THEN "receive" ELSE "send"
        /\ toServer' = IF ServerOpen THEN Append(toServer, Head(out)) ELSE toServer
        /\ UNCHANGED <<files, answer>>
     \/ ~ServerOpen /\ Dies /\ UNCHANGED toServer
  /\ UNCHANGED <<connected, clientId, command, result, toClient, server, session, commands,
                 meant, origin>>

\* Mutant of Receive: a failed read is tried again.
ReceiveRetries ==
  /\ pc = "receive" /\ NextReply(answer) # "done"
  /\ toClient # <<>> /\ answer' = Append(answer, Head(toClient)) /\ toClient' = Tail(toClient)
  /\ UNCHANGED <<pc, connected, clientId, command, files, result, out, toServer, server,
                 session, commands, meant, origin>>

\* One read of the reply; a missing message type is the one failure that counts.
Receive ==
  /\ pc = "receive" /\ NextReply(answer) # "done"
  /\ \/ /\ toClient # <<>>
        /\ answer' = Append(answer, Head(toClient)) /\ toClient' = Tail(toClient)
     \/ /\ toClient = <<>> /\ ~ServerOpen /\ answer # <<>>
        /\ \E v \in Unread(NextReply(answer)) : answer' = Append(answer, v)
        /\ UNCHANGED toClient
  /\ UNCHANGED <<pc, connected, clientId, command, files, result, out, toServer, server,
                 session, commands, meant, origin>>

\* disconnect: QUIT, close.
Disconnect(next) ==
  /\ pc' \in {next} \union (IF ServerOpen THEN {} ELSE {"dead"})
  /\ toServer' = IF ServerOpen THEN Append(toServer, QUIT) ELSE toServer
  /\ connected' = FALSE /\ clientId' = -1

\* Mutant of NoReply: the files that are left stay for the next command.
NoReplyKeepsFiles ==
  /\ pc = "receive" /\ answer = <<>> /\ toClient = <<>> /\ ~ServerOpen
  /\ IF command = "connect"
       THEN Disconnect("shell")
       ELSE pc' = "shell" /\ UNCHANGED <<toServer, connected, clientId>>
  /\ meant' = <<>>
  /\ UNCHANGED <<command, files, result, out, answer, toClient, server, session, commands,
                 origin>>

\* No reply: connect disconnects, indexFolder leaves its loop, search finds nothing.
NoReply ==
  /\ pc = "receive" /\ answer = <<>> /\ toClient = <<>> /\ ~ServerOpen
  /\ IF command = "connect"
       THEN Disconnect("shell")
       ELSE pc' = "shell" /\ UNCHANGED <<toServer, connected, clientId>>
  /\ files' = <<>> /\ meant' = <<>>
  /\ UNCHANGED <<command, result, out, answer, toClient, server, session, commands, origin>>

Hits(f) == [i \in 1 .. f[3] |-> [path |-> f[2 * i + 2], freq |-> f[2 * i + 3]]]

\* The reply is read.
Returned ==
  /\ pc = "receive" /\ NextReply(answer) = "done"
  /\ \/ /\ command = "connect" /\ pc' = "shell" /\ clientId' = answer[2]
        /\ UNCHANGED result
     \/ /\ command = "index" /\ pc' = "files"
        /\ UNCHANGED <<clientId, result>>
     \/ /\ command = "search" /\ pc' = "shell"
        /\ result' = [totalHits |-> answer[2], hits |-> Hits(answer)]
        /\ UNCHANGED clientId
  /\ answer' = <<>> /\ meant' = <<>>
  /\ UNCHANGED <<connected, command, files, out, toServer, toClient, server, session,
                 commands, origin>>

\* The command quit.
Quit ==
  /\ Command("quit") /\ connected
  /\ Disconnect("gone")
  /\ UNCHANGED <<files, result, out, answer, toClient, server, session, meant, origin>>

\* The client program dies.  What is lost under way then might as well not have
\* been sent: the client may die at any earlier write.
Vanish ==
  /\ ClientOpen /\ Dies
  /\ UNCHANGED <<connected, clientId, command, result, toServer, toClient, server, session,
                 commands, meant, origin>>

\* Another client program starts.
NextClient ==
  /\ pc \in {"dead", "gone"} /\ worker = "none" /\ process = "up"
  /\ session < MaxSessions /\ session' = session + 1
  /\ pc' = "shell" /\ connected' = FALSE /\ clientId' = -1
  /\ command' = "none" /\ files' = <<>> /\ result' = NoResult
  /\ out' = <<>> /\ answer' = <<>> /\ meant' = <<>>
  /\ UNCHANGED <<toServer, toClient, server, commands, origin>>
-----------------------------------------------------------------------------
(* The worker of the server.                                               *)

\* One read of a request, its result ignored but for the message type.
Read ==
  /\ worker = "read" /\ NextRequest(got) # "done"
  /\ \/ /\ toServer # <<>>
        /\ got' = Append(got, Head(toServer)) /\ toServer' = Tail(toServer)
     \/ /\ toServer = <<>> /\ Severed /\ got # <<>>
        /\ \E v \in Unread(NextRequest(got)) : got' = Append(got, v)
        /\ UNCHANGED toServer
  /\ UNCHANGED <<client, toClient, worker, id, reply, process, nextClientId, documents,
                 session, commands, meant, origin>>

\* wordCounts[word] = freq for each pair in turn: the last one counts.
WordCounts(f) ==
  LET word(i) == f[2 * i + 3]
      last(w) == CHOOSE i \in 1 .. f[4] :
                   word(i) = w /\ \A j \in 1 .. f[4] : word(j) = w => j <= i
  IN  [w \in {word(i) : i \in 1 .. f[4]} |-> f[2 * last(w) + 4]]

\* "client" <> id <> ":" <> path.
FullPath(owner, path) == [owner |-> owner, path |-> path]

\* The text of an id up to the ':' after it: its decimal digits, and the ':' above them.
Digits[n \in Nat] == IF n < 10 THEN <<n>> ELSE Append(Digits[n \div 10], n % 10)
OwnerText(owner) == Append(Digits[owner], 10)

\* std::string's <, and the comparison given to std::sort; the document number stands in
\* for the order of equal entries, which no reply shows.
StringBefore(s, t) ==
  \E i \in 0 .. Len(s) :
    /\ i < Len(t) /\ SubSeq(s, 1, i) = SubSeq(t, 1, i)
    /\ i = Len(s) \/ s[i + 1] < t[i + 1]
PathBefore(p, q) == \/ StringBefore(OwnerText(p.owner), OwnerText(q.owner))
                    \/ p.owner = q.owner /\ StringBefore(p.path, q.path)
Before(a, b) == \/ a.freq > b.freq
                \/ a.freq = b.freq /\ PathBefore(a.path, b.path)
                \/ a.freq = b.freq /\ a.path = b.path /\ a.doc < b.doc

\* The documents with all the terms, counted, and the best resultLimit of them.
Find(terms) ==
  LET found == {d \in DOMAIN documents :
                  /\ terms # <<>>
                  /\ \A i \in DOMAIN terms : terms[i] \in DOMAIN documents[d].counts}
      score(d) ==
        LET sum[i \in 0 .. Len(terms)] ==
              IF i = 0 THEN 0 ELSE sum[i - 1] + documents[d].counts[terms[i]]
        IN  sum[Len(terms)]
      hits == {[doc |-> d, path |-> documents[d].path, freq |-> score(d)] : d \in found}
      total == Cardinality(hits)
  IN  [totalHits |-> total,
       hits |-> [i \in 1 .. IF total > resultLimit THEN resultLimit ELSE total |->
                   CHOOSE h \in hits : Cardinality({g \in hits : Before(g, h)}) = i - 1]]

Answer(fields) == reply' = fields /\ worker' = "write"

Register ==
  /\ got[1] = REGISTER_REQUEST
  /\ id' = nextClientId /\ nextClientId' = nextClientId + 1
  /\ Answer(<<REGISTER_REPLY, nextClientId>>)
  /\ UNCHANGED <<documents, origin>>

StoreDocument ==
  /\ got[1] = INDEX_REQUEST
  /\ documents' = Append(documents, [path |-> FullPath(got[2], got[3]),
                                     counts |-> WordCounts(got)])
  /\ origin' = Append(origin, [meant |-> meant, cut |-> Severed, session |-> session])
  /\ Answer(<<INDEX_REPLY, 0>>)
  /\ UNCHANGED <<id, nextClientId>>

AnswerSearch ==
  /\ got[1] = SEARCH_REQUEST
  /\ Answer(SearchReply(Find(SubSeq(got, 3, Len(got)))))
  /\ UNCHANGED <<id, nextClientId, documents, origin>>

\* The request is read: do what it asks.
Handle ==
  /\ worker = "read" /\ NextRequest(got) = "done"
  /\ Register \/ StoreDocument \/ AnswerSearch
  /\ got' = <<>>
  /\ UNCHANGED <<client, toServer, toClient, process, session, commands, meant>>

\* SIGPIPE ends the process, and the kernel closes its connection.
Killed == /\ process' = "killed"
          /\ worker' = "none" /\ id' = -1 /\ got' = <<>> /\ reply' = <<>>
          /\ toServer' = <<>>

\* One write of a reply.  A write to a client that has gone, or after shutdown, is lost or
\* raises SIGPIPE.  After the last one the worker looks at running.
Write ==
  /\ worker = "write"
  /\ \/ /\ reply' = Tail(reply)
        /\ toClient' = IF Severed THEN toClient ELSE Append(toClient, Head(reply))
        /\ IF Len(reply) > 1
             THEN UNCHANGED <<worker, id>>
             ELSE IF process = "up"
                    THEN worker' = "read" /\ UNCHANGED id
                    ELSE worker' = "none" /\ id' = -1
        /\ UNCHANGED <<process, got, toServer>>
     \/ Severed /\ Killed /\ UNCHANGED toClient
  /\ UNCHANGED <<client, nextClientId, documents, session, commands, meant, origin>>

\* QUIT, or no message type: the worker ends and closes the connection.
End ==
  /\ worker = "read"
  /\ \/ got = <<QUIT>>
     \/ got = <<>> /\ toServer = <<>> /\ Severed
  /\ worker' = "none" /\ id' = -1 /\ got' = <<>>
  /\ UNCHANGED <<client, toServer, toClient, reply, process, nextClientId, documents,
                 session, commands, meant, origin>>

\* shutdown: running = false, and the connection closed under the worker, which goes on
\* with the request it is in.  Whatever it does between the two it may do before both.
Stop ==
  /\ process = "up" /\ worker # "none"
  /\ process' = "stopped" /\ toServer' = <<>>
  /\ UNCHANGED <<client, toClient, worker, id, got, reply, nextClientId, documents, session,
                 commands, meant, origin>>

ClientStep == \/ File \/ FilesDone \/ Send \/ Receive \/ NoReply \/ Returned
WorkerStep == \/ Read \/ Handle \/ Write \/ End

Next == \/ Connect \/ Index \/ Search \/ Quit \/ Vanish \/ NextClient
        \/ ClientStep \/ WorkerStep \/ Stop

Spec == Init /\ [][Next]_vars

\* A client at work on a command and a worker run on; nobody has to type.
FairSpec == Spec /\ WF_vars(ClientStep) /\ WF_vars(WorkerStep)
-----------------------------------------------------------------------------
\* Every variable has its type; nothing is half read or half written at the shell.
TypeOK ==
  /\ pc \in {"shell", "files", "send", "receive", "dead", "gone"}
  /\ connected \in BOOLEAN
  /\ clientId \in Garbage \union -1 .. nextClientId
  /\ command \in {"none", "connect", "index", "search", "quit"}
  /\ worker \in {"none", "read", "write"}
  /\ process \in {"up", "stopped", "killed"}
  /\ nextClientId \in Nat \ {0}
  /\ id \in -1 .. nextClientId - 1
  /\ pc = "send" => out # <<>>
  /\ worker = "write" => reply # <<>>
  /\ pc = "shell" => out = <<>> /\ answer = <<>> /\ files = <<>>
  /\ DOMAIN origin = DOMAIN documents

\* The words of a text, defined by its maximal runs of word characters.
Run(content, i, j) == /\ \A k \in i .. j : content[k] \in WordChar
                      /\ i = 1 \/ content[i - 1] \notin WordChar
                      /\ j = Len(content) \/ content[j + 1] \notin WordChar
Occurrences(content, w) ==
  {i \in DOMAIN content : /\ i + Len(w) - 1 <= Len(content)
                          /\ Run(content, i, i + Len(w) - 1)
                          /\ SubSeq(content, i, i + Len(w) - 1) = w}
WordsOf(content) ==
  {SubSeq(content, p[1], p[2]) :
     p \in {q \in (DOMAIN content) \X (DOMAIN content) :
              q[2] - q[1] >= minLength /\ Run(content, q[1], q[2])}}

\* A document stored over a whole connection holds the exact word counts of the file its
\* client read, under the id it was given; one stored after the connection broke off is
\* the last of its connection (ServerProcessingEngine.cpp:107-133).
StoredFaithfully ==
  \A d \in DOMAIN documents :
    IF origin[d].cut
      THEN \A e \in DOMAIN documents : e > d => origin[e].session # origin[d].session
      ELSE LET m == origin[d].meant
           IN  /\ documents[d].path = FullPath(m.owner, m.path)
               /\ documents[d].counts =
                    [w \in WordsOf(m.content) |-> Cardinality(Occurrences(m.content, w))]

\* Client and worker agree on where a message ends, and on the client's id: between
\* two requests nothing is under way, and the worker has not begun to read.
InStep ==
  pc \in {"shell", "files"} /\ connected /\ ServerOpen =>
    /\ toServer = <<>> /\ toClient = <<>> /\ got = <<>> /\ worker = "read"
    /\ clientId = id

\* A search that returns over an open connection shows what the store holds: how many
\* documents have the terms, and the best of them in order.
SearchExact ==
  [][pc = "receive" /\ command = "search" /\ pc' = "shell" /\ ServerOpen =>
       LET found == Find(meant)
       IN  result' = [totalHits |-> found.totalHits,
                      hits |-> [i \in DOMAIN found.hits |->
                                  [path |-> found.hits[i].path, freq |-> found.hits[i].freq]]]]_vars

\* Every command returns, or its program ends, whatever the other side does.
CommandsReturn == pc \in {"files", "send", "receive"} ~> pc \in {"shell", "dead"}
=============================================================================
