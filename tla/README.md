# Verification of the File Retrieval System

The repository holds one program written three times: a file retrieval engine whose clients
tokenize files and send word counts to a server, and whose server keeps an inverted index and
answers multi-term searches. The three servers differ in how clients reach them (POSIX sockets,
ZeroMQ, gRPC) and share the index underneath. This directory holds TLA+ models of the three
stacks and of the data structures they share, TLC runs that check them on small instances, and
TLAPS proofs of their safety properties for every value of the constants.

Paths below are relative to `src/`; `Socket Programming/app-cpp/src/` is written `socket/`,
`ZeroMQ/app-cpp/src/` is `zmq/`, `gRPC/app-cpp/src/` is `grpc/`.

## 1. Inventory

| Part | State | Operations | Hard behaviour | Correct when |
|---|---|---|---|---|
| `DocFreqList`, `StringList`, `ResultList` (same files in all stacks) | blocks from `new[]`, `count`, `capacity` | construct, copy, assign, destroy, `add`, `addFrequency`, `addUnchecked`, `pop_back`, `truncate`, `clear`, reads | arrays doubled while copied; assignment deletes before it copies; `addUnchecked` looks at the last posting only | every block has one owner; a list behaves as a value |
| `InvertedIndexMap` (same file in all stacks) | `buckets` (chains of nodes), 1024 mutexes | `add`, `lookup` (`get`, `contains` unused) | one mutex for many buckets, insertion after a miss, early returns | linearizable; one node per term; no mutex kept |
| `IndexStore` socket, gRPC | `documents`, the map | `putDocument`, `getDocument`, `updateIndex`, `lookupIndex` | eight threads per large document (socket) | every word added once under a number that resolves |
| `IndexStore` ZeroMQ | the same and `documentPathToId` | the same, one thread | a path indexed again keeps its number | one number per path; no count is lost |
| Socket request handlers (`runWorker`) | local variables of the worker | INDEX_REQUEST, SEARCH_REQUEST | searches while others index; results of reads ignored | complete, exact, ranked answers |
| Socket server lifecycle | `running`, `serverSocket`, `activeSockets`, `connectedClients`, `nextClientId`, threads | `initialize`, `runDispatcher`, `runWorker`, `shutdown`, `quit` | accept and registration racing shutdown; the same descriptor closed twice; blocked reads | shutdown ends and closes everything; the table is exact |
| Socket protocol | the stream | `readNBytes`, `sendNBytes`, `readString`, ... | messages without boundaries, lost peers | both sides agree where a message ends |
| Socket client engine, shell | `clientSocket`, `clientId`, `connected` | `connect`, `indexFolder`, `search`, `disconnect` | a server that goes away in mid-call | commands return; what is shown is what is stored |
| ZeroMQ server | `running`, `proxyReady`, `nextClientId`, context, threads | `initialize`, `runProxy`, `runWorker`, `shutdown` | handshake with the proxy thread, bind failures, terminating the context, REP alternation | no thread left; no request lost or doubled |
| ZeroMQ codec | bytes | `ByteWriter`, `ByteReader`, encoders, decoders | payloads that are too short | understood whole or refused |
| ZeroMQ client | context, `reqSocket`, `clientId`, `connected` | `connect`, `indexFolder`, `search`, `disconnect` | waits without a timeout | commands return while the server runs |
| gRPC server, service | `server`, `nextClientId`, the store | `Register`, `ComputeIndex`, `ComputeSearch`, `shutdown` | `shutdown` before `server` is assigned; null server on a busy port | quit ends; clients' documents stay apart |
| gRPC client | `channel`, `stub`, `clientId` | `connect`, `indexFolder`, `search` | failed calls in mid-folder; calls before connect; paths as keys, old versions left in the store | a path listed once, with the count of its newest matching version |
| benchmark drivers, `Concurrency.hpp`, `InputHandler`, `File` | see section 7 | | | |

How they interact: the main thread of a server runs the shell of `ServerAppInterface` and calls the
engine. The socket engine's dispatcher starts one worker per connection; ZeroMQ's proxy thread
deals requests to a fixed pool of workers; gRPC runs a handler thread per call. Handlers share
one `IndexStore` (and, with sockets, `clientsMutex` and two tables); the store shares one
`InvertedIndexMap` among all handlers and the threads `updateIndex` starts. A client sends one
message at a time and waits for its answer. Nothing is persisted, so there is no recovery after
a crash.

What is hard to test is listed under `hazards` in `PROJECT.json`, each at its line with the
properties that watch it, or with the reason none does.

## 2. Modules

| Module | Models | Composed of |
|---|---|---|
| `ListValues` | what the growable lists promise: lists as values (abstract) | - |
| `GrowableList` | the three array classes on a heap of blocks | refines `ListValues` |
| `DocFreqList` | posting list of a term, as a value | - |
| `PostingIndex` | what the index promises: atomic `add` and `lookup` (abstract) | `DocFreqList` |
| `InvertedIndexMap` | the striped hash table step by step | `DocFreqList`; refines `PostingIndex` |
| `IndexStore` | document table, slices, index as atomic calls | `DocFreqList` |
| `SearchService` | socket: index and search handlers of all workers | `IndexStore` |
| `SocketServer` | socket: server lifecycle, sessions, shutdown, clients | - |
| `SocketSession` | socket: client program and worker, message field by field | - |
| `ZmqCodec` | ZeroMQ: payloads and their bytes | - |
| `ZmqService` | ZeroMQ: index and search handlers over its store | `ZmqCodec`, `DocFreqList` |
| `ZmqServer` | ZeroMQ: main, proxy, workers, clients | - |
| `GrpcService` | gRPC: server program, handlers, clients | `DocFreqList` |
| `*_proof` | theorems about the module of their name (section 5) | the module |
| `MC*` | instances for TLC | the module of their name |

In every module `map` in `PROJECT.json` leads from a definition to the lines it stands for.

### GrowableList and ListValues

The three classes share a representation (a block, a capacity, a count; the two arrays of
`DocFreqList` are always allocated and freed together and count as one block) and are modelled
together; an operation only one class has is there once. `heap` maps addresses of allocated
blocks to cells, unwritten cells hold `Uninit`. A list is used by one thread at a time: the
stripe, `documentMapMutex` or its being a local variable sees to that. `ListsAreValues` is the
specification of `ListValues` under the mapping that reads a list's first `count` cells.
`truncate` of a negative size, which no caller asks for, is not among the inputs.

### InvertedIndexMap

`chain[b]` is the linked list of bucket `b`, oldest node first; `curr[t]` is a thread's node
pointer as a position in it (0 is `nullptr`), so `curr = curr->next` is a decrement and pushing
at the head is an append. `lock[s]` is the owner of stripe `s`. A call runs through `Begin`,
`Acquire` (`lock_guard`, `curr = buckets[idx]`), any number of `Advance`, then `AddFound`, or
`AddAbsent` and `Link` (allocate, read the head, write the head: two steps, so that a missing
lock would show), or `LookupFound`/`LookupAbsent`, and `Release`. The hash is a constant
function: nothing about djb2 matters beyond being a function into the buckets.

`Linearizable` is the specification of `PostingIndex` under the mapping that reads the posting
list of a term from its chain. The linearization points are `AddFound`, `Link`, `LookupFound`
and `LookupAbsent`.

### IndexStore and SearchService

Each call on the store is one step, which the linearizability of the map and `documentMapMutex`
justify. `updateIndex` becomes `Slices`, the ranges its threads work through, and `Update(w, u)`,
one turn of the loop of thread `u`. The threshold 1000, the 8 threads and the 10 hits are
the constants `parallelFrom`, `numThreads` and `resultLimit`. A path is a number in string order,
all the sort looks at; equal paths are possible (a client may index a folder twice), and
`std::sort`, which is not stable, may put equal results in any order. The `unordered_map`
of the message becomes a vector in any order (`Orders`). Four history variables record what
clients were told: `declared`, `acked`, `shown`, `promised`.

### SocketServer

Threads are program counters: `dispatcher`, `worker[c]`, `main`. A step ends where another
thread may see the difference: `running` is read, a descriptor is closed, a lock is taken. The
sections under `clientsMutex` are single steps, but for shutdown's sweep, which also closes
descriptors, seen by everyone: it holds `mutex` while it takes a step per
system call. The kernel is `listener`, `backlog` and `socketOf` (what a descriptor stands for):
`accept` may hand out any free descriptor, so that closing a number twice can hit the
wrong connection; `halfClosed` is the effect of `shutdown(SHUT_RDWR)`. `CreateSocket`, `Listen`
and `AcceptFails` cover the failures of `socket`, `bind`, `listen` and `accept`. An index or
search request is here just a message to be answered (`Reply`); its contents are in
`SearchService` and `SocketSession`. `Reply` has the three outcomes of a write: delivered,
failed or lost and ignored, and SIGPIPE.

A client connects, waits for each answer, asks again, quits, or vanishes at any moment.
`list` reads the same table as `quit` and changes nothing.

### SocketSession

A client program (shell, engine) and the worker that serves it exchange `uint32` and string
fields over two streams; either process may die between any two fields, and the field that is
under way is then lost: a field arrives whole or not at all. A number that was not read is
whatever was in the variable (`Garbage`), a string is empty. `Stop` is the server's `shutdown`: it
closes the connection under the worker, which finishes the request it is in with reads that fail (`Read`
when `Severed`), may store what comes of it, and ends when it next looks at `running`. SIGPIPE ends
whichever side writes to a closed stream (`Killed` is the server's end). Programs run one after the other; each connects when the worker of the one before has
ended. `Tokenize` is the tokenizer of `indexFolder`, character by character, and
`StoredFaithfully` compares what it leads to with word counts defined by the runs of word
characters in the text. The counts travel in any order of the words (`Orders`), as the client's hash
map gives them in any; the hits of a reply are in the order of their counts, then of their paths
as texts (`PathBefore`: the digits of the owner's id, a colon, the file's path). A reply of a type the client does not expect cannot occur: `InStep` is the reason.

### ZmqCodec and ZmqService

Payloads are sequences of bytes in base `Base` (256 in the code). `ReadString` and `ReadU32` keep the reader's
position and its failure, as `ByteReader` does, so a payload cut anywhere is decoded by the code's own
steps (`Dropped` gives the numbers of bytes a payload may lack). A message without even a type is not answered: `Skip`
leaves the worker `deaf`, because its REP socket has not replied and receives no more. A list is written by a loop (`Joined`)
and read by one (`ReadList` of `ReadEntry`, which fails with the first entry that is cut). `ZmqService` runs the handlers of several workers over
the store that reuses a path's number. `sent` and `acked` record what clients sent and were told.

### ZmqServer

`main` goes from `initialize` to the end of the process, `proxy` is the proxy thread, `worker[w]`
each worker. A proxy that ends, because a bind failed (`GiveUp`) or the context is gone (`EndProxy`), first
clears `running` and then closes its sockets (`CloseProxy`); main may act between the two. ZeroMQ is external: a ROUTER-DEALER proxy hands each request to one connected REP
socket (`inbox`), `zmq_ctx_shutdown` makes blocked calls return ETERM, REQ and REP sockets
alternate. `place[c]` says where the one request or reply of a client is. A worker whose REP
socket received a message without answering is `deaf`: each later receive fails with EFSM until
`running` is cleared. A client's `indexFolder` sends one file after the other (`SendFile`,
`Indexed`): files that cannot be opened or hold no word of more than three characters are passed
over, and the iterator may end or throw after any of them. A client of this program sends well-formed requests; what a
worker does with others is exercised by `Ask`, a peer that is not this program's client. The
`uint32` counter of ids wraps at `IdRange`.

### GrpcService

gRPC is external: a call to a listening server runs a handler and returns its reply, a call to
any other fails, and `Shutdown` refuses new calls and waits for running ones. A connection that
is lost during a call is not modelled. `Build`, `Assign` and `Waited` are the server
thread's three steps, between which `Quit` may read the pointer. `nextClientId` is an `int` whose
overflow is out of reach of a run of the program, and is not modelled. The client sorts paths as texts, so
`PathBefore` compares owners digit by digit: `client10:` is before `client2:`, and `client-1:`, the
documents of clients that never registered, before both.

## 3. Runs

| Run | Instance | Shows |
|---|---|---|
| `index_map` | 3 threads, 4 terms in 3 buckets under 2 stripes, 3 calls | `ChainExclusive`, `OneNodePerKey`, linearizability, every call returns |
| `search` | 2 workers, 2 words, 4 requests for one file, 3 threads per large document, 2 hits listed | postings faithful, acknowledged means indexed, searches complete, exact and ranked, every request answered |
| `server` | 3 clients, 2 descriptors | ownership of descriptors, exact registry, nobody left blocked, clean exit with both tables empty |
| `server_live` | 2 clients, 2 descriptors | shutdown ends, sessions of lost clients end |
| `quit_spares_clients` | 2 clients | violated, finding 1 |
| `server_survives` | 2 clients | violated, finding 2 |
| `zmq_server` | 2 clients, 2 workers, 3 ids, 3 requests, folders of 2 files | ids unique, requests in one place, how the process ends, shutdown completes, commands return |
| `zmq_service` | 2 workers, 2 words, 4 requests, messages whole, short of 1 or 9 bytes, or (11) without a type, 2 hits listed | one number per path, nothing half understood, no count lost, searches sound, replies ranked |
| `zmq_frequencies` | 1 worker, 1 word, 2 files, 5 requests | violated, finding 3 |
| `grpc` | 2 clients, 4 commands, a folder of 3 files and a later one with a changed and an unreadable file, 2 hits shown | owners distinct, what a search lists of each path, how quit ends, calls return |
| `session` | 2 programs, 4 commands, 4 folders, 2 queries, 2 garbage values | documents faithful, both sides in step, searches exact, commands return |
| `lists` | 2 lists, 3 addresses, capacity from 1, up to 2 entries | one owner per block, lists are values |

Why the bounds are enough. *index_map*: two terms collide in a bucket, a third has its own
bucket under the same stripe, and a fourth its own stripe, so every relation between two terms
occurs; three threads allow two waiters; three calls let a chain grow to two nodes under a
concurrent walk and a posting list grow by merging and by appending. *search*: a one-word
document takes the sequential path of `updateIndex`, a two-word one the parallel path with an
empty slice; queries have one, two and repeated terms; with four requests a search
overlaps an indexing and follows others, or follows three. Each indexing is a document of its own, so one
path is enough; what different paths add is the order of equal scores, which `zmq_service` and `grpc` have.
In `search`, `zmq_service` and `grpc` a reply holds two hits and up to three documents match, so it orders
hits and leaves one out; counts allow ties. *server*: more clients than descriptors,
so that numbers are used again and `accept` runs out of them; it needs no other bound, a client
connects once. *zmq_server*: two workers so that one may be deaf while the other serves, and so
that two registrations overlap; three ids so that the counter passes 0; a client can register
and index two files, or two clients register and one ask. *zmq_service*: the same relative path
comes from two clients and twice from one, with other words and counts. *grpc*: a file is indexed
twice, the second time without one of its words, and searched for, which takes four commands with registration; or
two clients register, and one searches while the other indexes. *session*: texts
that are empty, begin or end in a word, repeat one, or hold words that are too short; a second
session sees what a broken first one left. *lists*: a second entry makes an array grow, and three
addresses are two blocks and the one that is copied to. The bounds are `MaxCalls`, `MaxRequests`,
`MaxSends`, `MaxFiles`, `MaxCommands`, `MaxSessions`, `MaxCount`, `MaxFreq` and the sizes of the sets. Symmetry is used in
the safety runs `server` and in `lists`, whose action property does not tell names apart.

Deadlock is not checked: every instance may stop when its calls are used up, its clients have
left, or the process is over. That nobody waits for ever is checked by the liveness properties.

Fairness. Every pending step of a thread of the process is weakly fair: the operating system
schedules threads. Nothing stronger is assumed of `std::mutex` (a waiter may be overtaken as
often as calls are left), and nobody has to send a request, start a server or type `quit`. In `SocketServer` clients owe
nothing; in `SocketSession`
and `ZmqServer` a client program that is running a command goes on with it; in `GrpcService` it is
the handlers, the server's thread and, outside the shell, the main thread that go on. Of a worker of
`SearchService` and the threads it started, one takes a step: each has a finite slice, so no more is needed. The
passing on of each client's message by ZeroMQ's proxy, which polls its sockets in turn, is fair.

What properties leave open is what the code leaves open, and no hazard counts as covered by a property that
exempts it. `RequestsAnswered` of `ZmqServer` exempts a server that is down and one with a
deaf worker: the client waits without a timeout (`zmq/ClientProcessingEngine.cpp:207`) and a deaf worker
keeps what it is dealt (`zmq/ServerProcessingEngine.cpp:151`). `QuitEnds` of `GrpcService` exempts the window
in which quit finds the pointer `server` null and the crash of a server whose port is taken. `OwnersDistinct` is about
registered clients. `StoredFaithfully` says which document a broken connection can spoil, its last, and
nothing of that one. `ListedNewestMatch` lets a search list a version that the file has superseded.
Section 4 says what the code does in these cases.

Each property of a passing run has a mutant of a modelled definition in `PROJECT.json`: a
plausible bug (a missing lock, a dropped guard, a swapped order) with which TLC reports the property.

## 4. Findings

1. **quit can disconnect a registered client** (`QuitSparesClients`). `socket/ServerAppInterface.cpp:22`
   asks for the list of clients and, finding none, calls `shutdown`. The lock is free in between and
   `running` still true: a connection that was accepted but not registered can register, be
   answered, and be closed by the sweep. The documented refusal ("clients are active") is a
   check-then-act.
2. **A lost client can end the server** (`ServerSurvives`). Replies are written with `write`
   (`socket/Protocol.cpp:42`). Neither `MSG_NOSIGNAL` nor a handler for SIGPIPE exists, so the second
   word of a reply to a client that has closed its end, or a reply after the sweep's
   `shutdown(SHUT_RDWR)`, kills the process, although `socket/ServerProcessingEngine.cpp:90` means to end
   the session only.
3. **The ZeroMQ server's frequencies are not those of a file** (`FrequencyMeaningful`). The
   README has results "ranked by combined word frequency" (`README.md:66`). `zmq/IndexStore.cpp:8` gives
   a path that is indexed again its old number, and `addUnchecked` merges a count only into the last
   posting of a term: after a, b, a, a the word has the postings a, b, a+a, and the search takes
   the last one, the sum of two of a's three versions. What does hold is checked by
   `CountsKept` and `SearchSound`: the index loses no count, and a score is exact for a file indexed once.

`SocketServer`'s other properties hold with the process being killed as one of the possible
ends of a behaviour.

Seen while reading and not covered by a run: `README.md:79` describes a `ByteWriter`/`ByteReader`
in the socket stack; the socket code writes fields one by one, and only the ZeroMQ stack has them.

The modules have the following steps too; no run states that they should not happen.

- *quit of the gRPC server may never end.* `server` is assigned by the server thread. A quit before that skips
  `Shutdown` (`grpc/ServerProcessingEngine.cpp:30`) and joins a thread that waits for one. On a port that is taken
  `server` stays null and is used (`:22`).
- *A gRPC search lists superseded versions.* Every indexing of a file makes a new document and none is removed
  (`grpc/IndexStore.cpp:9`), and of those that have all the words the last one of a path wins
  (`grpc/FileRetrievalEngineImpl.cpp:74`): a file that has lost a word is still listed for it, with a
  frequency it no longer has.
- *gRPC clients share the owner -1.* A client whose `Register` failed keeps the id -1
  (`grpc/ClientProcessingEngine.cpp:31`), indexes all the same once the server is up, and so do others. Before
  `connect` the null stub ends the client program (`:109`).
- *A socket document may get an id nobody sent.* The id of an INDEX_REQUEST is read into an uninitialized
  variable without a look at the result (`socket/ServerProcessingEngine.cpp:108`): a client that dies after the
  message type leaves a document under whatever the variable held, possibly another client's id.
- *A ZeroMQ worker may go deaf*, when a peer sends a message without a type (`zmq/ServerProcessingEngine.cpp:151`),
  and a client waits for ever on a server that has gone.

## 5. Proofs

Eight modules hold theorems. Seven of them prove `Spec => []IInv` (`Invariance`) for an inductive invariant
`IInv` and derive the rest from it, for any values of the constants that satisfy the assumptions
the module states. `SocketSession_proof` adds a second invariant, `SInv`, on top of it, and
`SocketServer_proof` one about its two tables, `Tables`. `ZmqService_proof`
has three layers: `WorkersInv` by itself, then `CountsKept` on top of it, then `SearchInv` on top of both;
`GrpcService_proof` has a `SearchInv` on top of `IInv` too. One lemma per action shows that it preserves each conjunct.

| Module | Theorems (of the property) | Assumptions on the constants |
|---|---|---|
| `InvertedIndexMap_proof` | `TypeCorrect`, `Exclusion` (`ChainExclusive`), `UniqueNodes` (`OneNodePerKey`), `Refinement` (`Linearizable`) | bucket and stripe counts positive, the hash into the buckets, amounts natural |
| `GrowableList_proof` | `TypeCorrect`, `Ownership` (`BlocksOwned`), `Refinement` (`ListsAreValues`) | initial capacity positive, amounts natural, addresses other than null |
| `SearchService_proof` | `SlicesCover`, `TypeCorrect`, `Faithful` (`PostingsFaithful`), `Acknowledged` (`AckedIndexed`), `Complete` (`SearchComplete`), `Exact` (`ScoresExact`), `Ranked` (`ReplyRanked`) | finite documents with natural counts, queries of words, at least one thread |
| `SocketServer_proof` | `TypeCorrect`, `Ownership` (`DescriptorsOwned`), `Registry` (`RegistryExact`), `Woken` (`EveryoneWoken`), `Exit` (`CleanExit`) | `Nobody` is neither client nor descriptor |
| `SocketSession_proof` | `TypesHold` (`TypeOK`), `StaysInStep` (`InStep`), `SearchReturnsStore` (`SearchExact`), `StoresFaithfully` (`StoredFaithfully`); of the tokenizer `TokenizeExact` | files and queries are sequences; `minLength`, `resultLimit` and what is read for a missing number are natural |
| `GrpcService_proof` | `TypeCorrect`, `Owner` (`OwnersDistinct`), `Faithful` (`PostingsFaithful`), `Acknowledged` (an acknowledged document is indexed), `Listed` (`ListedNewestMatch`) | folders hold files with natural counts, queries of words and not empty (`ClientAppInterface.cpp:75`), `shownLimit` natural |
| `ZmqServer_proof` | `TypeCorrect`, `Exit` (`CleanExit`), `Registration` (`IdsUnique`), `Delivery` (`RequestKept`) | ids range over more than 0, `MaxFiles` natural, `Nobody` not a client |
| `ZmqService_proof` | `PathsAreDistinct` (`PathsDistinct`), `TypesHold` (`TypeOK`), `Understanding` (`RequestsUnderstood`), `NoCountLost` (`CountsKept`), `SearchIsSound` (`SearchSound`), `RepliesAreRanked` (`RepliesRanked`); of the codec `IndexRequestRead`, `SearchRequestRead`, `IndexReplyRead`, `SearchReplyRead` | bytes of more than 7 values, so that message types fit one; finitely many workers; strings and lists of clients shorter than a `uint32_t` counts, frequencies at most an `int`'s |

Why the properties need strengthening, module by module:

- *InvertedIndexMap*: `OneNodePerKey` alone is not inductive: a thread at `link` inserts without
  looking. `WalkSound` says why it may: from the miss on, the chain it saw is the chain there is
  and does not hold the key. That survives the steps of others because of `LockHeld`: who is inside a chain owns its
  stripe, so no other thread is in the same chain. For the refinement, each of the four
  linearization points changes exactly one abstract posting list or answer, and every other step
  leaves the list of each term unchanged.
- *GrowableList*: types and ownership are inductive together: a list is copied to a free address,
  so what it writes is nobody else's. For the refinement, each operation is shown to make one value what `ListValues` says (`Became`) and to leave the
  other values alone.
- *SearchService*: `SlicesCover` shows the ranges of `updateIndex` to be a partition of the
  vector for every length and number of threads. `SlicesApart` keeps them so while they shrink,
  and `UpdateExact` says which words of a document are in the index: those no slice still holds.
  When all slices are empty, that is all of them, which gives `AckedIndexed`. `SearchBacked`
  carries what a search has found and must find from term to term. `ScoresExact` needs `ScoresSoFar`, the
  same sum up to the term at hand. `ReplyRanked` is an action property: whoever leaves `lookup`
  for `receive` took `ReplySearch`, whose list is a beginning of a sorted one of all results (`RanksFound`): only
  what was found, each once, in order, and nothing left out that is better than something listed.
- *SocketServer*: `Phases` and `Listening` tie `running`, the mutex and the listening socket to
  where main is: before the sweep begins the listener is closed. `Queued`, `HandsOn` and `Open`
  follow a connection from the backlog to its worker, and say that an open descriptor has exactly
  one holder; `Reached` and `Lost`, that the sweep misses no connection. `Exit` also says that both containers are
  empty, though a worker may register, and the dispatcher track a connection, after the sweep has cleared them. `Tables` is
  why: a descriptor is listed once and by the session that holds it (`Entries`, `Listed`), so the worker's
  own cleanup erases all of it before it is joined; after the sweep at most the one connection that
  `accept` had already returned is handed on (`Cleared`).
- *SocketSession*: `InStep` says little of the fields under way, and `IInv` says where they belong. While
  the connection is open, the request of the current command is what the worker has read, what is
  under way and what the client has still to send, one after the other (`Asking`); then its reply
  lies in three places likewise (`Answering`); between two commands all are empty (`Idle`). `RequestEnds` and
  `ReplyEnds` show that the reading code asks for nothing more exactly when it has all of such a message, for
  every number of words and hits. `Broken` covers a registration whose reply breaks off. When either
  end has gone, nothing is claimed of the streams except that they hold the beginning of one
  message (`Leftover`). That is what `StoredFaithfully` needs: a request of which a number was missing is
  stored only when nothing is left to read, so it is the last of its connection (`Lost`, `History`). A server that stops counts as
  an end that has gone: its worker goes on with failed reads as it does when the client dies (`Closed`).
  `TokenizeExact` follows the tokenizer along the text: after i characters the counts are those of the
  words that ended before, and the word at hand is the run of word characters up to i.
- *GrpcService*: `Owners` says that an id, once given, is in no other client's hands nor on
  anybody else's documents; `LeftExact`, which words a running handler has still to add.
  For `ListedNewestMatch`, `SearchInv` says what a search has found so far: all documents that were acknowledged
  before it began and have its terms, each with the sum of its counts up to the term at hand. Of the documents of
  one path that have all the words the newest wins, so nothing acknowledged before the search and newer
  than it has them; a newer version that lacks a word hides nothing (section 4). Two results never
  have the same path, so `Before` puts all of them in one order, of which the shell lists the beginning.
- *ZmqServer*: `Stages` and `Threads` tie `running`, context and proxy to where main is; `Ids`
  covers ids on their way to a client too; `Held`, `Kept` and `Fed` together say that
  a request is held by one worker, once, and in no other place, and that a worker with a request
  works behind a proxy that forwards. `Stages` knows the proxy that has cleared `running` and not yet
  closed its sockets, in which main may already abort.
- *ZmqService*: `PathsDistinct` needs `Gapless`, that the numbers given so far are 1 to n: it makes
  the number after the last a new one. `WorkersInv` says of each worker that what it holds is what its
  client meant, and nothing of a worker that is deaf. It stands on the four theorems about the codec. Each is proved over messages of any
  length by following a decoder over the bytes of the encoder (`Reads`): after k bytes it has read the
  fields written there, or has failed because the payload ends before. `CountsKept` is inductive with
  `WorkersInv`: `Record` raises `Total` and `Pending` by the same counts, a turn of `Update` moves a count
  from `Pending` to `Posted`, and `AddUnchecked` adds the same whether it merges or appends. `SearchInv`
  holds the rest of what `SearchSound` needs: acknowledged words have postings; the postings of a document
  indexed once hold what was sent; the scores so far are at most, or are exactly, the sums up to the term at hand; a
  document owed to a search stays among the ones found. The counts that arrive while a search runs only raise
  the bound, except for the document indexed once, whose words are all known from the start.
  `RepliesAreRanked` assumes `[]Fits`: there are fewer documents than a `uint32_t` counts, and no
  frequency of a reply passes it. The code casts both to four bytes, so without it the client would
  read them modulo 2^32. Every path a reply names fits because its request was read (`PathsFit`).

Induction over data. The library's induction theorems take an operator, which the provers cannot
instantiate. `SetInduction` in `SearchService_proof`, `ZmqService_proof`, `SocketSession_proof` and
`GrpcService_proof` says the same of a set, from the well-foundedness
of < on the naturals: a set that has 0 and every successor has all numbers. What a loop
computes is stated of the set of turns after which it holds (`Iteration`), and that is how
the sums, the sorted lists, the tokenizer and the two ends of the codec are reasoned about. `Sum` itself is a
cardinality, so its laws are those of finite sets.

Only model-checked. Liveness (`EveryCallReturns`, both `RequestsAnswered`, both
`ShutdownCompletes`, `SessionsEnd`, `QuitEnds`, `CallsReturn`, `CommandsReturn`) is out of the prover's
reach. Every invariant and every action property of a passing run has a theorem.

## 6. How the parts fit

`InvertedIndexMap` shows that `add` and `lookup` behave as single steps, and `GrowableList` that the posting
lists they return are values of their own; that is what lets `SearchService`, `ZmqService` and
`GrpcService` take them as single steps on `DocFreqList` values. `SocketServer` and `ZmqServer` take a
request as a message without contents; `SearchService` and `ZmqService` start from its contents; `SocketSession`
is between the two: how contents get from a client's file to a worker over a stream that may break. `GrpcService` has
both in one module, because gRPC hides what is between them.

## 7. Not modelled, and why

- `get` and `contains` of the map, `addTerm` and `updateIndex(StringList)` of the stores: no caller.
- `Concurrency.hpp` (`WorkQueue`, `KillSwitch`): no file of this commit includes it, so there is
  no use to be faithful to. `File.cpp`: no code calls it.
- `InputHandler`: raw terminal input, history and redrawing. One thread, and the only thing any
  other part reads is the line it returns.
- The benchmark drivers: straight-line programs that run a thread per client engine, join them,
  and search. What they make the servers do is what the clients of the models do.
- Byte order and the loops over partial reads and writes in the socket protocol: a field is
  read whole or fails, which is what those loops return.
- The order in which a directory is walked: folders are sequences of files, in any order.
- `serverSocket`, a plain `int` that shutdown writes while the dispatcher reads it: `SocketServer`
  takes `accept` on the closed, the old or the -1 descriptor as the same failure; a listener's
  number that is reused in between is not modelled.
- Memory exhaustion, `std::thread` failing to start, integer overflow of counts: outside the
  behaviours a properly sized server shows.
- Build output, generated protobuf code and data sets hold no logic of the program.
