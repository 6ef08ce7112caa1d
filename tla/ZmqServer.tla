------------------------------- MODULE ZmqServer -------------------------------
(***************************************************************************)
(* The ZeroMQ server's threads and the clients that call it: initialize,   *)
(* shutdown, runProxy and the loop of runWorker, with the client's connect,*)
(* indexFolder, search and disconnect as the shell calls them.  ZeroMQ     *)
(* itself is external: what the program relies on is that a ROUTER-DEALER  *)
(* proxy hands each request to one connected REP socket, that shutting a   *)
(* context down makes blocked calls return ETERM, and that the REQ and REP *)
(* sockets alternate between sending and receiving.  What the handlers do  *)
(* with the index is in ZmqService.                                        *)
(***************************************************************************)
EXTENDS Naturals, Sequences, FiniteSets

CONSTANTS Client, Worker,
          Asked,     \* what peers other than this program's client send: "other"
                     \* (a type the server does not know), "unreadable" (too
                     \* short to hold a type)
          IdRange,   \* the values of std::uint32_t (2^32)
          MaxSends,  \* bound on the requests clients send
          MaxFiles   \* bound on the files of a folder

ASSUME RangeAssumption == IdRange \in Nat \ {0, 1}
ASSUME FilesAssumption == MaxFiles \in Nat

VARIABLES main,       \* where the server's main thread is
          running, proxyReady,
          context,    \* zmqContext: "null", "open", "shut", "gone"
          proxy,      \* where the proxy thread is
          control,    \* TERMINATE is in the proxy's control socket
          worker,     \* where each worker thread is
          inbox,      \* worker -> clients whose requests its socket holds
          serving,    \* worker -> the client whose request it has received
          registrations,  \* calls of nextClientId.fetch_add
          client,     \* state of each client's engine and of its request
          clientId,
          todo,       \* client -> how many more files its folder may hold
          request,    \* client -> type of the request it sent last
          place,      \* client -> where that request or its reply is
          replyId,    \* client -> the id in the reply on its way
          sends

server == <<main, running, proxyReady, context, proxy, control>>
workers == <<worker, inbox, serving, registrations>>
clients == <<client, clientId, todo, request, sends>>
mail == <<place, replyId>>
vars == <<server, workers, clients, mail>>

Nobody == "nobody"

ASSUME NobodyAssumption == Nobody \notin Client

Alive == main \notin {"exited", "aborted"}
Ready == {w \in Worker : worker[w] \in {"looping", "receiving", "handling", "deaf"}}

Init == /\ main = "start"
        /\ running = FALSE /\ proxyReady = FALSE
        /\ context = "null" /\ proxy = "none" /\ control = FALSE
        /\ worker = [w \in Worker |-> "none"]
        /\ inbox = [w \in Worker |-> <<>>]
        /\ serving = [w \in Worker |-> Nobody]
        /\ registrations = 0
        /\ client = [c \in Client |-> "down"]
        /\ clientId = [c \in Client |-> 0]
        /\ todo = [c \in Client |-> 0]
        /\ request = [c \in Client |-> "none"]
        /\ place = [c \in Client |-> "none"]
        /\ replyId = [c \in Client |-> 0]
        /\ sends = 0
-----------------------------------------------------------------------------
(* The main thread.                                                        *)

\* zmq_ctx_new may fail; otherwise the proxy thread starts and main waits.
Initialize ==
  /\ main = "start"
  /\ \/ /\ main' = "waiting" /\ running' = TRUE
        /\ context' = "open" /\ proxy' = "binding"
     \/ /\ main' = "commands" /\ running' = FALSE
        /\ UNCHANGED <<context, proxy>>
  /\ UNCHANGED <<proxyReady, control, workers, clients, mail>>

\* proxyReadyCv.wait returns; the workers start unless running has been cleared.
StartWorkers ==
  /\ main = "waiting"
  /\ proxyReady \/ ~running
  /\ main' = "commands"
  /\ worker' = IF running THEN [w \in Worker |-> "started"] ELSE worker
  /\ UNCHANGED <<running, proxyReady, context, proxy, control, inbox, serving,
                 registrations, clients, mail>>

\* The operator enters quit: shutdown returns at once if running is clear already.
Quit ==
  /\ main = "commands"
  /\ main' = IF running THEN "stopping" ELSE "returning"
  /\ running' = FALSE
  /\ UNCHANGED <<proxyReady, context, proxy, control, workers, clients, mail>>

\* The control socket may not be had, or its connect may fail: nothing is sent then.
SendTerminate ==
  /\ main = "stopping"
  /\ main' = "shutting"
  /\ control' \in BOOLEAN
  /\ UNCHANGED <<running, proxyReady, context, proxy, workers, clients, mail>>

\* Mutant of ShutContext: zmq_ctx_shutdown is forgotten.
ShutContextNot ==
  /\ main = "shutting"
  /\ main' = "joining"
  /\ UNCHANGED <<running, proxyReady, context, proxy, control, workers, clients, mail>>

ShutContext ==
  /\ main = "shutting"
  /\ context' = "shut"
  /\ main' = "joining"
  /\ UNCHANGED <<running, proxyReady, proxy, control, workers, clients, mail>>

\* Mutant of Join: only the proxy is waited for.
JoinProxyOnly ==
  /\ main = "joining"
  /\ proxy = "closed"
  /\ main' = "returning"
  /\ context' = "gone"
  /\ UNCHANGED <<running, proxyReady, proxy, control, workers, clients, mail>>

\* The proxy and every worker joined, zmq_ctx_term finds no socket open.
Join ==
  /\ main = "joining"
  /\ proxy = "closed"
  /\ \A w \in Worker : worker[w] \in {"none", "ended"}
  /\ main' = "returning"
  /\ context' = "gone"
  /\ UNCHANGED <<running, proxyReady, proxy, control, workers, clients, mail>>

\* main returns and the engine is destroyed: a thread never joined aborts the process.
Return ==
  /\ main = "returning"
  /\ main' = IF proxy = "none" \/ context = "gone" THEN "exited" ELSE "aborted"
  /\ UNCHANGED <<running, proxyReady, context, proxy, control, workers, clients, mail>>
-----------------------------------------------------------------------------
(* The proxy thread.                                                       *)

\* Mutant of Bind: main is notified without proxyReady being set.
BindSilent ==
  /\ proxy = "binding"
  /\ proxy' \in {"forwarding", "unbound"}
  /\ UNCHANGED <<main, running, proxyReady, context, control, workers, clients, mail>>

\* The three sockets are bound, or not; proxyReady is set either way.
Bind ==
  /\ proxy = "binding"
  /\ proxy' \in {"forwarding", "unbound"}
  /\ proxyReady' = TRUE
  /\ UNCHANGED <<main, running, context, control, workers, clients, mail>>

\* running = false
GiveUp ==
  /\ Alive /\ proxy = "unbound"
  /\ running' = FALSE
  /\ proxy' = "closing"
  /\ UNCHANGED <<main, proxyReady, context, control, workers, clients, mail>>

\* zmq_proxy_steerable: a request goes to the socket of one connected worker.
Forward(c) ==
  /\ Alive /\ proxy = "forwarding" /\ context = "open"
  /\ place[c] = "wire"
  /\ \E w \in Ready : inbox' = [inbox EXCEPT ![w] = Append(@, c)]
  /\ place' = [place EXCEPT ![c] = "inbox"]
  /\ UNCHANGED <<server, worker, serving, registrations, clients, replyId>>

\* ... and a worker's reply back to the client that asked.
Backward(c) ==
  /\ Alive /\ proxy = "forwarding" /\ context = "open"
  /\ place[c] = "back"
  /\ place' = [place EXCEPT ![c] = IF client[c] = "gone" THEN "none" ELSE "answer"]
  /\ UNCHANGED <<server, workers, clients, replyId>>

\* TERMINATE or ETERM: zmq_proxy_steerable returns.
EndProxy ==
  /\ Alive /\ proxy = "forwarding"
  /\ control \/ context = "shut"
  /\ proxy' = "closing"
  /\ UNCHANGED <<main, running, proxyReady, context, control, workers, clients, mail>>

\* The proxy's sockets are closed, and its thread ends.
CloseProxy ==
  /\ Alive /\ proxy = "closing"
  /\ proxy' = "closed"
  /\ UNCHANGED <<main, running, proxyReady, context, control, workers, clients, mail>>
-----------------------------------------------------------------------------
(* A worker thread.                                                        *)

Goto(w, label) == worker' = [worker EXCEPT ![w] = label]

\* The REP socket is made and connected, unless the context is shut down already.
StartWorker(w) ==
  /\ Alive /\ worker[w] = "started"
  /\ Goto(w, IF context = "open" THEN "looping" ELSE "ended")
  /\ UNCHANGED <<server, inbox, serving, registrations, clients, mail>>

Loop(w) ==
  /\ Alive /\ worker[w] = "looping"
  /\ Goto(w, IF running THEN "receiving" ELSE "ended")
  /\ UNCHANGED <<server, inbox, serving, registrations, clients, mail>>

Receive(w) ==
  /\ Alive /\ worker[w] = "receiving"
  /\ context = "open" /\ inbox[w] # <<>>
  /\ serving' = [serving EXCEPT ![w] = Head(inbox[w])]
  /\ inbox' = [inbox EXCEPT ![w] = Tail(@)]
  /\ Goto(w, "handling")
  /\ UNCHANGED <<server, registrations, clients, mail>>

\* zmq_msg_recv fails with ETERM: break.
Interrupted(w) ==
  /\ Alive /\ worker[w] = "receiving" /\ context = "shut"
  /\ Goto(w, "ended")
  /\ UNCHANGED <<server, inbox, serving, registrations, clients, mail>>

NextClientId == (registrations + 1) % IdRange

\* zmqSendMultipart; its result is ignored, and it fails once the context is shut.
Reply(w) ==
  /\ place' = [place EXCEPT ![serving[w]] = IF context = "open" THEN "back" ELSE "lost"]
  /\ serving' = [serving EXCEPT ![w] = Nobody]
  /\ Goto(w, "looping")

\* Mutant of Register: the counter is read and written back in two steps.
RegisterLate(w) ==
  /\ Alive /\ worker[w] = "handling" /\ request[serving[w]] = "register"
  /\ replyId' = [replyId EXCEPT ![serving[w]] = NextClientId]
  /\ registrations' = IF \E v \in Worker \ {w} : worker[v] = "handling"
                        THEN registrations ELSE registrations + 1
  /\ Reply(w)
  /\ UNCHANGED <<server, inbox, clients>>

Register(w) ==
  /\ Alive /\ worker[w] = "handling" /\ request[serving[w]] = "register"
  /\ replyId' = [replyId EXCEPT ![serving[w]] = NextClientId]
  /\ registrations' = registrations + 1
  /\ Reply(w)
  /\ UNCHANGED <<server, inbox, clients>>

\* Mutant of Answer: a message of unknown type is dropped without a reply.
AnswerKnown(w) ==
  /\ Alive /\ worker[w] = "handling"
  /\ request[serving[w]] \in {"index", "search", "other"}
  /\ IF request[serving[w]] # "other"
       THEN Reply(w)
       ELSE /\ Goto(w, "looping")
            /\ serving' = [serving EXCEPT ![w] = Nobody]
            /\ UNCHANGED place
  /\ UNCHANGED <<server, inbox, registrations, clients, replyId>>

\* INDEX_REPLY, SEARCH_REPLY, or QUIT for a type the server does not know.
Answer(w) ==
  /\ Alive /\ worker[w] = "handling"
  /\ request[serving[w]] \in {"index", "search", "other"}
  /\ Reply(w)
  /\ UNCHANGED <<server, inbox, registrations, clients, replyId>>

\* No type to read: continue, without a reply.  The REP socket still owes one, so
\* every later receive fails with EFSM and the loop spins until running is clear.
Skip(w) ==
  /\ Alive /\ worker[w] = "handling" /\ request[serving[w]] = "unreadable"
  /\ Goto(w, "deaf")
  /\ serving' = [serving EXCEPT ![w] = Nobody]
  /\ UNCHANGED <<server, inbox, registrations, clients, mail>>

Spin(w) ==
  /\ Alive /\ worker[w] = "deaf" /\ ~running
  /\ Goto(w, "ended")
  /\ UNCHANGED <<server, inbox, serving, registrations, clients, mail>>
-----------------------------------------------------------------------------
(* A client: the shell calls its engine, which waits for each answer.      *)
(* index and search without a connection only print a message.             *)

Send(c, type, state) ==
  /\ sends < MaxSends
  /\ sends' = sends + 1
  /\ client' = [client EXCEPT ![c] = state]
  /\ request' = [request EXCEPT ![c] = type]
  /\ place' = [place EXCEPT ![c] = "wire"]
  /\ UNCHANGED <<server, workers, clientId, replyId>>

\* connect: zmq_connect succeeds whether or not a server is there.
Connect(c) == client[c] = "down" /\ Send(c, "register", "registering") /\ UNCHANGED todo

\* The next file that can be opened and holds a word of more than three characters:
\* n files may follow it.
SendFile(c, n) == Send(c, "index", "asking") /\ todo' = [todo EXCEPT ![c] = n]

\* index <folder>; a folder without such a file changes nothing.
Index(c) == client[c] = "up" /\ \E n \in 0 .. MaxFiles - 1 : SendFile(c, n)

\* search: the shell passes on at least one term.
Search(c) == client[c] = "up" /\ Send(c, "search", "asking") /\ UNCHANGED todo

\* A peer that is not this program's client.
Ask(c) ==
  /\ client[c] = "up"
  /\ \E type \in Asked : Send(c, type, "asking")
  /\ UNCHANGED todo

\* decodeRegisterReply refuses the id 0: connect gives up and disconnects.
Registered(c) ==
  /\ client[c] = "registering" /\ place[c] = "answer"
  /\ client' = [client EXCEPT ![c] = IF replyId[c] = 0 THEN "down" ELSE "up"]
  /\ clientId' = [clientId EXCEPT ![c] = replyId[c]]
  /\ place' = [place EXCEPT ![c] = "none"]
  /\ replyId' = [replyId EXCEPT ![c] = 0]
  /\ request' = [request EXCEPT ![c] = "none"]
  /\ UNCHANGED <<server, workers, todo, sends>>

HasAnswer(c) == client[c] = "asking" /\ place[c] = "answer"

BackToShell(c) ==
  /\ client' = [client EXCEPT ![c] = "up"]
  /\ todo' = [todo EXCEPT ![c] = 0]
  /\ place' = [place EXCEPT ![c] = "none"]
  /\ request' = [request EXCEPT ![c] = "none"]
  /\ UNCHANGED <<server, workers, clientId, sends, replyId>>

\* INDEX_REPLY: on to the next file, until the iterator is at its end or throws.
Indexed(c) ==
  /\ HasAnswer(c) /\ request[c] = "index"
  /\ BackToShell(c) \/ \E n \in 0 .. todo[c] - 1 : SendFile(c, n)

\* SEARCH_REPLY, or what a strange peer is told.
Answered(c) == HasAnswer(c) /\ request[c] # "index" /\ BackToShell(c)

\* The shell's quit, or the engine's destructor.
Disconnect(c) ==
  /\ client[c] = "up"
  /\ client' = [client EXCEPT ![c] = "down"]
  /\ clientId' = [clientId EXCEPT ![c] = 0]
  /\ UNCHANGED <<server, workers, todo, request, sends, mail>>

Waiting(c) == client[c] \in {"registering", "asking"}

\* The client process is killed: nothing else ends a wait for an answer.
Kill(c) ==
  /\ Waiting(c)
  /\ client' = [client EXCEPT ![c] = "gone"]
  /\ clientId' = [clientId EXCEPT ![c] = 0]
  /\ todo' = [todo EXCEPT ![c] = 0]
  /\ place' = [place EXCEPT ![c] = IF @ \in {"wire", "answer"} THEN "none" ELSE @]
  /\ UNCHANGED <<server, workers, request, sends, replyId>>
-----------------------------------------------------------------------------
MainStep == StartWorkers \/ SendTerminate \/ ShutContext \/ Join \/ Return
ProxyTurn == Bind \/ GiveUp \/ EndProxy \/ CloseProxy
ProxyStep == ProxyTurn \/ \E c \in Client : Forward(c) \/ Backward(c)
WorkerStep(w) == \/ StartWorker(w) \/ Loop(w) \/ Receive(w) \/ Interrupted(w)
                 \/ Register(w) \/ Answer(w) \/ Skip(w) \/ Spin(w)
ClientStep(c) == Registered(c) \/ Indexed(c) \/ Answered(c)

Next == \/ Initialize \/ Quit \/ MainStep \/ ProxyStep
        \/ \E w \in Worker : WorkerStep(w)
        \/ \E c \in Client : \/ ClientStep(c) \/ Connect(c) \/ Index(c) \/ Search(c)
                             \/ Ask(c) \/ Disconnect(c) \/ Kill(c)

Spec == Init /\ [][Next]_vars

\* Threads run; nobody has to start the server, enter quit, or use a client.  The
\* proxy polls its sockets in turn, so it passes on each client's messages.
FairSpec == /\ Spec
            /\ WF_vars(MainStep)
            /\ WF_vars(ProxyTurn)
            /\ \A c \in Client : WF_vars(Forward(c) \/ Backward(c))
            /\ \A w \in Worker : WF_vars(WorkerStep(w))
            /\ \A c \in Client : WF_vars(ClientStep(c))
-----------------------------------------------------------------------------
\* Every variable has its type, and a worker at work has a client to serve.
TypeOK ==
  /\ main \in {"start", "waiting", "commands", "stopping", "shutting", "joining",
               "returning", "exited", "aborted"}
  /\ running \in BOOLEAN /\ proxyReady \in BOOLEAN /\ control \in BOOLEAN
  /\ context \in {"null", "open", "shut", "gone"}
  /\ proxy \in {"none", "binding", "forwarding", "unbound", "closing", "closed"}
  /\ worker \in [Worker -> {"none", "started", "looping", "receiving", "handling",
                            "deaf", "ended"}]
  /\ inbox \in [Worker -> Seq(Client)]
  /\ serving \in [Worker -> Client \union {Nobody}]
  /\ \A w \in Worker : (worker[w] = "handling") = (serving[w] # Nobody)
  /\ registrations \in Nat
  /\ client \in [Client -> {"down", "registering", "up", "asking", "gone"}]
  /\ clientId \in [Client -> 0 .. IdRange - 1]
  /\ todo \in [Client -> Nat]
  /\ request \in [Client -> {"none", "register", "index", "search"} \union Asked]
  /\ place \in [Client -> {"none", "wire", "inbox", "back", "answer", "lost"}]
  /\ replyId \in [Client -> 0 .. IdRange - 1]
  /\ sends \in Nat

\* No two registered clients have the same id until the 32-bit counter has gone
\* round, and no client works under the id 0, which the counter then hands out
\* (ServerProcessingEngine.cpp:156, Protocol.cpp:139).
IdsUnique ==
  /\ \A c \in Client : client[c] \in {"up", "asking"} => clientId[c] # 0
  /\ \A c, d \in Client : clientId[c] # 0 /\ clientId[c] = clientId[d] =>
                            c = d \/ registrations >= IdRange

\* Until quit, a request is never in two places and never nowhere: the client that
\* waits is the one whose request is under way, in one socket or in one
\* worker's hands (ServerProcessingEngine.cpp:267-269).  A deaf worker alone loses it.
RequestKept ==
  \A c \in Client :
    LET holders == {w \in Worker : serving[w] = c} \union
                   {w \in Worker : \E i \in DOMAIN inbox[w] : inbox[w][i] = c}
    IN  /\ Cardinality(holders) <= 1
        /\ place[c] # "inbox" => holders = {}
        /\ Waiting(c) /\ main \in {"start", "waiting", "commands"} =>
             \/ place[c] \in {"wire", "back", "answer"}
             \/ place[c] = "inbox" /\ holders # {}
             \/ place[c] = "inbox" /\ \E w \in Worker : worker[w] = "deaf"

\* The process ends normally only with every thread joined and no ZeroMQ socket
\* left (ServerProcessingEngine.cpp:67-80).  Only a server that could not bind aborts
\* when it is told to quit: shutdown returns early, and the proxy thread is destroyed
\* without having been joined (ServerProcessingEngine.cpp:48, :114).
CleanExit ==
  /\ main = "exited" => /\ proxy \in {"none", "closed"}
                        /\ \A w \in Worker : worker[w] \in {"none", "ended"}
                        /\ context \in {"null", "gone"}
  /\ main = "aborted" => proxy \in {"closing", "closed"} /\ ~control /\ context = "open"

\* shutdown never hangs: from the moment it clears running the process ends, with
\* or without the TERMINATE message, whatever the workers are doing.
ShutdownCompletes == main = "stopping" ~> main = "exited"

ServerDown == \/ main \notin {"start", "waiting", "commands"}
              \/ main = "start"
              \/ main = "commands" /\ context = "null"
              \/ proxy \in {"unbound", "closing", "closed"}

\* A command a client gives to a running server ends, the indexing of a folder file
\* by file included, as long as no worker has met a message it could not read: the
\* engine has no timeout to save it (ClientProcessingEngine.cpp:86, :126, :207).
RequestsAnswered ==
  \A c \in Client :
    Waiting(c) ~>
      \/ ~Waiting(c)
      \/ ServerDown
      \/ \E w \in Worker : worker[w] = "deaf"
=============================================================================
