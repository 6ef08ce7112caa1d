---------------------------- MODULE SocketServer ----------------------------
(***************************************************************************)
(* The life of the socket server and of its client sessions:               *)
(* ServerProcessingEngine.cpp without the contents of index and search     *)
(* requests, and the quit command of ServerAppInterface.cpp.  Its threads  *)
(* are the dispatcher, one worker per accepted connection and the main     *)
(* thread, which runs shutdown.  Clients and the kernel (the listening     *)
(* socket, the backlog, the descriptor table) are the environment.         *)
(*                                                                         *)
(* A connection is named by the client that made it.  A client waits for   *)
(* the answer to each message, so at most one is on its way to the server. *)
(***************************************************************************)
EXTENDS Integers, Sequences, FiniteSets

CONSTANTS Client,
          FD,        \* descriptors the process can use for connections
          Nobody     \* neither a client nor a descriptor

ASSUME NobodyAssumption == Nobody \notin Client /\ Nobody \notin FD

VARIABLES
  process,           \* "up", "killed" by a signal, or "exited"
  running, serverSocket,
  connectedClients,  \* set of [id, client, socket]
  activeSockets,     \* descriptor -> how often the vector holds it
  nextClientId,
  mutex,             \* whether main holds clientsMutex; other sections are steps
  dispatcher,        \* where the dispatcher thread is
  accepted,          \* what its accept returned: a connection, or Nobody
  worker,            \* connection -> where its worker thread is
  clientSocket,      \* connection -> the descriptor its worker was given
  clientId,          \* connection -> the id its worker gave it, 0 for none
  main,              \* where the main thread is
  victim,            \* the descriptor shutdown is closing
  listener, backlog, \* kernel: the listening socket and its queue
  socketOf,          \* kernel: descriptor -> connection, or Nobody
  halfClosed,        \* kernel: connections the server has shut down
  client,            \* client -> where it is
  message,           \* client -> its message not yet read, or "none"
  answered           \* clients whose message has been answered

registry == <<connectedClients, activeSockets, nextClientId, mutex>>
dispatching == <<dispatcher, accepted>>
working == <<worker, clientSocket, clientId>>
stopping == <<running, main, victim>>
listening == <<serverSocket, listener, backlog>>
sockets == <<socketOf, halfClosed>>
clients == <<client, message, answered>>
vars == <<process, registry, dispatching, working, stopping, listening, sockets,
          clients>>

Init == /\ process = "up" /\ running = TRUE
        /\ serverSocket = FALSE
        /\ connectedClients = {} /\ nextClientId = 1
        /\ activeSockets = [f \in FD |-> 0]
        /\ mutex = "free"
        /\ dispatcher = "socket" /\ accepted = Nobody
        /\ worker = [c \in Client |-> "none"]
        /\ clientSocket = [c \in Client |-> Nobody]
        /\ clientId = [c \in Client |-> 0]
        /\ main = "prompt" /\ victim = Nobody
        /\ listener = "none" /\ backlog = <<>>
        /\ socketOf = [f \in FD |-> Nobody]
        /\ halfClosed = {}
        /\ client = [c \in Client |-> "new"]
        /\ message = [c \in Client |-> "none"]
        /\ answered = {}
-----------------------------------------------------------------------------
(* Dispatcher: runDispatcher *)

\* serverSocket = socket(...); it may fail.
CreateSocket ==
  /\ dispatcher = "socket"
  /\ \/ /\ serverSocket' = TRUE /\ listener' = "created" /\ dispatcher' = "listen"
     \/ /\ dispatcher' = "ended" /\ UNCHANGED <<serverSocket, listener>>
  /\ UNCHANGED <<process, registry, accepted, working, stopping, backlog, sockets,
                 clients>>

\* bind and listen; the port may be taken, or shutdown may have been first.
Listen ==
  /\ dispatcher = "listen"
  /\ \/ /\ listener = "created" /\ listener' = "listening" /\ dispatcher' = "loop"
     \/ /\ dispatcher' = "ended" /\ UNCHANGED listener
  /\ UNCHANGED <<process, registry, accepted, working, stopping, serverSocket,
                 backlog, sockets, clients>>

\* while (running)
Loop == /\ dispatcher = "loop"
        /\ dispatcher' = IF running THEN "accept" ELSE "close"
        /\ UNCHANGED <<process, registry, accepted, working, stopping, listening,
                       sockets, clients>>

\* accept returns a connection on a free descriptor.
Accept ==
  /\ dispatcher = "accept"
  /\ listener = "listening" /\ backlog # <<>>
  /\ \E f \in FD : /\ socketOf[f] = Nobody
                   /\ socketOf' = [socketOf EXCEPT ![f] = Head(backlog)]
                   /\ clientSocket' = [clientSocket EXCEPT ![Head(backlog)] = f]
  /\ accepted' = Head(backlog)
  /\ backlog' = Tail(backlog)
  /\ dispatcher' = "check"
  /\ UNCHANGED <<process, registry, worker, clientId, stopping, serverSocket,
                 listener, halfClosed, clients>>

\* accept fails: the listening socket is gone, or every descriptor is taken.
AcceptFails ==
  /\ dispatcher = "accept"
  /\ \/ listener # "listening"
     \/ backlog # <<>> /\ \A f \in FD : socketOf[f] # Nobody
  /\ dispatcher' = IF running THEN "loop" ELSE "close"
  /\ UNCHANGED <<process, registry, accepted, working, stopping, listening, sockets,
                 clients>>

\* Mutant of Check: the connection accept returned is dropped, not closed.
CheckLeaks ==
  /\ dispatcher = "check"
  /\ dispatcher' = IF running THEN "track" ELSE "close"
  /\ accepted' = IF running THEN accepted ELSE Nobody
  /\ UNCHANGED <<process, registry, working, stopping, listening, sockets, clients>>

\* accept has returned a connection; stop and close it if (!running).
Check ==
  /\ dispatcher = "check"
  /\ IF running
       THEN /\ dispatcher' = "track"
            /\ UNCHANGED <<accepted, sockets>>
       ELSE /\ dispatcher' = "close"
            /\ accepted' = Nobody
            /\ socketOf' = [socketOf EXCEPT ![clientSocket[accepted]] = Nobody]
            /\ UNCHANGED halfClosed
  /\ UNCHANGED <<process, registry, working, stopping, listening, clients>>

\* activeSockets.push_back(clientSocket), under clientsMutex.
Track ==
  /\ dispatcher = "track" /\ mutex = "free"
  /\ activeSockets' = [activeSockets EXCEPT ![clientSocket[accepted]] = @ + 1]
  /\ dispatcher' = "spawn"
  /\ UNCHANGED <<process, connectedClients, nextClientId, mutex, accepted, working,
                 stopping, listening, sockets, clients>>

Spawn ==
  /\ dispatcher = "spawn"
  /\ worker' = [worker EXCEPT ![accepted] = "loop"]
  /\ accepted' = Nobody
  /\ dispatcher' = "loop"
  /\ UNCHANGED <<process, registry, clientSocket, clientId, stopping, listening,
                 sockets, clients>>

\* close(serverSocket), for the last time.
CloseListener ==
  /\ dispatcher = "close"
  /\ listener' = IF serverSocket THEN "closed" ELSE listener
  /\ dispatcher' = "ended"
  /\ UNCHANGED <<process, registry, accepted, working, stopping, serverSocket,
                 backlog, sockets, clients>>

Dispatch == \/ CreateSocket \/ Listen \/ Loop \/ Accept \/ AcceptFails
            \/ Check \/ Track \/ Spawn \/ CloseListener
-----------------------------------------------------------------------------
(* Workers: runWorker *)

\* The connection behind the worker's descriptor, if it can still be read.
Peer(c) == socketOf[clientSocket[c]]
Readable(c) == Peer(c) # Nobody /\ Peer(c) \notin halfClosed

WorkerGoes(c, where) == worker' = [worker EXCEPT ![c] = where]

\* Mutant of WorkerLoop: while (true).
WorkerLoopForever(c) ==
  /\ worker[c] = "loop"
  /\ WorkerGoes(c, "read")
  /\ UNCHANGED <<process, registry, dispatching, clientSocket, clientId, stopping,
                 listening, sockets, clients>>

\* while (running)
WorkerLoop(c) ==
  /\ worker[c] = "loop"
  /\ WorkerGoes(c, IF running THEN "read" ELSE "erase")
  /\ UNCHANGED <<process, registry, dispatching, clientSocket, clientId, stopping,
                 listening, sockets, clients>>

\* readUint32 returns a message type.
Read(c) ==
  /\ worker[c] = "read"
  /\ Readable(c) /\ message[Peer(c)] # "none"
  /\ WorkerGoes(c, CASE message[Peer(c)] = "REGISTER_REQUEST" -> "register"
                     [] message[Peer(c)] = "REQUEST" -> "reply"
                     [] message[Peer(c)] = "QUIT" -> "erase")
  /\ message' = [message EXCEPT ![Peer(c)] = "none"]
  /\ UNCHANGED <<process, registry, dispatching, clientSocket, clientId, stopping,
                 listening, sockets, client, answered>>

\* Mutant of ReadFails: continue instead of break.
ReadFailsRetries(c) ==
  /\ worker[c] = "read"
  /\ Readable(c) => client[Peer(c)] = "left"
  /\ WorkerGoes(c, "loop")
  /\ UNCHANGED <<process, registry, dispatching, clientSocket, clientId, stopping,
                 listening, sockets, clients>>

\* readUint32 fails: connection closed by either side, or reset with a message
\* still unread.
ReadFails(c) ==
  /\ worker[c] = "read"
  /\ Readable(c) => client[Peer(c)] = "left"
  /\ WorkerGoes(c, "erase")
  /\ UNCHANGED <<process, registry, dispatching, clientSocket, clientId, stopping,
                 listening, sockets, clients>>

\* Mutant of Register: the next id is the number of clients plus one.
RegisterReusesId(c) ==
  /\ worker[c] = "register" /\ mutex = "free"
  /\ LET id == Cardinality(connectedClients) + 1 IN
       /\ clientId' = [clientId EXCEPT ![c] = id]
       /\ connectedClients' = {e \in connectedClients : e.id # id}
            \union {[id |-> id, client |-> c, socket |-> clientSocket[c]]}
  /\ WorkerGoes(c, "reply")
  /\ UNCHANGED <<process, activeSockets, nextClientId, mutex, dispatching,
                 clientSocket, stopping, listening, sockets, clients>>

\* clientId = nextClientId++ and its entry, under clientsMutex.
Register(c) ==
  /\ worker[c] = "register" /\ mutex = "free"
  /\ clientId' = [clientId EXCEPT ![c] = nextClientId]
  /\ connectedClients' = {e \in connectedClients : e.id # nextClientId}
       \union {[id |-> nextClientId, client |-> c, socket |-> clientSocket[c]]}
  /\ nextClientId' = nextClientId + 1
  /\ WorkerGoes(c, "reply")
  /\ UNCHANGED <<process, activeSockets, mutex, dispatching, clientSocket, stopping,
                 listening, sockets, clients>>

\* The request is done and the two words of the reply are written.  A failed
\* write is ignored; the second write to a peer that has gone, or any write
\* after shutdown(SHUT_RDWR), raises SIGPIPE, which nothing handles.
Reply(c) ==
  /\ worker[c] = "reply"
  /\ WorkerGoes(c, "loop")
  /\ \/ /\ Readable(c) /\ client[Peer(c)] # "left"
        /\ answered' = answered \union {Peer(c)}
        /\ UNCHANGED process
     \/ /\ Readable(c) => client[Peer(c)] = "left"
        /\ Peer(c) \notin halfClosed
        /\ UNCHANGED <<process, answered>>
     \/ /\ Peer(c) # Nobody
        /\ Peer(c) \in halfClosed \/ client[Peer(c)] = "left"
        /\ process' = "killed"
        /\ UNCHANGED answered
  /\ UNCHANGED <<registry, dispatching, clientSocket, clientId, stopping, listening,
                 sockets, client, message>>

\* Mutant of Erase: the socket is removed without looking whether it is there.
EraseUnchecked(c) ==
  /\ worker[c] = "erase" /\ mutex = "free"
  /\ connectedClients' = {e \in connectedClients : e.id # clientId[c]}
  /\ activeSockets' = [activeSockets EXCEPT ![clientSocket[c]] = @ - 1]
  /\ WorkerGoes(c, "close")
  /\ UNCHANGED <<process, nextClientId, mutex, dispatching, clientSocket, clientId,
                 stopping, listening, sockets, clients>>

\* Clean up under clientsMutex.
Erase(c) ==
  /\ worker[c] = "erase" /\ mutex = "free"
  /\ connectedClients' = {e \in connectedClients : e.id # clientId[c]}
  /\ activeSockets' = [activeSockets EXCEPT
                         ![clientSocket[c]] = IF @ > 0 THEN @ - 1 ELSE 0]
  /\ WorkerGoes(c, "close")
  /\ UNCHANGED <<process, nextClientId, mutex, dispatching, clientSocket, clientId,
                 stopping, listening, sockets, clients>>

\* close(clientSocket), whatever the descriptor stands for by now.
Close(c) ==
  /\ worker[c] = "close"
  /\ socketOf' = [socketOf EXCEPT ![clientSocket[c]] = Nobody]
  /\ halfClosed' = halfClosed \ {Peer(c)}
  /\ WorkerGoes(c, "ended")
  /\ UNCHANGED <<process, registry, dispatching, clientSocket, clientId, stopping,
                 listening, clients>>

Work(c) == \/ WorkerLoop(c) \/ Read(c) \/ ReadFails(c) \/ Register(c)
           \/ Reply(c) \/ Erase(c) \/ Close(c)
-----------------------------------------------------------------------------
(* Main thread: the quit command, then shutdown *)

\* quit: refused while getConnectedClients lists anyone.
QuitCheck ==
  /\ main = "prompt" /\ mutex = "free"
  /\ connectedClients = {}
  /\ main' = "stop"
  /\ UNCHANGED <<process, registry, dispatching, working, running, victim,
                 listening, sockets, clients>>

\* Mutant of Stop: the clients' sockets are swept and the listener left open.
StopSweepsFirst ==
  /\ main = "stop"
  /\ running' = FALSE
  /\ main' = "lock"
  /\ UNCHANGED <<process, registry, dispatching, working, victim, listening,
                 sockets, clients>>

\* running = false.
Stop ==
  /\ main = "stop"
  /\ running' = FALSE
  /\ main' = "unlisten"
  /\ UNCHANGED <<process, registry, dispatching, working, victim, listening,
                 sockets, clients>>

\* Mutant of Unlisten: serverSocket is forgotten before it is closed.
UnlistenForgets ==
  /\ main = "unlisten"
  /\ serverSocket' = FALSE
  /\ main' = "lock"
  /\ UNCHANGED <<process, registry, dispatching, working, running, victim,
                 listener, backlog, sockets, clients>>

\* if (serverSocket >= 0): shut it down, close it, serverSocket = -1.
Unlisten ==
  /\ main = "unlisten"
  /\ serverSocket' = FALSE
  /\ listener' = IF serverSocket THEN "closed" ELSE listener
  /\ main' = "lock"
  /\ UNCHANGED <<process, registry, dispatching, working, running, victim,
                 backlog, sockets, clients>>

LockClients ==
  /\ main = "lock" /\ mutex = "free"
  /\ mutex' = "main"
  /\ main' = "sweep"
  /\ UNCHANGED <<process, connectedClients, activeSockets, nextClientId, dispatching,
                 working, running, victim, listening, sockets, clients>>

\* ::shutdown(sock, SHUT_RDWR) on the next socket of activeSockets.
SweepShutdown ==
  /\ main = "sweep"
  /\ \E f \in FD : /\ activeSockets[f] > 0
                   /\ victim' = f
                   /\ halfClosed' = halfClosed \union ({socketOf[f]} \ {Nobody})
  /\ main' = "sweep_close"
  /\ UNCHANGED <<process, registry, dispatching, working, running, listening,
                 socketOf, clients>>

\* close(sock).
SweepClose ==
  /\ main = "sweep_close"
  /\ socketOf' = [socketOf EXCEPT ![victim] = Nobody]
  /\ halfClosed' = halfClosed \ {socketOf[victim]}
  /\ activeSockets' = [activeSockets EXCEPT ![victim] = @ - 1]
  /\ victim' = Nobody
  /\ main' = "sweep"
  /\ UNCHANGED <<process, connectedClients, nextClientId, mutex, dispatching,
                 working, running, listening, clients>>

\* Both containers are clear, the mutex is released.
SweepDone ==
  /\ main = "sweep" /\ \A f \in FD : activeSockets[f] = 0
  /\ connectedClients' = {}
  /\ mutex' = "free"
  /\ main' = "join_dispatcher"
  /\ UNCHANGED <<process, activeSockets, nextClientId, dispatching, working, running,
                 victim, listening, sockets, clients>>

JoinDispatcher ==
  /\ main = "join_dispatcher" /\ dispatcher = "ended"
  /\ main' = "join_workers"
  /\ UNCHANGED <<process, registry, dispatching, working, running, victim,
                 listening, sockets, clients>>

\* Every worker is joined; main returns and the process is over.
JoinWorkers ==
  /\ main = "join_workers"
  /\ \A c \in Client : worker[c] \in {"none", "ended"}
  /\ main' = "returned"
  /\ process' = "exited"
  /\ UNCHANGED <<registry, dispatching, working, running, victim, listening, sockets,
                 clients>>

Shutdown == \/ Stop \/ Unlisten \/ LockClients \/ SweepShutdown \/ SweepClose
            \/ SweepDone \/ JoinDispatcher \/ JoinWorkers
-----------------------------------------------------------------------------
(* Clients *)

ClientGoes(c, where) == client' = [client EXCEPT ![c] = where]

\* connect succeeds as soon as the kernel has queued it; REGISTER_REQUEST is sent.
Connect(c) ==
  /\ client[c] = "new" /\ process = "up" /\ listener = "listening"
  /\ backlog' = Append(backlog, c)
  /\ message' = [message EXCEPT ![c] = "REGISTER_REQUEST"]
  /\ ClientGoes(c, "waiting")
  /\ UNCHANGED <<process, registry, dispatching, working, stopping, serverSocket,
                 listener, sockets, answered>>

\* The answer it waited for arrives.
Answer(c) ==
  /\ client[c] = "waiting" /\ c \in answered
  /\ answered' = answered \ {c}
  /\ ClientGoes(c, "ready")
  /\ UNCHANGED <<process, registry, dispatching, working, stopping, listening,
                 sockets, message>>

\* INDEX_REQUEST or SEARCH_REQUEST.
Request(c) ==
  /\ client[c] = "ready"
  /\ message' = [message EXCEPT ![c] = "REQUEST"]
  /\ ClientGoes(c, "waiting")
  /\ UNCHANGED <<process, registry, dispatching, working, stopping, listening,
                 sockets, answered>>

\* disconnect: QUIT, then close.
Quit(c) ==
  /\ client[c] = "ready"
  /\ message' = [message EXCEPT ![c] = "QUIT"]
  /\ ClientGoes(c, "left")
  /\ UNCHANGED <<process, registry, dispatching, working, stopping, listening,
                 sockets, answered>>

\* The client process dies, or notices that the server has gone.
Vanish(c) ==
  /\ client[c] \in {"waiting", "ready"}
  /\ ClientGoes(c, "left")
  /\ UNCHANGED <<process, registry, dispatching, working, stopping, listening,
                 sockets, message, answered>>

ClientStep(c) == Connect(c) \/ Answer(c) \/ Request(c) \/ Quit(c) \/ Vanish(c)
-----------------------------------------------------------------------------
Next == \/ /\ process = "up"
           /\ Dispatch \/ (\E c \in Client : Work(c)) \/ QuitCheck \/ Shutdown
        \/ \E c \in Client : ClientStep(c)

Spec == Init /\ [][Next]_vars

Up(A) == process = "up" /\ A

\* Every thread of the process keeps running; nobody has to type quit and no
\* client has to do anything.
FairSpec == /\ Spec
            /\ WF_vars(Up(Dispatch))
            /\ WF_vars(Up(Shutdown))
            /\ \A c \in Client : WF_vars(Up(Work(c)))
-----------------------------------------------------------------------------
\* Sessions whose worker runs and has not cleaned up.
Live(c) == worker[c] \in {"loop", "read", "register", "reply", "erase"}
Swept == main \in {"join_dispatcher", "join_workers", "returned"}

\* Every variable has its type.
TypeOK ==
  /\ process \in {"up", "killed", "exited"}
  /\ running \in BOOLEAN /\ serverSocket \in BOOLEAN
  /\ connectedClients \subseteq [id : Nat \ {0}, client : Client, socket : FD]
  /\ activeSockets \in [FD -> Nat]
  /\ nextClientId \in Nat \ {0}
  /\ mutex \in {"free", "main"}
  /\ dispatcher \in {"socket", "listen", "loop", "accept", "check", "track",
                     "spawn", "close", "ended"}
  /\ accepted \in Client \union {Nobody}
  /\ dispatcher \in {"check", "track", "spawn"} =>
       accepted # Nobody /\ worker[accepted] = "none"
  /\ worker \in [Client -> {"none", "loop", "read", "register", "reply", "erase",
                            "close", "ended"}]
  /\ clientSocket \in [Client -> FD \union {Nobody}]
  /\ clientId \in [Client -> Nat]
  /\ main \in {"prompt", "stop", "unlisten", "lock", "sweep", "sweep_close",
               "join_dispatcher", "join_workers", "returned"}
  /\ victim \in FD \union {Nobody}
  /\ listener \in {"none", "created", "listening", "closed"}
  /\ backlog \in Seq(Client)
  /\ socketOf \in [FD -> Client \union {Nobody}]
  /\ halfClosed \subseteq Client
  /\ client \in [Client -> {"new", "waiting", "ready", "left"}]
  /\ message \in [Client -> {"none", "REGISTER_REQUEST", "REQUEST", "QUIT"}]
  /\ answered \subseteq Client

\* A descriptor held by a worker, or being handed to one, is its client's or
\* closed: although both shutdown and the worker close it (lines 264 and 244),
\* neither ever closes, reads or answers somebody else's connection.
DescriptorsOwned ==
  /\ \A c \in Client : Live(c) \/ worker[c] = "close" => Peer(c) \in {c, Nobody}
  /\ accepted # Nobody => socketOf[clientSocket[accepted]] \in {accepted, Nobody}

\* Until shutdown clears them, connectedClients lists exactly the registered sessions
\* that have not cleaned up, each under an id of its own, and activeSockets holds the
\* socket of every live session, so that the sweep reaches it.
RegistryExact ==
  /\ ~Swept => connectedClients =
       {[id |-> clientId[c], client |-> c, socket |-> clientSocket[c]] :
          c \in {d \in Client : clientId[d] # 0 /\ Live(d)}}
  /\ \A c, d \in Client : clientId[c] = clientId[d] /\ clientId[c] # 0 => c = d
  /\ ~Swept => \A c \in Client :
       Live(c) /\ Peer(c) = c => activeSockets[clientSocket[c]] > 0

\* Once shutdown only joins threads, none of them can block again: the listening
\* socket is gone and no worker reads from a socket that is still open.
EveryoneWoken ==
  main \in {"join_dispatcher", "join_workers"} =>
    /\ ~running
    /\ dispatcher = "accept" => listener # "listening"
    /\ \A c \in Client : worker[c] = "read" => ~Readable(c)

\* The server returns only after every session is over and every connection it
\* accepted is closed, those it accepted while it was stopping included; what was
\* put in the two containers after the sweep had cleared them is out of them too.
CleanExit ==
  main = "returned" =>
    /\ dispatcher = "ended"
    /\ \A c \in Client : worker[c] \in {"none", "ended"}
    /\ \A f \in FD : socketOf[f] = Nobody /\ activeSockets[f] = 0
    /\ connectedClients = {}

\* Shutdown never waits for ever, whatever clients and workers are doing.
ShutdownCompletes == main # "prompt" ~> process # "up"

\* The worker of a client that has left ends, and with it the client's entry.
SessionsEnd == \A c \in Client :
  client[c] = "left" /\ worker[c] # "none" ~> worker[c] = "ended" \/ process # "up"

\* quit is refused while clients are active (ServerAppInterface.cpp:22-25): it
\* never closes the connection of a registered client.  NOT satisfied.
QuitSparesClients ==
  main = "sweep_close" => \A e \in connectedClients : e.socket # victim

\* A client whose connection is lost ends its own session only
\* (ServerProcessingEngine.cpp:90).  NOT satisfied.
ServerSurvives == process # "killed"
=============================================================================
