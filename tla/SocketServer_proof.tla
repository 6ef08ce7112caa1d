--------------------------- MODULE SocketServer_proof --------------------------
(***************************************************************************)
(* For any number of clients and of descriptors: the registry is exact, a  *)
(* descriptor is never somebody else's, and shutdown leaves nobody blocked *)
(* and nothing open.                                                       *)
(***************************************************************************)
EXTENDS SocketServer, SequenceTheorems, TLAPS

Unswept == {"prompt", "stop", "unlisten", "lock"}
Listens == {"prompt", "stop", "unlisten"}
Handing == {"check", "track", "spawn"}

\* The server has an open connection of the client's in its hands.
Holds(c) == accepted = c \/ worker[c] \notin {"none", "ended"}

\* Where main stands determines running and the mutex.
Phases ==
  /\ running <=> main \in {"prompt", "stop"}
  /\ mutex = IF main \in {"sweep", "sweep_close"} THEN "main" ELSE "free"
  /\ main = "sweep_close" => victim \in FD /\ activeSockets[victim] > 0
  /\ main = "returned" <=> process = "exited"
  /\ main \in {"join_workers", "returned"} => dispatcher = "ended"
  /\ main = "returned" => \A c \in Client : worker[c] \in {"none", "ended"}

\* A dispatcher that came as far as accept has a listening socket that shutdown closes.
Listening ==
  /\ ~serverSocket /\ main \in Listens => dispatcher \in {"socket", "ended"}
  /\ dispatcher \in {"accept"} \union Handing /\ main \notin Listens => listener = "closed"

\* The dispatcher hands on one connection, and has none otherwise.
HandsOn ==
  /\ dispatcher \notin Handing => accepted = Nobody
  /\ accepted # Nobody => clientSocket[accepted] \in FD

\* A connection is in the backlog once, before it is anywhere else.
Queued ==
  /\ \A i, j \in DOMAIN backlog : backlog[i] = backlog[j] => i = j
  /\ \A i \in DOMAIN backlog : ~Holds(backlog[i]) /\ worker[backlog[i]] = "none"
                               /\ client[backlog[i]] # "new"
  /\ \A c \in Client : client[c] = "new" => worker[c] = "none" /\ accepted # c

\* An open descriptor is held by exactly the connection behind it; until the sweep
\* every connection held is open.
Open ==
  /\ \A c \in Client : worker[c] # "none" => clientSocket[c] \in FD
  /\ \A f \in FD : socketOf[f] # Nobody =>
       clientSocket[socketOf[f]] = f /\ Holds(socketOf[f])
  /\ main \in Unswept => \A c \in Client : Holds(c) => socketOf[clientSocket[c]] = c

\* A client registers once, and its id is below the next one.
Ids ==
  \A c \in Client :
    /\ worker[c] \in {"none", "register"} => clientId[c] = 0
    /\ message[c] = "REGISTER_REQUEST" => clientId[c] = 0 /\ worker[c] # "register"
    /\ clientId[c] < nextClientId

\* The sweep will reach the connection that is being handed to a worker.
Reached ==
  ~Swept /\ dispatcher = "spawn" /\ socketOf[clientSocket[accepted]] = accepted =>
    activeSockets[clientSocket[accepted]] > 0

\* After the sweep, who was at work has lost its connection.
Lost == Swept => \A c \in Client : worker[c] \in {"read", "register", "reply"} => Peer(c) = Nobody

IInv == /\ TypeOK /\ Phases /\ Listening /\ HandsOn /\ Queued /\ Open /\ Ids /\ Reached /\ Lost
        /\ DescriptorsOwned /\ RegistryExact
-----------------------------------------------------------------------------
LEMMA CreateSocketStep == ASSUME IInv, process = "up", CreateSocket PROVE IInv'
<1> USE NobodyAssumption DEF IInv, Handing, Listens, Unswept
<1>1. /\ dispatcher = "socket"
      /\ \/ serverSocket' = TRUE /\ listener' = "created" /\ dispatcher' = "listen"
         \/ dispatcher' = "ended" /\ UNCHANGED <<serverSocket, listener>>
      /\ UNCHANGED <<process, running, connectedClients, activeSockets,
                     nextClientId, mutex, accepted, worker, clientSocket,
                     clientId, main, victim, backlog, socketOf, halfClosed,
                     client, message, answered>>
  BY DEF CreateSocket, registry, dispatching, working, stopping, listening, sockets, clients
<1>2. TypeOK'
  <2>1. /\ serverSocket' \in BOOLEAN /\ listener' \in {"none", "created", "listening", "closed"}
        /\ dispatcher' \in {"listen", "ended"}
    BY <1>1 DEF TypeOK
  <2>2. QED
    BY <1>1, <2>1 DEF TypeOK
<1>3. Phases'
  BY <1>1 DEF Phases
<1>4. Listening'
  BY <1>1 DEF Listening
<1>5. HandsOn'
  BY <1>1 DEF HandsOn
<1>6. Queued'
  BY <1>1 DEF Queued, Holds
<1>7. Open'
  BY <1>1 DEF Open, Holds
<1>8. Ids'
  BY <1>1 DEF Ids
<1>9. Reached'
  BY <1>1 DEF Reached
<1>10. Lost'
  BY <1>1 DEF Lost, Peer, Swept
<1>11. DescriptorsOwned'
  BY <1>1 DEF DescriptorsOwned, Live, Peer
<1>12. RegistryExact'
  BY <1>1 DEF RegistryExact, Live, Peer, Swept
<1>13. QED
  BY <1>2, <1>3, <1>4, <1>5, <1>6, <1>7, <1>8, <1>9, <1>10, <1>11, <1>12

LEMMA ListenStep == ASSUME IInv, process = "up", Listen PROVE IInv'
<1> USE NobodyAssumption DEF IInv, Handing, Listens, Unswept
<1>1. /\ dispatcher = "listen"
      /\ \/ listener = "created" /\ listener' = "listening" /\ dispatcher' = "loop"
         \/ dispatcher' = "ended" /\ UNCHANGED listener
      /\ UNCHANGED <<process, running, serverSocket, connectedClients,
                     activeSockets, nextClientId, mutex, accepted, worker,
                     clientSocket, clientId, main, victim, backlog, socketOf,
                     halfClosed, client, message, answered>>
  BY DEF Listen, registry, dispatching, working, stopping, listening, sockets, clients
<1>2. TypeOK'
  BY <1>1 DEF TypeOK
<1>3. Phases'
  BY <1>1 DEF Phases
<1>4. Listening'
  BY <1>1 DEF Listening
<1>5. HandsOn'
  BY <1>1 DEF HandsOn
<1>6. Queued'
  BY <1>1 DEF Queued, Holds
<1>7. Open'
  BY <1>1 DEF Open, Holds
<1>8. Ids'
  BY <1>1 DEF Ids
<1>9. Reached'
  BY <1>1 DEF Reached
<1>10. Lost'
  BY <1>1 DEF Lost, Peer, Swept
<1>11. DescriptorsOwned'
  BY <1>1 DEF DescriptorsOwned, Live, Peer
<1>12. RegistryExact'
  BY <1>1 DEF RegistryExact, Live, Peer, Swept
<1>13. QED
  BY <1>2, <1>3, <1>4, <1>5, <1>6, <1>7, <1>8, <1>9, <1>10, <1>11, <1>12

LEMMA LoopStep == ASSUME IInv, process = "up", Loop PROVE IInv'
<1> USE NobodyAssumption DEF IInv, Handing, Listens, Unswept
<1>1. /\ dispatcher = "loop"
      /\ dispatcher' = IF running THEN "accept" ELSE "close"
      /\ UNCHANGED <<process, running, serverSocket, connectedClients,
                     activeSockets, nextClientId, mutex, accepted, worker,
                     clientSocket, clientId, main, victim, listener, backlog,
                     socketOf, halfClosed, client, message, answered>>
  BY DEF Loop, registry, dispatching, working, stopping, listening, sockets, clients
<1>2. TypeOK'
  BY <1>1 DEF TypeOK
<1>3. Phases'
  BY <1>1 DEF Phases
<1>4. Listening'
  BY <1>1 DEF Listening, Phases
<1>5. HandsOn'
  BY <1>1 DEF HandsOn
<1>6. Queued'
  BY <1>1 DEF Queued, Holds
<1>7. Open'
  BY <1>1 DEF Open, Holds
<1>8. Ids'
  BY <1>1 DEF Ids
<1>9. Reached'
  BY <1>1 DEF Reached
<1>10. Lost'
  BY <1>1 DEF Lost, Peer, Swept
<1>11. DescriptorsOwned'
  BY <1>1 DEF DescriptorsOwned, Live, Peer
<1>12. RegistryExact'
  BY <1>1 DEF RegistryExact, Live, Peer, Swept
<1>13. QED
  BY <1>2, <1>3, <1>4, <1>5, <1>6, <1>7, <1>8, <1>9, <1>10, <1>11, <1>12

LEMMA AcceptFailsStep == ASSUME IInv, process = "up", AcceptFails PROVE IInv'
<1> USE NobodyAssumption DEF IInv, Handing, Listens, Unswept
<1>1. /\ dispatcher = "accept"
      /\ dispatcher' = IF running THEN "loop" ELSE "close"
      /\ UNCHANGED <<process, running, serverSocket, connectedClients,
                     activeSockets, nextClientId, mutex, accepted, worker,
                     clientSocket, clientId, main, victim, listener, backlog,
                     socketOf, halfClosed, client, message, answered>>
  BY DEF AcceptFails, registry, dispatching, working, stopping, listening, sockets, clients
<1>2. TypeOK'
  BY <1>1 DEF TypeOK
<1>3. Phases'
  BY <1>1 DEF Phases
<1>4. Listening'
  BY <1>1 DEF Listening
<1>5. HandsOn'
  BY <1>1 DEF HandsOn
<1>6. Queued'
  BY <1>1 DEF Queued, Holds
<1>7. Open'
  BY <1>1 DEF Open, Holds
<1>8. Ids'
  BY <1>1 DEF Ids
<1>9. Reached'
  BY <1>1 DEF Reached
<1>10. Lost'
  BY <1>1 DEF Lost, Peer, Swept
<1>11. DescriptorsOwned'
  BY <1>1 DEF DescriptorsOwned, Live, Peer
<1>12. RegistryExact'
  BY <1>1 DEF RegistryExact, Live, Peer, Swept
<1>13. QED
  BY <1>2, <1>3, <1>4, <1>5, <1>6, <1>7, <1>8, <1>9, <1>10, <1>11, <1>12

LEMMA AcceptStep == ASSUME IInv, process = "up", Accept PROVE IInv'
<1> USE NobodyAssumption DEF IInv, Handing, Listens, Unswept
<1>1. PICK f \in FD :
        /\ socketOf[f] = Nobody
        /\ socketOf' = [socketOf EXCEPT ![f] = Head(backlog)]
        /\ clientSocket' = [clientSocket EXCEPT ![Head(backlog)] = f]
  BY DEF Accept
<1>2. /\ dispatcher = "accept" /\ listener = "listening" /\ backlog # <<>>
      /\ accepted' = Head(backlog) /\ backlog' = Tail(backlog) /\ dispatcher' = "check"
      /\ UNCHANGED <<process, running, serverSocket, connectedClients, activeSockets,
                     nextClientId, mutex, worker, clientId, main, victim, listener, halfClosed,
                     client, message, answered>>
  BY DEF Accept, registry, stopping, clients
<1> DEFINE h == Head(backlog)
<1>3. /\ backlog \in Seq(Client) /\ Len(backlog) \in Nat \ {0}
      /\ DOMAIN backlog = 1 .. Len(backlog) /\ h = backlog[1] /\ h \in Client
      /\ Tail(backlog) \in Seq(Client) /\ DOMAIN Tail(backlog) = 1 .. Len(backlog) - 1
      /\ \A i \in 1 .. Len(backlog) - 1 : Tail(backlog)[i] = backlog[i + 1]
  <2>1. backlog \in Seq(Client) /\ backlog # <<>>
    BY <1>2 DEF TypeOK
  <2>2. Len(backlog) \in Nat \ {0} /\ DOMAIN backlog = 1 .. Len(backlog)
    BY <2>1, EmptySeq, LenProperties
  <2>3. /\ h \in Client /\ h = backlog[1] /\ Tail(backlog) \in Seq(Client)
        /\ Len(Tail(backlog)) = Len(backlog) - 1
        /\ \A i \in 1 .. Len(backlog) - 1 : Tail(backlog)[i] = backlog[i + 1]
    BY <2>1, <2>2, HeadTailProperties
  <2>4. DOMAIN Tail(backlog) = 1 .. Len(backlog) - 1
    BY <2>3, LenProperties
  <2>5. QED
    BY <2>1, <2>2, <2>3, <2>4
<1>4. /\ accepted = Nobody /\ h # Nobody /\ worker[h] = "none" /\ client[h] # "new"
      /\ main \in Listens
  <2>1. ~Holds(h) /\ worker[h] = "none" /\ client[h] # "new"
    BY <1>3 DEF Queued
  <2>2. accepted = Nobody /\ main \in Listens
    BY <1>2 DEF HandsOn, Listening
  <2>3. QED
    BY <1>3, <2>1, <2>2
<1> HIDE DEF h
<1>5. /\ socketOf' = [socketOf EXCEPT ![f] = h] /\ clientSocket' = [clientSocket EXCEPT ![h] = f]
      /\ accepted' = h /\ socketOf'[f] = h /\ clientSocket'[h] = f
      /\ \A x \in FD \ {f} : socketOf'[x] = socketOf[x]
      /\ \A c \in Client \ {h} : clientSocket'[c] = clientSocket[c]
  BY <1>1, <1>2, <1>3 DEF h, TypeOK
<1>6. \A c \in Client \ {h} : worker[c] \notin {"none", "ended"} =>
        clientSocket[c] \in FD \ {f} /\ socketOf[clientSocket[c]] = c
  BY <1>1, <1>4 DEF Open, Holds
<1>7. \A x \in FD : socketOf[x] # h
  <2>1. ~Holds(h)
    BY <1>3 DEF Queued, h
  <2>2. QED
    BY <1>4, <2>1 DEF Open
<1>8. TypeOK'
  <2>1. /\ socketOf' \in [FD -> Client \union {Nobody}]
        /\ clientSocket' \in [Client -> FD \union {Nobody}]
    BY <1>3, <1>5 DEF TypeOK
  <2>2. /\ dispatcher' \in {"socket", "listen", "loop", "accept", "check",
                             "track", "spawn", "close", "ended"}
        /\ accepted' \in Client /\ accepted' # Nobody /\ worker'[accepted'] = "none"
        /\ backlog' \in Seq(Client)
    BY <1>2, <1>3, <1>4, <1>5
  <2>3. QED
    BY <1>2, <2>1, <2>2 DEF TypeOK
<1>9. Phases'
  BY <1>2, <1>3, <1>4, <1>5, <1>6, <1>7 DEF Phases, TypeOK
<1>10. Listening'
  BY <1>2, <1>3, <1>4, <1>5, <1>6, <1>7 DEF Listening, Phases, TypeOK
<1>11. HandsOn'
  BY <1>2, <1>5 DEF HandsOn
<1>12. Queued'
  <2>1. /\ DOMAIN backlog' = 1 .. Len(backlog) - 1
        /\ \A i \in DOMAIN backlog' : i + 1 \in DOMAIN backlog /\ backlog'[i] = backlog[i + 1]
    BY <1>2, <1>3
  <2>2. \A i, j \in DOMAIN backlog' : backlog'[i] = backlog'[j] => i = j
    BY <1>3, <2>1 DEF Queued
  <2>3. ASSUME NEW i \in DOMAIN backlog'
        PROVE  backlog'[i] # h /\ worker[backlog'[i]] = "none" /\ client[backlog'[i]] # "new"
    <3>1. i + 1 \in DOMAIN backlog /\ 1 \in DOMAIN backlog /\ i + 1 # 1 /\ backlog'[i] = backlog[i + 1]
      BY <1>3, <2>1
    <3>2. backlog[i + 1] # backlog[1]
      BY <3>1 DEF Queued
    <3>3. QED
      BY <1>3, <3>1, <3>2 DEF Queued
  <2>4. \A c \in Client : client[c] = "new" => worker[c] = "none" /\ c # h
    BY <1>4 DEF Queued
  <2>5. QED
    BY <1>2, <1>5, <2>2, <2>3, <2>4 DEF Queued, Holds
<1>13. Open'
  <2>1. \A c \in Client : worker[c] # "none" => clientSocket'[c] \in FD
    BY <1>4, <1>5 DEF Open
  <2>2. ASSUME NEW x \in FD, socketOf'[x] # Nobody
        PROVE  /\ clientSocket'[socketOf'[x]] = x
               /\ socketOf'[x] = h \/ worker[socketOf'[x]] \notin {"none", "ended"}
    <3>1. CASE x = f
      BY <1>5, <3>1
    <3>2. CASE x # f
      <4>1. socketOf'[x] = socketOf[x] /\ socketOf[x] # h /\ socketOf[x] \in Client
        BY <1>5, <1>7, <2>2, <3>2 DEF TypeOK
      <4>2. clientSocket[socketOf[x]] = x /\ worker[socketOf[x]] \notin {"none", "ended"}
        BY <1>4, <2>2, <4>1 DEF Open, Holds
      <4>3. QED
        BY <1>5, <4>1, <4>2
    <3>3. QED
      BY <3>1, <3>2
  <2>3. ASSUME NEW c \in Client, c = h \/ worker[c] \notin {"none", "ended"}
        PROVE  socketOf'[clientSocket'[c]] = c
    BY <1>5, <1>6, <2>3
  <2>4. QED
    BY <1>2, <1>5, <2>1, <2>2, <2>3 DEF Open, Holds
<1>14. Ids'
  BY <1>2, <1>3, <1>4, <1>5, <1>6, <1>7 DEF Ids, TypeOK
<1>15. Reached'
  BY <1>2 DEF Reached
<1>16. Lost'
  BY <1>2, <1>4 DEF Lost, Swept
<1>17. DescriptorsOwned'
  <2>1. \A c \in Client : Live(c)' \/ worker'[c] = "close" => Peer(c)' = c
    <3>1. ASSUME NEW c \in Client, worker[c] \notin {"none", "ended"}
          PROVE  socketOf'[clientSocket'[c]] = c
      BY <1>4, <1>5, <1>6, <3>1
    <3>2. QED
      BY <1>2, <3>1 DEF Live, Peer
  <2>2. QED
    BY <1>5, <2>1 DEF DescriptorsOwned
<1>18. RegistryExact'
  <2>1. \A d \in Client : Live(d)' <=> Live(d)
    BY <1>2 DEF Live
  <2>2. \A d \in Client : Live(d) => d # h /\ clientSocket'[d] = clientSocket[d] /\ Peer(d) = d
    BY <1>4, <1>5, <1>6 DEF Live, Peer
  <2> DEFINE A == {d \in Client : clientId[d] # 0 /\ Live(d)}
  <2>3. {d \in Client : clientId'[d] # 0 /\ Live(d)'} = A /\ \A d \in A : clientSocket'[d] = clientSocket[d]
    BY <1>2, <2>1, <2>2
  <2> HIDE DEF A
  <2>4. ~Swept => connectedClients =
          {[id |-> clientId[d], client |-> d, socket |-> clientSocket'[d]] : d \in A}
    <3>1. ~Swept => connectedClients = {[id |-> clientId[d], client |-> d, socket |-> clientSocket[d]] : d \in A}
      BY DEF RegistryExact, A
    <3>2. QED
      BY <2>3, <3>1
  <2>5. ASSUME ~Swept, NEW d \in Client, Live(d)' PROVE activeSockets[clientSocket'[d]] > 0
    BY <2>1, <2>2, <2>5 DEF RegistryExact
  <2>6. \A c, d \in Client : clientId[c] = clientId[d] /\ clientId[c] # 0 => c = d
    BY DEF RegistryExact
  <2>7. QED
    BY <1>2, <2>3, <2>4, <2>5, <2>6 DEF RegistryExact, Swept
<1>19. QED
  BY <1>8, <1>9, <1>10, <1>11, <1>12, <1>13, <1>14, <1>15, <1>16, <1>17, <1>18

LEMMA CheckStep == ASSUME IInv, process = "up", Check PROVE IInv'
<1> USE NobodyAssumption DEF IInv, Handing, Listens, Unswept
<1>1. /\ dispatcher = "check"
      /\ UNCHANGED <<process, running, serverSocket, connectedClients, activeSockets,
                     nextClientId, mutex, worker, clientSocket, clientId, main, victim, listener,
                     backlog, halfClosed, client, message, answered>>
  BY DEF Check, registry, working, stopping, listening, sockets, clients
<1>2. /\ accepted \in Client /\ worker[accepted] = "none" /\ clientSocket[accepted] \in FD
  BY <1>1 DEF TypeOK, HandsOn
<1>3. \/ dispatcher' = "track" /\ UNCHANGED <<accepted, socketOf>>
      \/ /\ dispatcher' = "close" /\ accepted' = Nobody
         /\ socketOf' = [socketOf EXCEPT ![clientSocket[accepted]] = Nobody]
  BY DEF Check, sockets
<1>4. /\ \A f \in FD : socketOf'[f] \in {socketOf[f], Nobody}
      /\ accepted' = Nobody => \A f \in FD : socketOf[f] = accepted => socketOf'[f] = Nobody
      /\ \A f \in FD : socketOf'[f] = socketOf[f] \/ f = clientSocket[accepted]
      /\ accepted' # Nobody => UNCHANGED <<accepted, socketOf>>
      /\ accepted' \in {accepted, Nobody}
      /\ socketOf' \in [FD -> Client \union {Nobody}] /\ dispatcher' \in {"track", "close"}
      /\ dispatcher' = "track" => accepted' # Nobody
      /\ dispatcher' = "close" => accepted' = Nobody
  <2>1. /\ socketOf \in [FD -> Client \union {Nobody}]
        /\ \A f \in FD : socketOf[f] = accepted => f = clientSocket[accepted]
    BY <1>2 DEF TypeOK, Open
  <2>2. CASE dispatcher' = "track" /\ UNCHANGED <<accepted, socketOf>>
    BY <1>2, <2>1, <2>2
  <2>3. CASE /\ dispatcher' = "close" /\ accepted' = Nobody
             /\ socketOf' = [socketOf EXCEPT ![clientSocket[accepted]] = Nobody]
    BY <1>2, <2>1, <2>3
  <2>4. QED
    BY <1>3, <2>2, <2>3
<1>5. \A c \in Client : worker[c] \notin {"none", "ended"} => clientSocket[c] \in FD /\ c # accepted
  BY <1>2 DEF Open
<1>6. main \in Unswept => \A c \in Client : worker[c] \notin {"none", "ended"} =>
        socketOf'[clientSocket[c]] = c
  BY <1>2, <1>4, <1>5 DEF Open, Holds
<1>7. TypeOK'
  BY <1>1, <1>2, <1>4, <1>5, <1>6 DEF TypeOK
<1>8. Phases'
  BY <1>1, <1>2, <1>4, <1>5, <1>6 DEF Phases
<1>9. Listening'
  BY <1>1, <1>2, <1>4, <1>5, <1>6 DEF Listening
<1>10. HandsOn'
  BY <1>1, <1>2, <1>4, <1>5, <1>6 DEF HandsOn
<1>11. Queued'
  BY <1>1, <1>2, <1>4, <1>5, <1>6 DEF Queued, Holds, TypeOK
<1>12. Open'
  BY <1>1, <1>2, <1>4, <1>5, <1>6 DEF Open, Holds
<1>13. Ids'
  BY <1>1, <1>2, <1>4, <1>5, <1>6 DEF Ids
<1>14. Reached'
  BY <1>1, <1>2, <1>4, <1>5, <1>6 DEF Reached
<1>15. Lost'
  BY <1>1, <1>2, <1>4, <1>5, <1>6 DEF Lost, Peer, Swept
<1>16. DescriptorsOwned'
  BY <1>1, <1>2, <1>4, <1>5, <1>6 DEF DescriptorsOwned, Live, Peer
<1>17. RegistryExact'
  BY <1>1, <1>2, <1>4, <1>5, <1>6 DEF RegistryExact, Live, Peer, Swept
<1>18. QED
  BY <1>7, <1>8, <1>9, <1>10, <1>11, <1>12, <1>13, <1>14, <1>15, <1>16, <1>17

LEMMA TrackStep == ASSUME IInv, process = "up", Track PROVE IInv'
<1> USE NobodyAssumption DEF IInv, Handing, Listens, Unswept
<1>1. /\ dispatcher = "track" /\ mutex = "free"
      /\ activeSockets' = [activeSockets EXCEPT ![clientSocket[accepted]] = @ + 1]
      /\ dispatcher' = "spawn"
      /\ UNCHANGED <<process, running, serverSocket, connectedClients,
                     nextClientId, mutex, accepted, worker, clientSocket,
                     clientId, main, victim, listener, backlog, socketOf,
                     halfClosed, client, message, answered>>
  BY DEF Track, registry, dispatching, working, stopping, listening, sockets, clients
<1>2. TypeOK'
  <2>1. activeSockets' \in [FD -> Nat]
    <3>1. clientSocket[accepted] \in FD
      BY <1>1 DEF HandsOn, TypeOK
    <3>2. activeSockets \in [FD -> Nat] /\ activeSockets[clientSocket[accepted]] \in Nat
      BY <3>1 DEF TypeOK
    <3> DEFINE a == activeSockets[clientSocket[accepted]] + 1
    <3>3. a \in Nat /\ activeSockets' = [activeSockets EXCEPT ![clientSocket[accepted]] = a]
      BY <1>1, <3>2
    <3> HIDE DEF a
    <3>4. QED
      BY <3>2, <3>3
  <2>2. dispatcher' = "spawn" /\ accepted # Nobody /\ worker[accepted] = "none"
    BY <1>1 DEF TypeOK
  <2>3. QED
    BY <1>1, <2>1, <2>2 DEF TypeOK
<1>3. Phases'
  BY <1>1 DEF Phases
<1>4. Listening'
  BY <1>1 DEF Listening
<1>5. HandsOn'
  BY <1>1 DEF HandsOn
<1>6. Queued'
  BY <1>1 DEF Queued, Holds
<1>7. Open'
  BY <1>1 DEF Open, Holds
<1>8. Ids'
  BY <1>1 DEF Ids
<1>9. Reached'
  <2>1. clientSocket[accepted] \in FD
    BY <1>1 DEF HandsOn, TypeOK
  <2>2. activeSockets'[clientSocket[accepted]] > 0
    BY <1>1, <2>1 DEF TypeOK
  <2>3. QED
    BY <1>1, <2>2 DEF Reached
<1>10. Lost'
  BY <1>1 DEF Lost, Peer, Swept
<1>11. DescriptorsOwned'
  BY <1>1 DEF DescriptorsOwned, Live, Peer
<1>12. RegistryExact'
  BY <1>1 DEF RegistryExact, Live, Peer, Swept, TypeOK
<1>13. QED
  BY <1>2, <1>3, <1>4, <1>5, <1>6, <1>7, <1>8, <1>9, <1>10, <1>11, <1>12

LEMMA SpawnStep == ASSUME IInv, process = "up", Spawn PROVE IInv'
<1> USE NobodyAssumption DEF IInv, Handing, Listens, Unswept
<1>1. /\ dispatcher = "spawn"
      /\ worker' = [worker EXCEPT ![accepted] = "loop"]
      /\ accepted' = Nobody /\ dispatcher' = "loop"
      /\ UNCHANGED <<process, running, serverSocket, connectedClients,
                     activeSockets, nextClientId, mutex, clientSocket,
                     clientId, main, victim, listener, backlog, socketOf,
                     halfClosed, client, message, answered>>
  BY DEF Spawn, registry, dispatching, working, stopping, listening, sockets, clients
<1>2. TypeOK'
  BY <1>1 DEF TypeOK
<1>3. Phases'
  BY <1>1 DEF Phases
<1>4. Listening'
  BY <1>1 DEF Listening
<1>5. HandsOn'
  BY <1>1 DEF HandsOn
<1>6. Queued'
  BY <1>1 DEF Queued, Holds, TypeOK
<1>7. Open'
  BY <1>1 DEF Open, Holds, HandsOn, TypeOK
<1>8. Ids'
  BY <1>1 DEF Ids
<1>9. Reached'
  BY <1>1 DEF Reached
<1>10. Lost'
  BY <1>1 DEF Lost, Peer, Swept
<1>11. DescriptorsOwned'
  BY <1>1 DEF DescriptorsOwned, Live, Peer
<1>12. RegistryExact'
  <2>1. accepted \in Client /\ clientId[accepted] = 0 /\ worker[accepted] = "none"
    BY <1>1 DEF TypeOK, Ids
  <2>2. \A d \in Client \ {accepted} : Live(d)' <=> Live(d)
    BY <1>1, <2>1 DEF Live, TypeOK
  <2>3. {d \in Client : clientId'[d] # 0 /\ Live(d)'} = {d \in Client : clientId[d] # 0 /\ Live(d)}
    BY <1>1, <2>1, <2>2
  <2>4. ASSUME ~Swept, NEW d \in Client, Live(d)', Peer(d)' = d
        PROVE  activeSockets[clientSocket[d]] > 0
    <3>1. CASE d = accepted
      BY <1>1, <2>4, <3>1 DEF Reached, Peer
    <3>2. CASE d # accepted
      BY <1>1, <2>2, <2>4, <3>2 DEF RegistryExact, Peer
    <3>3. QED
      BY <3>1, <3>2
  <2>5. QED
    BY <1>1, <2>3, <2>4 DEF RegistryExact, Swept
<1>13. QED
  BY <1>2, <1>3, <1>4, <1>5, <1>6, <1>7, <1>8, <1>9, <1>10, <1>11, <1>12

LEMMA CloseListenerStep == ASSUME IInv, process = "up", CloseListener PROVE IInv'
<1> USE NobodyAssumption DEF IInv, Handing, Listens, Unswept
<1>1. /\ dispatcher = "close"
      /\ listener' = IF serverSocket THEN "closed" ELSE listener
      /\ dispatcher' = "ended"
      /\ UNCHANGED <<process, running, serverSocket, connectedClients,
                     activeSockets, nextClientId, mutex, accepted, worker,
                     clientSocket, clientId, main, victim, backlog, socketOf,
                     halfClosed, client, message, answered>>
  BY DEF CloseListener, registry, dispatching, working, stopping, listening, sockets, clients
<1>2. TypeOK'
  BY <1>1 DEF TypeOK
<1>3. Phases'
  BY <1>1 DEF Phases
<1>4. Listening'
  BY <1>1 DEF Listening
<1>5. HandsOn'
  BY <1>1 DEF HandsOn
<1>6. Queued'
  BY <1>1 DEF Queued, Holds
<1>7. Open'
  BY <1>1 DEF Open, Holds
<1>8. Ids'
  BY <1>1 DEF Ids
<1>9. Reached'
  BY <1>1 DEF Reached
<1>10. Lost'
  BY <1>1 DEF Lost, Peer, Swept
<1>11. DescriptorsOwned'
  BY <1>1 DEF DescriptorsOwned, Live, Peer
<1>12. RegistryExact'
  BY <1>1 DEF RegistryExact, Live, Peer, Swept
<1>13. QED
  BY <1>2, <1>3, <1>4, <1>5, <1>6, <1>7, <1>8, <1>9, <1>10, <1>11, <1>12

LEMMA WorkerLoopStep == ASSUME IInv, process = "up", NEW c \in Client, WorkerLoop(c) PROVE IInv'
<1> USE NobodyAssumption DEF IInv, Handing, Listens, Unswept
<1>1. /\ worker[c] = "loop"
      /\ worker' = [worker EXCEPT ![c] = IF running THEN "read" ELSE "erase"]
      /\ UNCHANGED <<process, running, serverSocket, connectedClients,
                     activeSockets, nextClientId, mutex, dispatcher, accepted,
                     clientSocket, clientId, main, victim, listener, backlog,
                     socketOf, halfClosed, client, message, answered>>
  BY DEF WorkerLoop, registry, dispatching, working, stopping, listening, sockets, clients, WorkerGoes
<1>2. TypeOK'
  BY <1>1 DEF TypeOK
<1>3. Phases'
  BY <1>1 DEF Phases
<1>4. Listening'
  BY <1>1 DEF Listening
<1>5. HandsOn'
  BY <1>1 DEF HandsOn
<1>6. Queued'
  BY <1>1 DEF Queued, Holds
<1>7. Open'
  BY <1>1 DEF Open, Holds
<1>8. Ids'
  BY <1>1 DEF Ids
<1>9. Reached'
  BY <1>1 DEF Reached, Swept
<1>10. Lost'
  BY <1>1 DEF Lost, Peer, Swept, Phases
<1>11. DescriptorsOwned'
  BY <1>1 DEF DescriptorsOwned, Live, Peer
<1>12. RegistryExact'
  BY <1>1 DEF RegistryExact, Live, Peer, Swept
<1>13. QED
  BY <1>2, <1>3, <1>4, <1>5, <1>6, <1>7, <1>8, <1>9, <1>10, <1>11, <1>12

LEMMA ReadStep == ASSUME IInv, process = "up", NEW c \in Client, Read(c) PROVE IInv'
<1> USE NobodyAssumption DEF IInv, Handing, Listens, Unswept
<1>1. Peer(c) = c /\ Peer(c) # Nobody /\ worker[c] = "read"
  BY DEF Read, Readable, DescriptorsOwned, Live
<1>2. PICK where \in {"register", "reply", "erase"} :
        /\ worker' = [worker EXCEPT ![c] = where]
        /\ where = "register" => message[c] = "REGISTER_REQUEST"
  <2>1. message[c] \in {"REGISTER_REQUEST", "REQUEST", "QUIT"}
    BY <1>1 DEF Read, TypeOK
  <2>2. QED
    BY <1>1, <2>1 DEF Read, WorkerGoes
<1>3. /\ message' = [message EXCEPT ![c] = "none"]
      /\ UNCHANGED <<process, running, serverSocket, connectedClients, activeSockets,
                     nextClientId, mutex, dispatcher, accepted, clientSocket, clientId, main,
                     victim, listener, backlog, socketOf, halfClosed, client, answered>>
      /\ worker'[c] = where /\ \A d \in Client \ {c} : worker'[d] = worker[d]
      /\ message'[c] = "none" /\ \A d \in Client \ {c} : message'[d] = message[d]
  BY <1>1, <1>2 DEF Read, registry, dispatching, stopping, listening, sockets, TypeOK
<1>4. TypeOK'
  BY <1>1, <1>2, <1>3 DEF TypeOK
<1>5. Phases'
  BY <1>1, <1>2, <1>3 DEF Phases
<1>6. Listening'
  BY <1>1, <1>2, <1>3 DEF Listening
<1>7. HandsOn'
  BY <1>1, <1>2, <1>3 DEF HandsOn
<1>8. Queued'
  BY <1>1, <1>2, <1>3 DEF Queued, Holds
<1>9. Open'
  BY <1>1, <1>2, <1>3 DEF Open, Holds
<1>10. Ids'
  BY <1>1, <1>2, <1>3 DEF Ids
<1>11. Reached'
  BY <1>1, <1>2, <1>3 DEF Reached, Swept
<1>12. Lost'
  BY <1>1, <1>2, <1>3 DEF Lost, Swept
<1>13. DescriptorsOwned'
  BY <1>1, <1>2, <1>3 DEF DescriptorsOwned, Live, Peer
<1>14. RegistryExact'
  BY <1>1, <1>2, <1>3 DEF RegistryExact, Live, Peer, Swept
<1>15. QED
  BY <1>4, <1>5, <1>6, <1>7, <1>8, <1>9, <1>10, <1>11, <1>12, <1>13, <1>14

LEMMA ReadFailsStep == ASSUME IInv, process = "up", NEW c \in Client, ReadFails(c) PROVE IInv'
<1> USE NobodyAssumption DEF IInv, Handing, Listens, Unswept
<1>1. /\ worker[c] = "read"
      /\ worker' = [worker EXCEPT ![c] = "erase"]
      /\ UNCHANGED <<process, running, serverSocket, connectedClients,
                     activeSockets, nextClientId, mutex, dispatcher, accepted,
                     clientSocket, clientId, main, victim, listener, backlog,
                     socketOf, halfClosed, client, message, answered>>
  BY DEF ReadFails, registry, dispatching, working, stopping, listening, sockets, clients, WorkerGoes
<1>2. TypeOK'
  BY <1>1 DEF TypeOK
<1>3. Phases'
  BY <1>1 DEF Phases
<1>4. Listening'
  BY <1>1 DEF Listening
<1>5. HandsOn'
  BY <1>1 DEF HandsOn
<1>6. Queued'
  BY <1>1 DEF Queued, Holds
<1>7. Open'
  BY <1>1 DEF Open, Holds
<1>8. Ids'
  BY <1>1 DEF Ids
<1>9. Reached'
  BY <1>1 DEF Reached, Swept
<1>10. Lost'
  BY <1>1 DEF Lost, Peer, Swept
<1>11. DescriptorsOwned'
  BY <1>1 DEF DescriptorsOwned, Live, Peer
<1>12. RegistryExact'
  BY <1>1 DEF RegistryExact, Live, Peer, Swept
<1>13. QED
  BY <1>2, <1>3, <1>4, <1>5, <1>6, <1>7, <1>8, <1>9, <1>10, <1>11, <1>12

LEMMA RegisterStep == ASSUME IInv, process = "up", NEW c \in Client, Register(c) PROVE IInv'
<1> USE NobodyAssumption DEF IInv, Handing, Listens, Unswept
<1>1. /\ worker[c] = "register" /\ mutex = "free"
      /\ clientId' = [clientId EXCEPT ![c] = nextClientId]
      /\ connectedClients' = {e \in connectedClients : e.id # nextClientId}
             \union {[id |-> nextClientId, client |-> c, socket |-> clientSocket[c]]}
      /\ nextClientId' = nextClientId + 1
      /\ worker' = [worker EXCEPT ![c] = "reply"]
      /\ UNCHANGED <<process, running, serverSocket, activeSockets, mutex,
                     dispatcher, accepted, clientSocket, main, victim,
                     listener, backlog, socketOf, halfClosed, client, message,
                     answered>>
  BY DEF Register, registry, dispatching, working, stopping, listening, sockets, clients, WorkerGoes
<1>2. TypeOK'
  <2>1. worker' \in [Client -> {"none", "loop", "read", "register", "reply", "erase",
                                     "close", "ended"}]
    BY <1>1 DEF TypeOK
  <2>2. dispatcher \in Handing => worker'[accepted] = "none"
    BY <1>1 DEF TypeOK
  <2>3. clientId' \in [Client -> Nat] /\ nextClientId' \in Nat \ {0}
    BY <1>1 DEF TypeOK
  <2>4. connectedClients' \subseteq [id : Nat \ {0}, client : Client, socket : FD]
    BY <1>1 DEF TypeOK, Open
  <2>5. QED
    BY <1>1, <2>1, <2>2, <2>3, <2>4 DEF TypeOK
<1>3. Phases'
  BY <1>1 DEF Phases
<1>4. Listening'
  BY <1>1 DEF Listening
<1>5. HandsOn'
  BY <1>1 DEF HandsOn
<1>6. Queued'
  BY <1>1 DEF Queued, Holds
<1>7. Open'
  BY <1>1 DEF Open, Holds
<1>8. Ids'
  BY <1>1 DEF Ids, TypeOK
<1>9. Reached'
  BY <1>1 DEF Reached, Swept
<1>10. Lost'
  BY <1>1 DEF Lost, Peer, Swept
<1>11. DescriptorsOwned'
  BY <1>1 DEF DescriptorsOwned, Live, Peer
<1>12. RegistryExact'
  <2>1. Live(c) /\ Live(c)' /\ \A d \in Client \ {c} : Live(d)' <=> Live(d)
    BY <1>1 DEF Live, TypeOK
  <2>2. /\ clientId[c] = 0 /\ clientId'[c] = nextClientId /\ nextClientId # 0
        /\ \A d \in Client \ {c} : clientId'[d] = clientId[d] /\ clientId[d] # nextClientId
    BY <1>1 DEF Ids, TypeOK
  <2> DEFINE A == {d \in Client : clientId[d] # 0 /\ Live(d)}
  <2>3. {d \in Client : clientId'[d] # 0 /\ Live(d)'} = A \union {c}
    BY <2>1, <2>2
  <2>4. c \notin A /\ \A d \in A : clientId'[d] = clientId[d] /\ clientId[d] # nextClientId
    BY <2>2
  <2> HIDE DEF A
  <2>5. ASSUME ~Swept
        PROVE  connectedClients' =
                 {[id |-> clientId'[d], client |-> d, socket |-> clientSocket[d]] : d \in A \union {c}}
    <3>1. connectedClients = {[id |-> clientId[d], client |-> d, socket |-> clientSocket[d]] : d \in A}
      BY <2>5 DEF RegistryExact, A
    <3>2. {e \in connectedClients : e.id # nextClientId} = connectedClients
      BY <2>4, <3>1
    <3>3. connectedClients = {[id |-> clientId'[d], client |-> d, socket |-> clientSocket[d]] : d \in A}
      BY <2>4, <3>1
    <3>4. QED
      BY <1>1, <2>2, <3>2, <3>3
  <2>6. \A d, e \in Client : clientId'[d] = clientId'[e] /\ clientId'[d] # 0 => d = e
    BY <2>2 DEF RegistryExact
  <2>7. \A d \in Client : Live(d)' /\ Peer(d)' = d => Live(d) /\ Peer(d) = d
    BY <1>1, <2>1 DEF Peer
  <2>8. QED
    BY <1>1, <2>3, <2>5, <2>6, <2>7 DEF RegistryExact, Swept
<1>13. QED
  BY <1>2, <1>3, <1>4, <1>5, <1>6, <1>7, <1>8, <1>9, <1>10, <1>11, <1>12

LEMMA ReplyStep == ASSUME IInv, process = "up", NEW c \in Client, Reply(c) PROVE IInv'
<1> USE NobodyAssumption DEF IInv, Handing, Listens, Unswept
<1>1. /\ worker[c] = "reply" /\ worker' = [worker EXCEPT ![c] = "loop"]
      /\ UNCHANGED <<running, serverSocket, connectedClients, activeSockets, nextClientId,
                     mutex, dispatcher, accepted, clientSocket, clientId, main, victim,
                     listener, backlog, socketOf, halfClosed, client, message>>
  BY DEF Reply, registry, dispatching, stopping, listening, sockets, WorkerGoes
<1>2. process' \in {"up", "killed"} /\ answered' \subseteq Client
  <2>1. clientSocket[c] \in FD /\ Peer(c) \in Client \union {Nobody}
    BY <1>1 DEF Open, Peer, TypeOK
  <2>2. QED
    BY <2>1 DEF Reply, Readable, TypeOK
<1>3. TypeOK'
  <2>1. worker' \in [Client -> {"none", "loop", "read", "register", "reply", "erase",
                                     "close", "ended"}]
    BY <1>1 DEF TypeOK
  <2>2. dispatcher \in Handing => worker'[accepted] = "none"
    BY <1>1 DEF TypeOK
  <2>3. QED
    BY <1>1, <1>2, <2>1, <2>2 DEF TypeOK
<1>4. Phases'
  BY <1>1, <1>2 DEF Phases
<1>5. Listening'
  BY <1>1, <1>2 DEF Listening
<1>6. HandsOn'
  BY <1>1, <1>2 DEF HandsOn
<1>7. Queued'
  BY <1>1, <1>2 DEF Queued, Holds
<1>8. Open'
  BY <1>1, <1>2 DEF Open, Holds
<1>9. Ids'
  BY <1>1, <1>2 DEF Ids
<1>10. Reached'
  BY <1>1, <1>2 DEF Reached, Swept
<1>11. Lost'
  BY <1>1, <1>2 DEF Lost, Peer, Swept
<1>12. DescriptorsOwned'
  BY <1>1, <1>2 DEF DescriptorsOwned, Live, Peer
<1>13. RegistryExact'
  BY <1>1, <1>2 DEF RegistryExact, Live, Peer, Swept
<1>14. QED
  BY <1>3, <1>4, <1>5, <1>6, <1>7, <1>8, <1>9, <1>10, <1>11, <1>12, <1>13

LEMMA EraseStep == ASSUME IInv, process = "up", NEW c \in Client, Erase(c) PROVE IInv'
<1> USE NobodyAssumption DEF IInv, Handing, Listens, Unswept
<1>1. /\ worker[c] = "erase" /\ mutex = "free"
      /\ connectedClients' = {e \in connectedClients : e.id # clientId[c]}
      /\ activeSockets' = [activeSockets EXCEPT ![clientSocket[c]] = IF @ > 0 THEN @ - 1 ELSE 0]
      /\ worker' = [worker EXCEPT ![c] = "close"]
      /\ UNCHANGED <<process, running, serverSocket, nextClientId, mutex,
                     dispatcher, accepted, clientSocket, clientId, main,
                     victim, listener, backlog, socketOf, halfClosed, client,
                     message, answered>>
  BY DEF Erase, registry, dispatching, working, stopping, listening, sockets, clients, WorkerGoes
<1>2. TypeOK'
  <2>1. worker' \in [Client -> {"none", "loop", "read", "register", "reply", "erase",
                                     "close", "ended"}]
    BY <1>1 DEF TypeOK
  <2>2. dispatcher \in Handing => worker'[accepted] = "none"
    BY <1>1 DEF TypeOK
  <2>3. activeSockets' \in [FD -> Nat]
    <3>1. clientSocket[c] \in FD
      BY <1>1 DEF Open
    <3>2. activeSockets \in [FD -> Nat] /\ activeSockets[clientSocket[c]] \in Nat
      BY <3>1 DEF TypeOK
    <3> DEFINE a == IF activeSockets[clientSocket[c]] > 0 THEN activeSockets[clientSocket[c]] - 1 ELSE 0
    <3>3. a \in Nat /\ activeSockets' = [activeSockets EXCEPT ![clientSocket[c]] = a]
      BY <1>1, <3>2
    <3> HIDE DEF a
    <3>4. QED
      BY <3>2, <3>3
  <2>4. connectedClients' \subseteq [id : Nat \ {0}, client : Client, socket : FD]
    BY <1>1 DEF TypeOK
  <2>5. QED
    BY <1>1, <2>1, <2>2, <2>3, <2>4 DEF TypeOK
<1>3. Phases'
  BY <1>1 DEF Phases
<1>4. Listening'
  BY <1>1 DEF Listening
<1>5. HandsOn'
  BY <1>1 DEF HandsOn
<1>6. Queued'
  BY <1>1 DEF Queued, Holds
<1>7. Open'
  BY <1>1 DEF Open, Holds
<1>8. Ids'
  BY <1>1 DEF Ids
<1>9. Reached'
  <2>1. ASSUME dispatcher = "spawn", socketOf[clientSocket[accepted]] = accepted
        PROVE  clientSocket[accepted] # clientSocket[c]
    BY <1>1, <2>1 DEF DescriptorsOwned, Live, Peer, TypeOK
  <2>2. QED
    BY <1>1, <2>1 DEF Reached, Swept, HandsOn, TypeOK
<1>10. Lost'
  BY <1>1 DEF Lost, Peer, Swept
<1>11. DescriptorsOwned'
  BY <1>1 DEF DescriptorsOwned, Live, Peer
<1>12. RegistryExact'
  <2>1. Live(c) /\ ~Live(c)' /\ \A d \in Client \ {c} : Live(d)' <=> Live(d)
    BY <1>1 DEF Live, TypeOK
  <2> DEFINE A == {d \in Client : clientId[d] # 0 /\ Live(d)}
  <2>2. {d \in Client : clientId'[d] # 0 /\ Live(d)'} = A \ {c}
    BY <1>1, <2>1
  <2>3. \A d \in A : clientId[d] # clientId[c] <=> d # c
    BY DEF RegistryExact
  <2> HIDE DEF A
  <2>4. ASSUME ~Swept PROVE connectedClients' = {[id |-> clientId[d], client |-> d, socket |-> clientSocket[d]] : d \in A \ {c}}
    <3>1. connectedClients = {[id |-> clientId[d], client |-> d, socket |-> clientSocket[d]] : d \in A}
      BY <2>4 DEF RegistryExact, A
    <3>2. QED
      BY <1>1, <2>3, <3>1
  <2>5. ASSUME ~Swept, NEW d \in Client, Live(d)', Peer(d)' = d
        PROVE  activeSockets'[clientSocket[d]] > 0
    <3>1. Live(d) /\ d # c /\ Peer(d) = d /\ clientSocket[d] \in FD
      BY <1>1, <2>1, <2>5 DEF Peer, Open, Live
    <3>2. clientSocket[d] # clientSocket[c]
      BY <2>1, <3>1 DEF DescriptorsOwned, Peer
    <3>3. activeSockets[clientSocket[d]] > 0
      BY <2>5, <3>1 DEF RegistryExact
    <3>4. QED
      BY <1>1, <3>1, <3>2, <3>3 DEF TypeOK
  <2>6. QED
    BY <1>1, <2>2, <2>4, <2>5 DEF RegistryExact, Swept
<1>13. QED
  BY <1>2, <1>3, <1>4, <1>5, <1>6, <1>7, <1>8, <1>9, <1>10, <1>11, <1>12

LEMMA CloseStep == ASSUME IInv, process = "up", NEW c \in Client, Close(c) PROVE IInv'
<1> USE NobodyAssumption DEF IInv, Handing, Listens, Unswept
<1>1. /\ worker[c] = "close"
      /\ socketOf' = [socketOf EXCEPT ![clientSocket[c]] = Nobody]
      /\ halfClosed' \subseteq halfClosed
      /\ worker' = [worker EXCEPT ![c] = "ended"]
      /\ UNCHANGED <<process, running, serverSocket, connectedClients,
                     activeSockets, nextClientId, mutex, dispatcher, accepted,
                     clientSocket, clientId, main, victim, listener, backlog,
                     client, message, answered>>
  BY DEF Close, registry, dispatching, working, stopping, listening, sockets, clients, WorkerGoes
<1>2. TypeOK'
  <2>1. worker' \in [Client -> {"none", "loop", "read", "register", "reply", "erase",
                                     "close", "ended"}]
    BY <1>1 DEF TypeOK
  <2>2. dispatcher \in Handing => worker'[accepted] = "none"
    BY <1>1 DEF TypeOK
  <2>3. socketOf' \in [FD -> Client \union {Nobody}]
    BY <1>1 DEF TypeOK
  <2>4. halfClosed' \subseteq Client
    BY <1>1 DEF TypeOK
  <2>5. QED
    BY <1>1, <2>1, <2>2, <2>3, <2>4 DEF TypeOK
<1>3. Phases'
  BY <1>1 DEF Phases
<1>4. Listening'
  BY <1>1 DEF Listening
<1>5. HandsOn'
  BY <1>1 DEF HandsOn
<1>6. Queued'
  BY <1>1 DEF Queued, Holds
<1>7. Open'
  BY <1>1 DEF Open, Holds, HandsOn, TypeOK
<1>8. Ids'
  BY <1>1 DEF Ids
<1>9. Reached'
  BY <1>1 DEF Reached, Swept, TypeOK
<1>10. Lost'
  BY <1>1 DEF Lost, Peer, Swept
<1>11. DescriptorsOwned'
  BY <1>1 DEF DescriptorsOwned, Live, Peer
<1>12. RegistryExact'
  BY <1>1 DEF RegistryExact, Live, Peer, Swept
<1>13. QED
  BY <1>2, <1>3, <1>4, <1>5, <1>6, <1>7, <1>8, <1>9, <1>10, <1>11, <1>12

LEMMA QuitCheckStep == ASSUME IInv, process = "up", QuitCheck PROVE IInv'
<1> USE NobodyAssumption DEF IInv, Handing, Listens, Unswept
<1>1. /\ main = "prompt" /\ main' = "stop"
      /\ UNCHANGED <<process, running, serverSocket, connectedClients,
                     activeSockets, nextClientId, mutex, dispatcher, accepted,
                     worker, clientSocket, clientId, victim, listener, backlog,
                     socketOf, halfClosed, client, message, answered>>
  BY DEF QuitCheck, registry, dispatching, working, stopping, listening, sockets, clients
<1>2. TypeOK'
  BY <1>1 DEF TypeOK
<1>3. Phases'
  BY <1>1 DEF Phases
<1>4. Listening'
  BY <1>1 DEF Listening
<1>5. HandsOn'
  BY <1>1 DEF HandsOn
<1>6. Queued'
  BY <1>1 DEF Queued, Holds
<1>7. Open'
  BY <1>1 DEF Open, Holds
<1>8. Ids'
  BY <1>1 DEF Ids
<1>9. Reached'
  BY <1>1 DEF Reached, Swept
<1>10. Lost'
  BY <1>1 DEF Lost, Swept
<1>11. DescriptorsOwned'
  BY <1>1 DEF DescriptorsOwned, Live, Peer
<1>12. RegistryExact'
  BY <1>1 DEF RegistryExact, Live, Peer, Swept
<1>13. QED
  BY <1>2, <1>3, <1>4, <1>5, <1>6, <1>7, <1>8, <1>9, <1>10, <1>11, <1>12

LEMMA StopStep == ASSUME IInv, process = "up", Stop PROVE IInv'
<1> USE NobodyAssumption DEF IInv, Handing, Listens, Unswept
<1>1. /\ main = "stop" /\ main' = "unlisten" /\ running' = FALSE
      /\ UNCHANGED <<process, serverSocket, connectedClients, activeSockets,
                     nextClientId, mutex, dispatcher, accepted, worker,
                     clientSocket, clientId, victim, listener, backlog,
                     socketOf, halfClosed, client, message, answered>>
  BY DEF Stop, registry, dispatching, working, stopping, listening, sockets, clients
<1>2. TypeOK'
  <2>1. running' \in BOOLEAN /\ main' = "unlisten"
    BY <1>1
  <2>2. QED
    BY <1>1, <2>1 DEF TypeOK
<1>3. Phases'
  BY <1>1 DEF Phases
<1>4. Listening'
  BY <1>1 DEF Listening
<1>5. HandsOn'
  BY <1>1 DEF HandsOn
<1>6. Queued'
  BY <1>1 DEF Queued, Holds
<1>7. Open'
  BY <1>1 DEF Open, Holds
<1>8. Ids'
  BY <1>1 DEF Ids
<1>9. Reached'
  BY <1>1 DEF Reached, Swept
<1>10. Lost'
  BY <1>1 DEF Lost, Swept
<1>11. DescriptorsOwned'
  BY <1>1 DEF DescriptorsOwned, Live, Peer
<1>12. RegistryExact'
  BY <1>1 DEF RegistryExact, Live, Peer, Swept
<1>13. QED
  BY <1>2, <1>3, <1>4, <1>5, <1>6, <1>7, <1>8, <1>9, <1>10, <1>11, <1>12

LEMMA UnlistenStep == ASSUME IInv, process = "up", Unlisten PROVE IInv'
<1> USE NobodyAssumption DEF IInv, Handing, Listens, Unswept
<1>1. /\ main = "unlisten" /\ main' = "lock" /\ serverSocket' = FALSE
      /\ listener' = IF serverSocket THEN "closed" ELSE listener
      /\ UNCHANGED <<process, running, connectedClients, activeSockets,
                     nextClientId, mutex, dispatcher, accepted, worker,
                     clientSocket, clientId, victim, backlog, socketOf,
                     halfClosed, client, message, answered>>
  BY DEF Unlisten, registry, dispatching, working, stopping, listening, sockets, clients
<1>2. TypeOK'
  BY <1>1 DEF TypeOK
<1>3. Phases'
  BY <1>1 DEF Phases
<1>4. Listening'
  BY <1>1 DEF Listening
<1>5. HandsOn'
  BY <1>1 DEF HandsOn
<1>6. Queued'
  BY <1>1 DEF Queued, Holds
<1>7. Open'
  BY <1>1 DEF Open, Holds
<1>8. Ids'
  BY <1>1 DEF Ids
<1>9. Reached'
  BY <1>1 DEF Reached, Swept
<1>10. Lost'
  BY <1>1 DEF Lost, Swept
<1>11. DescriptorsOwned'
  BY <1>1 DEF DescriptorsOwned, Live, Peer
<1>12. RegistryExact'
  BY <1>1 DEF RegistryExact, Live, Peer, Swept
<1>13. QED
  BY <1>2, <1>3, <1>4, <1>5, <1>6, <1>7, <1>8, <1>9, <1>10, <1>11, <1>12

LEMMA LockClientsStep == ASSUME IInv, process = "up", LockClients PROVE IInv'
<1> USE NobodyAssumption DEF IInv, Handing, Listens, Unswept
<1>1. /\ main = "lock" /\ main' = "sweep" /\ mutex = "free" /\ mutex' = "main"
      /\ UNCHANGED <<process, running, serverSocket, connectedClients,
                     activeSockets, nextClientId, dispatcher, accepted, worker,
                     clientSocket, clientId, victim, listener, backlog,
                     socketOf, halfClosed, client, message, answered>>
  BY DEF LockClients, registry, dispatching, working, stopping, listening, sockets, clients
<1>2. TypeOK'
  BY <1>1 DEF TypeOK
<1>3. Phases'
  BY <1>1 DEF Phases
<1>4. Listening'
  BY <1>1 DEF Listening
<1>5. HandsOn'
  BY <1>1 DEF HandsOn
<1>6. Queued'
  BY <1>1 DEF Queued, Holds
<1>7. Open'
  BY <1>1 DEF Open, Holds
<1>8. Ids'
  BY <1>1 DEF Ids
<1>9. Reached'
  BY <1>1 DEF Reached, Swept
<1>10. Lost'
  BY <1>1 DEF Lost, Swept
<1>11. DescriptorsOwned'
  BY <1>1 DEF DescriptorsOwned, Live, Peer
<1>12. RegistryExact'
  BY <1>1 DEF RegistryExact, Live, Peer, Swept
<1>13. QED
  BY <1>2, <1>3, <1>4, <1>5, <1>6, <1>7, <1>8, <1>9, <1>10, <1>11, <1>12

LEMMA SweepShutdownStep == ASSUME IInv, process = "up", SweepShutdown PROVE IInv'
<1> USE NobodyAssumption DEF IInv, Handing, Listens, Unswept
<1>1. /\ main = "sweep" /\ main' = "sweep_close"
      /\ victim' \in FD /\ activeSockets[victim'] > 0
      /\ halfClosed' = halfClosed \union ({socketOf[victim']} \ {Nobody})
      /\ UNCHANGED <<process, running, serverSocket, connectedClients,
                     activeSockets, nextClientId, mutex, dispatcher, accepted,
                     worker, clientSocket, clientId, listener, backlog,
                     socketOf, client, message, answered>>
  BY DEF SweepShutdown, registry, dispatching, working, stopping, listening, sockets, clients
<1>2. TypeOK'
  BY <1>1 DEF TypeOK
<1>3. Phases'
  BY <1>1 DEF Phases
<1>4. Listening'
  BY <1>1 DEF Listening
<1>5. HandsOn'
  BY <1>1 DEF HandsOn
<1>6. Queued'
  BY <1>1 DEF Queued, Holds
<1>7. Open'
  BY <1>1 DEF Open, Holds
<1>8. Ids'
  BY <1>1 DEF Ids
<1>9. Reached'
  BY <1>1 DEF Reached, Swept
<1>10. Lost'
  BY <1>1 DEF Lost, Swept
<1>11. DescriptorsOwned'
  BY <1>1 DEF DescriptorsOwned, Live, Peer
<1>12. RegistryExact'
  BY <1>1 DEF RegistryExact, Live, Peer, Swept
<1>13. QED
  BY <1>2, <1>3, <1>4, <1>5, <1>6, <1>7, <1>8, <1>9, <1>10, <1>11, <1>12

LEMMA SweepCloseStep == ASSUME IInv, process = "up", SweepClose PROVE IInv'
<1> USE NobodyAssumption DEF IInv, Handing, Listens, Unswept
<1>1. /\ main = "sweep_close" /\ main' = "sweep"
      /\ socketOf' = [socketOf EXCEPT ![victim] = Nobody]
      /\ activeSockets' = [activeSockets EXCEPT ![victim] = @ - 1]
      /\ victim' = Nobody
      /\ halfClosed' \subseteq halfClosed
      /\ UNCHANGED <<process, running, serverSocket, connectedClients,
                     nextClientId, mutex, dispatcher, accepted, worker,
                     clientSocket, clientId, listener, backlog, client,
                     message, answered>>
  BY DEF SweepClose, registry, dispatching, working, stopping, listening, sockets, clients
<1>2. TypeOK'
  <2>1. activeSockets' \in [FD -> Nat]
    BY <1>1 DEF TypeOK, Phases
  <2>2. socketOf' \in [FD -> Client \union {Nobody}]
    BY <1>1 DEF TypeOK
  <2>3. halfClosed' \subseteq Client
    BY <1>1 DEF TypeOK
  <2>4. main' = "sweep" /\ victim' = Nobody
    BY <1>1 DEF TypeOK
  <2>5. QED
    BY <1>1, <2>1, <2>2, <2>3, <2>4 DEF TypeOK
<1>3. Phases'
  BY <1>1 DEF Phases
<1>4. Listening'
  BY <1>1 DEF Listening
<1>5. HandsOn'
  BY <1>1 DEF HandsOn
<1>6. Queued'
  BY <1>1 DEF Queued, Holds
<1>7. Open'
  BY <1>1 DEF Open, Holds
<1>8. Ids'
  BY <1>1 DEF Ids
<1>9. Reached'
  BY <1>1 DEF Reached, Swept, TypeOK
<1>10. Lost'
  BY <1>1 DEF Lost, Swept
<1>11. DescriptorsOwned'
  BY <1>1 DEF DescriptorsOwned, Live, Peer
<1>12. RegistryExact'
  BY <1>1 DEF RegistryExact, Live, Peer, Swept, TypeOK
<1>13. QED
  BY <1>2, <1>3, <1>4, <1>5, <1>6, <1>7, <1>8, <1>9, <1>10, <1>11, <1>12

LEMMA SweepDoneStep == ASSUME IInv, process = "up", SweepDone PROVE IInv'
<1> USE NobodyAssumption DEF IInv, Handing, Listens, Unswept
<1>1. /\ main = "sweep" /\ main' = "join_dispatcher"
      /\ \A f \in FD : activeSockets[f] = 0
      /\ connectedClients' = {} /\ mutex' = "free"
      /\ UNCHANGED <<process, running, serverSocket, activeSockets,
                     nextClientId, dispatcher, accepted, worker, clientSocket,
                     clientId, victim, listener, backlog, socketOf, halfClosed,
                     client, message, answered>>
  BY DEF SweepDone, registry, dispatching, working, stopping, listening, sockets, clients
<1>2. TypeOK'
  BY <1>1 DEF TypeOK
<1>3. Phases'
  BY <1>1 DEF Phases
<1>4. Listening'
  BY <1>1 DEF Listening
<1>5. HandsOn'
  BY <1>1 DEF HandsOn
<1>6. Queued'
  BY <1>1 DEF Queued, Holds
<1>7. Open'
  BY <1>1 DEF Open, Holds
<1>8. Ids'
  BY <1>1 DEF Ids
<1>9. Reached'
  BY <1>1 DEF Reached, Swept
<1>10. Lost'
  <2>1. ASSUME NEW c \in Client, worker[c] \in {"read", "register", "reply"} PROVE Peer(c) = Nobody
    <3>1. Peer(c) \in {c, Nobody} /\ clientSocket[c] \in FD /\ Live(c)
      BY <2>1 DEF DescriptorsOwned, Open, Live
    <3>2. ~(activeSockets[clientSocket[c]] > 0)
      BY <1>1, <3>1
    <3>3. QED
      BY <1>1, <3>1, <3>2 DEF RegistryExact, Swept
  <2>2. QED
    BY <1>1, <2>1 DEF Lost, Peer
<1>11. DescriptorsOwned'
  BY <1>1 DEF DescriptorsOwned, Live, Peer
<1>12. RegistryExact'
  BY <1>1 DEF RegistryExact, Swept
<1>13. QED
  BY <1>2, <1>3, <1>4, <1>5, <1>6, <1>7, <1>8, <1>9, <1>10, <1>11, <1>12

LEMMA JoinDispatcherStep == ASSUME IInv, process = "up", JoinDispatcher PROVE IInv'
<1> USE NobodyAssumption DEF IInv, Handing, Listens, Unswept
<1>1. /\ main = "join_dispatcher" /\ main' = "join_workers" /\ dispatcher = "ended"
      /\ UNCHANGED <<process, running, serverSocket, connectedClients,
                     activeSockets, nextClientId, mutex, dispatcher, accepted,
                     worker, clientSocket, clientId, victim, listener, backlog,
                     socketOf, halfClosed, client, message, answered>>
  BY DEF JoinDispatcher, registry, dispatching, working, stopping, listening, sockets, clients
<1>2. TypeOK'
  BY <1>1 DEF TypeOK
<1>3. Phases'
  BY <1>1 DEF Phases
<1>4. Listening'
  BY <1>1 DEF Listening
<1>5. HandsOn'
  BY <1>1 DEF HandsOn
<1>6. Queued'
  BY <1>1 DEF Queued, Holds
<1>7. Open'
  BY <1>1 DEF Open, Holds
<1>8. Ids'
  BY <1>1 DEF Ids
<1>9. Reached'
  BY <1>1 DEF Reached
<1>10. Lost'
  BY <1>1 DEF Lost, Peer, Swept
<1>11. DescriptorsOwned'
  BY <1>1 DEF DescriptorsOwned, Live, Peer
<1>12. RegistryExact'
  BY <1>1 DEF RegistryExact, Swept
<1>13. QED
  BY <1>2, <1>3, <1>4, <1>5, <1>6, <1>7, <1>8, <1>9, <1>10, <1>11, <1>12

LEMMA JoinWorkersStep == ASSUME IInv, process = "up", JoinWorkers PROVE IInv'
<1> USE NobodyAssumption DEF IInv, Handing, Listens, Unswept
<1>1. /\ main = "join_workers" /\ main' = "returned" /\ process' = "exited"
      /\ \A c \in Client : worker[c] \in {"none", "ended"}
      /\ UNCHANGED <<running, serverSocket, connectedClients, activeSockets,
                     nextClientId, mutex, dispatcher, accepted, worker,
                     clientSocket, clientId, victim, listener, backlog,
                     socketOf, halfClosed, client, message, answered>>
  BY DEF JoinWorkers, registry, dispatching, working, stopping, listening, sockets, clients
<1>2. TypeOK'
  BY <1>1 DEF TypeOK
<1>3. Phases'
  BY <1>1 DEF Phases
<1>4. Listening'
  BY <1>1 DEF Listening
<1>5. HandsOn'
  BY <1>1 DEF HandsOn
<1>6. Queued'
  BY <1>1 DEF Queued, Holds
<1>7. Open'
  BY <1>1 DEF Open, Holds
<1>8. Ids'
  BY <1>1 DEF Ids
<1>9. Reached'
  BY <1>1 DEF Reached, Swept
<1>10. Lost'
  BY <1>1 DEF Lost
<1>11. DescriptorsOwned'
  BY <1>1 DEF DescriptorsOwned, Live
<1>12. RegistryExact'
  BY <1>1 DEF RegistryExact, Swept
<1>13. QED
  BY <1>2, <1>3, <1>4, <1>5, <1>6, <1>7, <1>8, <1>9, <1>10, <1>11, <1>12

LEMMA ConnectStep == ASSUME IInv, NEW c \in Client, Connect(c) PROVE IInv'
<1> USE NobodyAssumption DEF IInv, Handing, Listens, Unswept
<1>1. /\ client[c] = "new" /\ process = "up" /\ listener = "listening"
      /\ backlog' = Append(backlog, c)
      /\ message' = [message EXCEPT ![c] = "REGISTER_REQUEST"]
      /\ client' = [client EXCEPT ![c] = "waiting"]
      /\ UNCHANGED <<process, running, serverSocket, connectedClients,
                     activeSockets, nextClientId, mutex, dispatcher, accepted,
                     worker, clientSocket, clientId, main, victim, listener,
                     socketOf, halfClosed, answered>>
  BY DEF Connect, registry, dispatching, working, stopping, listening, sockets, clients, ClientGoes
<1>2. TypeOK'
  BY <1>1 DEF TypeOK
<1>3. Phases'
  BY <1>1 DEF Phases
<1>4. Listening'
  BY <1>1 DEF Listening
<1>5. HandsOn'
  BY <1>1 DEF HandsOn
<1>6. Queued'
  BY <1>1 DEF Queued, Holds, TypeOK
<1>7. Open'
  BY <1>1 DEF Open, Holds
<1>8. Ids'
  BY <1>1 DEF Ids, Queued
<1>9. Reached'
  BY <1>1 DEF Reached, Swept
<1>10. Lost'
  BY <1>1 DEF Lost, Peer, Swept
<1>11. DescriptorsOwned'
  BY <1>1 DEF DescriptorsOwned, Live, Peer
<1>12. RegistryExact'
  BY <1>1 DEF RegistryExact, Live, Peer, Swept
<1>13. QED
  BY <1>2, <1>3, <1>4, <1>5, <1>6, <1>7, <1>8, <1>9, <1>10, <1>11, <1>12

LEMMA AnswerStep == ASSUME IInv, NEW c \in Client, Answer(c) PROVE IInv'
<1> USE NobodyAssumption DEF IInv, Handing, Listens, Unswept
<1>1. /\ answered' \subseteq answered
      /\ client[c] = "waiting" /\ client' = [client EXCEPT ![c] = "ready"]
      /\ UNCHANGED <<process, running, serverSocket, connectedClients,
                     activeSockets, nextClientId, mutex, dispatcher, accepted,
                     worker, clientSocket, clientId, main, victim, listener,
                     backlog, socketOf, halfClosed, message>>
  BY DEF Answer, registry, dispatching, working, stopping, listening, sockets, clients, ClientGoes
<1>2. TypeOK'
  BY <1>1 DEF TypeOK
<1>3. Phases'
  BY <1>1 DEF Phases
<1>4. Listening'
  BY <1>1 DEF Listening
<1>5. HandsOn'
  BY <1>1 DEF HandsOn
<1>6. Queued'
  BY <1>1 DEF Queued, Holds
<1>7. Open'
  BY <1>1 DEF Open, Holds
<1>8. Ids'
  BY <1>1 DEF Ids
<1>9. Reached'
  BY <1>1 DEF Reached, Swept
<1>10. Lost'
  BY <1>1 DEF Lost, Peer, Swept
<1>11. DescriptorsOwned'
  BY <1>1 DEF DescriptorsOwned, Live, Peer
<1>12. RegistryExact'
  BY <1>1 DEF RegistryExact, Live, Peer, Swept
<1>13. QED
  BY <1>2, <1>3, <1>4, <1>5, <1>6, <1>7, <1>8, <1>9, <1>10, <1>11, <1>12

LEMMA RequestStep == ASSUME IInv, NEW c \in Client, Request(c) PROVE IInv'
<1> USE NobodyAssumption DEF IInv, Handing, Listens, Unswept
<1>1. /\ client[c] = "ready" /\ client' = [client EXCEPT ![c] = "waiting"]
      /\ message' = [message EXCEPT ![c] = "REQUEST"]
      /\ UNCHANGED <<process, running, serverSocket, connectedClients,
                     activeSockets, nextClientId, mutex, dispatcher, accepted,
                     worker, clientSocket, clientId, main, victim, listener,
                     backlog, socketOf, halfClosed, answered>>
  BY DEF Request, registry, dispatching, working, stopping, listening, sockets, clients, ClientGoes
<1>2. TypeOK'
  BY <1>1 DEF TypeOK
<1>3. Phases'
  BY <1>1 DEF Phases
<1>4. Listening'
  BY <1>1 DEF Listening
<1>5. HandsOn'
  BY <1>1 DEF HandsOn
<1>6. Queued'
  BY <1>1 DEF Queued, Holds
<1>7. Open'
  BY <1>1 DEF Open, Holds
<1>8. Ids'
  BY <1>1 DEF Ids
<1>9. Reached'
  BY <1>1 DEF Reached, Swept
<1>10. Lost'
  BY <1>1 DEF Lost, Peer, Swept
<1>11. DescriptorsOwned'
  BY <1>1 DEF DescriptorsOwned, Live, Peer
<1>12. RegistryExact'
  BY <1>1 DEF RegistryExact, Live, Peer, Swept
<1>13. QED
  BY <1>2, <1>3, <1>4, <1>5, <1>6, <1>7, <1>8, <1>9, <1>10, <1>11, <1>12

LEMMA QuitStep == ASSUME IInv, NEW c \in Client, Quit(c) PROVE IInv'
<1> USE NobodyAssumption DEF IInv, Handing, Listens, Unswept
<1>1. /\ client[c] = "ready" /\ client' = [client EXCEPT ![c] = "left"]
      /\ message' = [message EXCEPT ![c] = "QUIT"]
      /\ UNCHANGED <<process, running, serverSocket, connectedClients,
                     activeSockets, nextClientId, mutex, dispatcher, accepted,
                     worker, clientSocket, clientId, main, victim, listener,
                     backlog, socketOf, halfClosed, answered>>
  BY DEF Quit, registry, dispatching, working, stopping, listening, sockets, clients, ClientGoes
<1>2. TypeOK'
  BY <1>1 DEF TypeOK
<1>3. Phases'
  BY <1>1 DEF Phases
<1>4. Listening'
  BY <1>1 DEF Listening
<1>5. HandsOn'
  BY <1>1 DEF HandsOn
<1>6. Queued'
  BY <1>1 DEF Queued, Holds
<1>7. Open'
  BY <1>1 DEF Open, Holds
<1>8. Ids'
  BY <1>1 DEF Ids
<1>9. Reached'
  BY <1>1 DEF Reached, Swept
<1>10. Lost'
  BY <1>1 DEF Lost, Peer, Swept
<1>11. DescriptorsOwned'
  BY <1>1 DEF DescriptorsOwned, Live, Peer
<1>12. RegistryExact'
  BY <1>1 DEF RegistryExact, Live, Peer, Swept
<1>13. QED
  BY <1>2, <1>3, <1>4, <1>5, <1>6, <1>7, <1>8, <1>9, <1>10, <1>11, <1>12

LEMMA VanishStep == ASSUME IInv, NEW c \in Client, Vanish(c) PROVE IInv'
<1> USE NobodyAssumption DEF IInv, Handing, Listens, Unswept
<1>1. /\ client[c] \in {"waiting", "ready"} /\ client' = [client EXCEPT ![c] = "left"]
      /\ UNCHANGED <<process, running, serverSocket, connectedClients,
                     activeSockets, nextClientId, mutex, dispatcher, accepted,
                     worker, clientSocket, clientId, main, victim, listener,
                     backlog, socketOf, halfClosed, message, answered>>
  BY DEF Vanish, registry, dispatching, working, stopping, listening, sockets, clients, ClientGoes
<1>2. TypeOK'
  BY <1>1 DEF TypeOK
<1>3. Phases'
  BY <1>1 DEF Phases
<1>4. Listening'
  BY <1>1 DEF Listening
<1>5. HandsOn'
  BY <1>1 DEF HandsOn
<1>6. Queued'
  BY <1>1 DEF Queued, Holds
<1>7. Open'
  BY <1>1 DEF Open, Holds
<1>8. Ids'
  BY <1>1 DEF Ids
<1>9. Reached'
  BY <1>1 DEF Reached, Swept
<1>10. Lost'
  BY <1>1 DEF Lost, Peer, Swept
<1>11. DescriptorsOwned'
  BY <1>1 DEF DescriptorsOwned, Live, Peer
<1>12. RegistryExact'
  BY <1>1 DEF RegistryExact, Live, Peer, Swept
<1>13. QED
  BY <1>2, <1>3, <1>4, <1>5, <1>6, <1>7, <1>8, <1>9, <1>10, <1>11, <1>12
-----------------------------------------------------------------------------
LEMMA InitIInv == Init => IInv
<1> SUFFICES ASSUME Init PROVE IInv
  OBVIOUS
<1> USE NobodyAssumption DEF Init, Handing, Listens, Unswept
<1>1. TypeOK
  <2>1. /\ running \in BOOLEAN /\ serverSocket \in BOOLEAN
        /\ backlog \in Seq(Client)
        /\ activeSockets \in [FD -> Nat] /\ socketOf \in [FD -> Client \union {Nobody}]
    BY EmptySeq
  <2>2. /\ worker \in [Client -> {"none", "loop", "read", "register", "reply", "erase",
                                "close", "ended"}]
        /\ clientSocket \in [Client -> FD \union {Nobody}]
        /\ clientId \in [Client -> Nat]
        /\ client \in [Client -> {"new", "waiting", "ready", "left"}]
        /\ message \in [Client -> {"none", "REGISTER_REQUEST", "REQUEST", "QUIT"}]
    OBVIOUS
  <2>3. QED
    BY <2>1, <2>2 DEF TypeOK
<1>2. Phases /\ Listening /\ HandsOn /\ Ids /\ Reached
  BY DEF Phases, Listening, HandsOn, Ids, Reached
<1>3. Queued
  <2>1. \A i \in DOMAIN backlog : FALSE
    OBVIOUS
  <2>2. QED
    BY <2>1 DEF Queued, Holds
<1>4. Open /\ Lost
  BY DEF Open, Holds, Lost
<1>5. DescriptorsOwned
  BY DEF DescriptorsOwned, Live
<1>6. RegistryExact
  <2>1. {d \in Client : clientId[d] # 0 /\ Live(d)} = {}
    OBVIOUS
  <2>2. connectedClients =
          {[id |-> clientId[c], client |-> c, socket |-> clientSocket[c]] :
             c \in {d \in Client : clientId[d] # 0 /\ Live(d)}}
    BY <2>1
  <2>3. \A c \in Client : ~Live(c)
    BY DEF Live
  <2>4. QED
    BY <2>2, <2>3 DEF RegistryExact
<1>7. QED
  BY <1>1, <1>2, <1>3, <1>4, <1>5, <1>6 DEF IInv

LEMMA StutterStep == ASSUME IInv, UNCHANGED vars PROVE IInv'
<1>1. UNCHANGED <<process, running, serverSocket, connectedClients, activeSockets, nextClientId,
                  mutex, dispatcher, accepted, worker, clientSocket, clientId, main, victim,
                  listener, backlog, socketOf, halfClosed, client, message, answered>>
  BY DEF vars, registry, dispatching, working, stopping, listening, sockets, clients
<1>2. TypeOK' /\ Phases' /\ Listening' /\ HandsOn'
  BY <1>1 DEF IInv, TypeOK, Phases, Listening, HandsOn
<1>3. Queued' /\ Open' /\ Ids' /\ Reached' /\ Lost'
  BY <1>1 DEF IInv, Queued, Holds, Open, Ids, Reached, Swept, Lost, Peer
<1>4. DescriptorsOwned' /\ RegistryExact'
  BY <1>1 DEF IInv, DescriptorsOwned, RegistryExact, Live, Peer, Swept
<1>5. QED
  BY <1>2, <1>3, <1>4 DEF IInv

LEMMA NextIInv == IInv /\ [Next]_vars => IInv'
<1> SUFFICES ASSUME IInv, [Next]_vars PROVE IInv'
  OBVIOUS
<1>1. ASSUME process = "up", Dispatch PROVE IInv'
  BY <1>1, CreateSocketStep, ListenStep, LoopStep, AcceptStep, AcceptFailsStep, CheckStep,
     TrackStep, SpawnStep, CloseListenerStep DEF Dispatch
<1>2. ASSUME process = "up", NEW c \in Client, Work(c) PROVE IInv'
  BY <1>2, WorkerLoopStep, ReadStep, ReadFailsStep, RegisterStep, ReplyStep, EraseStep,
     CloseStep DEF Work
<1>3. ASSUME process = "up", QuitCheck \/ Shutdown PROVE IInv'
  BY <1>3, QuitCheckStep, StopStep, UnlistenStep, LockClientsStep, SweepShutdownStep,
     SweepCloseStep, SweepDoneStep, JoinDispatcherStep, JoinWorkersStep DEF Shutdown
<1>4. ASSUME NEW c \in Client, ClientStep(c) PROVE IInv'
  BY <1>4, ConnectStep, AnswerStep, RequestStep, QuitStep, VanishStep DEF ClientStep
<1>5. QED
  BY <1>1, <1>2, <1>3, <1>4, StutterStep DEF Next

\* The inductive invariant: what each value of main means for the listening socket, the
\* sockets and the workers, and where a connection is between connect and close.
THEOREM Invariance == Spec => []IInv
<1>1. QED
  BY InitIInv, NextIInv, PTL DEF Spec

\* Every variable keeps its type, however many clients and descriptors there are.
THEOREM TypeCorrect == Spec => []TypeOK
<1>1. IInv => TypeOK
  BY DEF IInv
<1>2. QED
  BY <1>1, Invariance, PTL

\* Neither shutdown nor a worker ever closes, reads or answers the connection of somebody
\* else, though both close the same descriptors (ServerProcessingEngine.cpp:244, :264).
THEOREM Ownership == Spec => []DescriptorsOwned
<1>1. IInv => DescriptorsOwned
  BY DEF IInv
<1>2. QED
  BY <1>1, Invariance, PTL

\* connectedClients lists exactly the registered sessions, each under its own id, and
\* the sweep of shutdown reaches every live one.
THEOREM Registry == Spec => []RegistryExact
<1>1. IInv => RegistryExact
  BY DEF IInv
<1>2. QED
  BY <1>1, Invariance, PTL

\* When shutdown joins its threads, none of them can block in accept or in a read.
THEOREM Woken == Spec => []EveryoneWoken
<1>1. IInv => EveryoneWoken
  <2> SUFFICES ASSUME IInv, main \in {"join_dispatcher", "join_workers"} PROVE EveryoneWoken
    BY DEF EveryoneWoken
  <2>1. ~running
    BY DEF IInv, Phases
  <2>2. dispatcher = "accept" => listener # "listening"
    BY DEF IInv, Listening, Listens
  <2>3. \A c \in Client : worker[c] = "read" => ~Readable(c)
    BY DEF IInv, Lost, Swept, Readable
  <2>4. QED
    BY <2>1, <2>2, <2>3 DEF EveryoneWoken
<1>2. QED
  BY <1>1, Invariance, PTL

-----------------------------------------------------------------------------
(* The two containers, until shutdown returns.                             *)

\* c's descriptor is in activeSockets unless the sweep or another session has taken it out.
Tracked(c) == Live(c) \/ (dispatcher = "spawn" /\ accepted = c)

\* Whatever is in a container belongs to a session that will take it out again.  A
\* descriptor is there once: two sessions share one only after the sweep has cleared the
\* containers, and then the dispatcher hands on one connection more at most.
Entries == \A e \in connectedClients : Live(e.client) /\ e.id = clientId[e.client]
Listed == \A f \in FD : activeSockets[f] > 0 =>
            /\ activeSockets[f] = 1
            /\ \E c \in Client : Tracked(c) /\ clientSocket[c] = f
Cleared == Swept /\ dispatcher = "track" => \A f \in FD : activeSockets[f] = 0

Tables == Entries /\ Listed /\ Cleared

LEMMA TablesInitially == Init => Tables
BY DEF Init, Tables, Entries, Listed, Cleared

\* A step that changes neither the containers nor who is in them.
LEMMA TablesLeft ==
  ASSUME IInv, Tables, UNCHANGED <<connectedClients, activeSockets>>,
         \A c \in Client : clientId'[c] = clientId[c] \/ ~Live(c),
         \A c \in Client : Live(c) => Live(c)',
         \A c \in Client : Tracked(c) => Tracked(c)' /\ clientSocket'[c] = clientSocket[c],
         Swept' /\ dispatcher' = "track" => Swept /\ dispatcher = "track"
  PROVE  Tables'
<1>1. Entries'
  <2>1. \A e \in connectedClients : e.client \in Client
    BY DEF IInv, TypeOK
  <2> QED
    BY <2>1 DEF Tables, Entries
<1>2. Listed'
  BY DEF Tables, Listed
<1>3. Cleared'
  BY DEF Tables, Cleared
<1> QED
  BY <1>1, <1>2, <1>3 DEF Tables

\* activeSockets.push_back: the descriptor is not there yet.
LEMMA TrackTables == ASSUME IInv, Tables, Track PROVE Tables'
<1> DEFINE f == clientSocket[accepted]
<1>1. /\ dispatcher = "track" /\ mutex = "free" /\ dispatcher' = "spawn"
      /\ activeSockets' = [activeSockets EXCEPT ![f] = @ + 1]
      /\ UNCHANGED <<connectedClients, accepted, worker, clientSocket, clientId, main>>
  BY DEF Track, dispatching, working, stopping
<1>2. accepted \in Client /\ worker[accepted] = "none" /\ f \in FD
  BY <1>1, NobodyAssumption DEF IInv, TypeOK, HandsOn
<1>3. activeSockets[f] = 0
  <2>1. main \in Unswept \/ Swept
    BY <1>1 DEF IInv, TypeOK, Phases, Unswept, Swept
  <2>2. CASE Swept
    BY <1>1, <1>2, <2>2 DEF Tables, Cleared
  <2>3. CASE main \in Unswept
    <3> SUFFICES ASSUME activeSockets[f] > 0 PROVE FALSE
      BY <1>2 DEF IInv, TypeOK
    <3>1. PICK c \in Client : Tracked(c) /\ clientSocket[c] = f
      BY <1>2 DEF Tables, Listed
    <3>2. Live(c)
      BY <1>1, <3>1 DEF Tracked
    <3>3. Holds(c) /\ Holds(accepted)
      BY <3>2 DEF Holds, Live
    <3>4. socketOf[f] = c /\ socketOf[f] = accepted
      BY <1>2, <2>3, <3>1, <3>3 DEF IInv, Open
    <3> QED
      BY <1>2, <3>2, <3>4 DEF Live
  <2> QED
    BY <2>1, <2>2, <2>3
<1> HIDE DEF f
<1>4. /\ activeSockets'[f] = 1
      /\ \A g \in FD : g # f => activeSockets'[g] = activeSockets[g]
  BY <1>1, <1>2, <1>3 DEF IInv, TypeOK
<1>5. Listed'
  <2> SUFFICES ASSUME NEW g \in FD, activeSockets'[g] > 0
               PROVE  /\ activeSockets'[g] = 1
                      /\ \E c \in Client : Tracked(c)' /\ clientSocket'[c] = g
    BY DEF Listed
  <2>1. CASE g = f
    <3>1. PICK a \in Client : a = accepted
      BY <1>2
    <3>2. Tracked(a)' /\ clientSocket'[a] = g
      BY <1>1, <2>1, <3>1 DEF Tracked, f
    <3> QED
      BY <1>4, <2>1, <3>2
  <2>2. CASE g # f
    <3>1. activeSockets[g] = 1
      BY <1>4, <2>2 DEF Tables, Listed
    <3>2. PICK c \in Client : Tracked(c) /\ clientSocket[c] = g
      BY <1>4, <2>2 DEF Tables, Listed
    <3>3. Tracked(c)' /\ clientSocket'[c] = g
      BY <1>1, <3>2 DEF Tracked, Live
    <3> QED
      BY <1>4, <2>2, <3>1, <3>3
  <2> QED
    BY <2>1, <2>2
<1>6. Entries'
  BY <1>1 DEF Tables, Entries, Live
<1> QED
  BY <1>1, <1>5, <1>6 DEF Tables, Cleared

\* A registration enters its own session.
LEMMA RegisterTables ==
  ASSUME IInv, Tables, NEW c \in Client, Register(c)
  PROVE  Tables'
<1>1. /\ worker[c] = "register" /\ worker' = [worker EXCEPT ![c] = "reply"]
      /\ clientId' = [clientId EXCEPT ![c] = nextClientId]
      /\ connectedClients' = {e \in connectedClients : e.id # nextClientId}
           \union {[id |-> nextClientId, client |-> c, socket |-> clientSocket[c]]}
      /\ UNCHANGED <<activeSockets, dispatcher, accepted, clientSocket, main>>
  BY DEF Register, WorkerGoes, dispatching, stopping
<1>2. \A d \in Client : Live(d) => Live(d)'
  BY <1>1 DEF IInv, TypeOK, Live
<1>3. /\ clientId'[c] = nextClientId /\ Live(c)'
      /\ \A d \in Client : d # c => clientId'[d] = clientId[d]
  BY <1>1 DEF IInv, TypeOK, Live
<1>4. Entries'
  <2> SUFFICES ASSUME NEW e \in connectedClients' PROVE Live(e.client)' /\ e.id = clientId'[e.client]
    BY DEF Entries
  <2>1. CASE e = [id |-> nextClientId, client |-> c, socket |-> clientSocket[c]]
    BY <1>3, <2>1
  <2>2. CASE e \in connectedClients
    <3>1. e.client \in Client /\ e.id \in Nat \ {0} /\ Live(e.client) /\ e.id = clientId[e.client]
      BY <2>2 DEF IInv, TypeOK, Tables, Entries
    <3>2. e.client # c
      BY <1>1, <3>1 DEF IInv, Ids
    <3> QED
      BY <1>2, <1>3, <3>1, <3>2
  <2> QED
    BY <1>1, <2>1, <2>2
<1>5. Listed' /\ Cleared'
  BY <1>1, <1>2 DEF Tables, Listed, Cleared, Tracked, Swept
<1> QED
  BY <1>4, <1>5 DEF Tables

\* A session takes out its entry, and its descriptor or the one that has its number.
LEMMA EraseTables ==
  ASSUME IInv, Tables, NEW c \in Client, Erase(c)
  PROVE  Tables'
<1> DEFINE f == clientSocket[c]
<1>1. /\ worker[c] = "erase" /\ worker' = [worker EXCEPT ![c] = "close"]
      /\ connectedClients' = {e \in connectedClients : e.id # clientId[c]}
      /\ activeSockets' = [activeSockets EXCEPT ![f] = IF @ > 0 THEN @ - 1 ELSE 0]
      /\ UNCHANGED <<dispatcher, accepted, clientSocket, clientId, main>>
  BY DEF Erase, WorkerGoes, dispatching, stopping
<1>2. f \in FD
  BY <1>1 DEF IInv, Open
<1>3. \A d \in Client : d # c => worker'[d] = worker[d]
  BY <1>1 DEF IInv, TypeOK
<1>4. activeSockets'[f] = 0 /\ \A g \in FD : g # f => activeSockets'[g] = activeSockets[g]
  <2>1. activeSockets[f] \in Nat /\ (activeSockets[f] > 0 => activeSockets[f] = 1)
    BY <1>2 DEF IInv, TypeOK, Tables, Listed
  <2>2. activeSockets'[f] = IF activeSockets[f] > 0 THEN activeSockets[f] - 1 ELSE 0
    BY <1>1, <1>2 DEF IInv, TypeOK
  <2> QED
    BY <1>1, <1>2, <2>1, <2>2 DEF IInv, TypeOK
<1>5. Entries'
  <2> SUFFICES ASSUME NEW e \in connectedClients, e.id # clientId[c]
               PROVE  Live(e.client)' /\ e.id = clientId'[e.client]
    BY <1>1 DEF Entries
  <2>1. e.client \in Client /\ Live(e.client) /\ e.id = clientId[e.client]
    BY DEF IInv, TypeOK, Tables, Entries
  <2> QED
    BY <1>1, <1>3, <2>1 DEF Live
<1>6. Listed'
  <2> SUFFICES ASSUME NEW g \in FD, activeSockets'[g] > 0
               PROVE  /\ activeSockets'[g] = 1
                      /\ \E d \in Client : Tracked(d)' /\ clientSocket'[d] = g
    BY DEF Listed
  <2>1. g # f /\ activeSockets'[g] = activeSockets[g]
    BY <1>4
  <2>2. PICK d \in Client : Tracked(d) /\ clientSocket[d] = g
    BY <2>1 DEF Tables, Listed
  <2>3. Tracked(d)' /\ clientSocket'[d] = g
    BY <1>1, <1>3, <2>1, <2>2 DEF Tracked, Live
  <2> QED
    BY <2>1, <2>3 DEF Tables, Listed
<1>7. Cleared'
  <2> SUFFICES ASSUME Swept, dispatcher = "track", NEW g \in FD PROVE activeSockets'[g] = 0
    BY <1>1 DEF Cleared, Swept
  <2>1. activeSockets[g] = 0
    BY DEF Tables, Cleared
  <2> QED
    BY <1>4, <2>1
<1> QED
  BY <1>5, <1>6, <1>7 DEF Tables

\* The sweep takes out one descriptor; no connection is handed on meanwhile.
LEMMA SweepCloseTables == ASSUME IInv, Tables, SweepClose PROVE Tables'
<1>1. /\ main = "sweep_close" /\ main' = "sweep"
      /\ activeSockets' = [activeSockets EXCEPT ![victim] = @ - 1]
      /\ UNCHANGED <<connectedClients, worker, dispatcher, accepted, clientSocket, clientId>>
  BY DEF SweepClose, dispatching, working
<1>2. victim \in FD /\ activeSockets[victim] = 1
  BY <1>1 DEF IInv, Phases, Tables, Listed
<1>3. /\ activeSockets'[victim] = 0
      /\ \A g \in FD : g # victim => activeSockets'[g] = activeSockets[g]
  BY <1>1, <1>2 DEF IInv, TypeOK
<1>4. Listed'
  <2> SUFFICES ASSUME NEW g \in FD, activeSockets'[g] > 0
               PROVE  /\ activeSockets'[g] = 1
                      /\ \E d \in Client : Tracked(d)' /\ clientSocket'[d] = g
    BY DEF Listed
  <2>1. activeSockets'[g] = activeSockets[g]
    BY <1>3
  <2>2. PICK d \in Client : Tracked(d) /\ clientSocket[d] = g
    BY <2>1 DEF Tables, Listed
  <2> QED
    BY <1>1, <2>1, <2>2 DEF Tables, Listed, Tracked, Live
<1>5. Entries' /\ Cleared'
  BY <1>1 DEF Tables, Entries, Cleared, Live, Swept
<1> QED
  BY <1>4, <1>5 DEF Tables

\* The sweep is over: both containers are clear.
LEMMA SweepDoneTables == ASSUME IInv, Tables, SweepDone PROVE Tables'
BY DEF SweepDone, Tables, Entries, Listed, Cleared

\* Every step keeps the containers in step with the sessions.
LEMMA TablesKept == IInv /\ Tables /\ [Next]_vars => Tables'
<1> SUFFICES ASSUME IInv, Tables, [Next]_vars PROVE Tables'
  OBVIOUS
<1> USE DEF registry, dispatching, working, stopping, listening, sockets, clients, WorkerGoes
<1>1. CASE CreateSocket \/ Listen \/ Loop \/ AcceptFails \/ CloseListener
  <2>1. /\ UNCHANGED <<connectedClients, activeSockets, clientId, worker, clientSocket, accepted, main>>
        /\ dispatcher # "spawn" /\ dispatcher' # "track"
    BY <1>1 DEF CreateSocket, Listen, Loop, AcceptFails, CloseListener
  <2> QED
    BY <2>1, TablesLeft DEF Live, Tracked
<1>2. CASE Accept
  <2>1. /\ UNCHANGED <<connectedClients, activeSockets, clientId, worker, main>>
        /\ dispatcher = "accept" /\ dispatcher' = "check" /\ backlog # <<>>
        /\ \E f \in FD : clientSocket' = [clientSocket EXCEPT ![Head(backlog)] = f]
    BY <1>2 DEF Accept
  <2>2. worker[Head(backlog)] = "none"
    <3>1. backlog \in Seq(Client) /\ backlog # <<>>
      BY <2>1 DEF IInv, TypeOK
    <3>2. Head(backlog) = backlog[1] /\ 1 \in DOMAIN backlog
      BY <3>1, EmptySeq, LenProperties, HeadTailProperties
    <3> QED
      BY <3>2 DEF IInv, Queued
  <2>3. \A c \in Client : Live(c) => c # Head(backlog)
    BY <2>2 DEF Live
  <2>4. \A c \in Client : Live(c) => clientSocket'[c] = clientSocket[c]
    BY <2>1, <2>3 DEF IInv, TypeOK
  <2> QED
    BY <2>1, <2>4, TablesLeft DEF Live, Tracked
<1>3. CASE Check
  <2>1. /\ UNCHANGED <<connectedClients, activeSockets, clientId, worker, clientSocket, main>>
        /\ dispatcher = "check" /\ (dispatcher' = "track" => running)
    BY <1>3 DEF Check
  <2>2. dispatcher' = "track" => ~Swept'
    BY <2>1 DEF IInv, Phases, Swept
  <2> QED
    BY <2>1, <2>2, TablesLeft DEF Live, Tracked
<1>4. CASE Track
  BY <1>4, TrackTables
<1>5. CASE Spawn
  <2>1. /\ UNCHANGED <<connectedClients, activeSockets, clientId, clientSocket, main>>
        /\ worker' = [worker EXCEPT ![accepted] = "loop"]
        /\ dispatcher = "spawn" /\ dispatcher' = "loop"
    BY <1>5 DEF Spawn
  <2>2. PICK a \in Client : a = accepted
    BY <2>1, NobodyAssumption DEF IInv, TypeOK
  <2>3. worker' = [worker EXCEPT ![a] = "loop"]
    BY <2>1, <2>2
  <2>4. Live(a)' /\ \A c \in Client : Live(c) => Live(c)'
    BY <2>3 DEF IInv, TypeOK, Live
  <2>5. \A c \in Client : Tracked(c) => Tracked(c)'
    BY <2>2, <2>4 DEF Tracked
  <2> QED
    BY <2>1, <2>4, <2>5, TablesLeft
<1>6. ASSUME NEW c \in Client, WorkerLoop(c) \/ Read(c) \/ ReadFails(c) \/ Reply(c) PROVE Tables'
  <2> DEFINE Busy == {"loop", "read", "register", "reply", "erase"}
             Kept == UNCHANGED <<connectedClients, activeSockets, clientId, clientSocket, main,
                                 dispatcher, accepted>>
  <2>1. CASE WorkerLoop(c)
    <3>1. Kept /\ worker' = [worker EXCEPT ![c] = IF running THEN "read" ELSE "erase"]
      BY <2>1 DEF WorkerLoop
    <3> QED
      BY <3>1, TablesLeft DEF IInv, TypeOK, Live, Tracked, Swept
  <2>2. CASE Read(c)
    <3>1. Kept /\ worker[c] = "read" /\ Readable(c)
      BY <2>2 DEF Read
    <3>2. message[Peer(c)] \in {"none", "REGISTER_REQUEST", "REQUEST", "QUIT"}
      <4>1. clientSocket[c] \in FD
        BY <3>1 DEF IInv, Open
      <4>2. Peer(c) \in Client
        BY <3>1, <4>1 DEF IInv, TypeOK, Readable, Peer
      <4> QED
        BY <4>2 DEF IInv, TypeOK
    <3>3. \E where \in Busy : worker' = [worker EXCEPT ![c] = where]
      BY <2>2, <3>2 DEF Read
    <3> HIDE DEF Busy
    <3>4. PICK where \in Busy : worker' = [worker EXCEPT ![c] = where]
      BY <3>3
    <3>5. \A d \in Client : Live(d) => Live(d)'
      BY <3>4 DEF IInv, TypeOK, Live, Busy
    <3> QED
      BY <3>1, <3>5, TablesLeft DEF Tracked, Swept
  <2>3. CASE ReadFails(c)
    <3>1. Kept /\ worker' = [worker EXCEPT ![c] = "erase"]
      BY <2>3 DEF ReadFails
    <3> QED
      BY <3>1, TablesLeft DEF IInv, TypeOK, Live, Tracked, Swept
  <2>4. CASE Reply(c)
    <3>1. Kept /\ worker' = [worker EXCEPT ![c] = "loop"]
      BY <2>4 DEF Reply
    <3> QED
      BY <3>1, TablesLeft DEF IInv, TypeOK, Live, Tracked, Swept
  <2> QED
    BY <1>6, <2>1, <2>2, <2>3, <2>4
<1>7. ASSUME NEW c \in Client, Register(c) PROVE Tables'
  BY <1>7, RegisterTables
<1>8. ASSUME NEW c \in Client, Erase(c) PROVE Tables'
  BY <1>8, EraseTables
<1>9. ASSUME NEW c \in Client, Close(c) PROVE Tables'
  <2>1. /\ UNCHANGED <<connectedClients, activeSockets, clientId, clientSocket, main, dispatcher, accepted>>
        /\ worker[c] = "close" /\ worker' = [worker EXCEPT ![c] = "ended"]
    BY <1>9 DEF Close
  <2>2. \A d \in Client : Live(d) => Live(d)'
    BY <2>1 DEF IInv, TypeOK, Live
  <2> QED
    BY <2>1, <2>2, TablesLeft DEF Tracked, Swept
<1>10. CASE SweepClose
  BY <1>10, SweepCloseTables
<1>11. CASE SweepDone
  BY <1>11, SweepDoneTables
<1>12. CASE QuitCheck \/ Stop \/ Unlisten \/ LockClients \/ SweepShutdown
  <2>1. /\ UNCHANGED <<connectedClients, activeSockets, clientId, clientSocket, dispatcher, accepted, worker>>
        /\ ~Swept'
    BY <1>12 DEF QuitCheck, Stop, Unlisten, LockClients, SweepShutdown, Swept
  <2> QED
    BY <2>1, TablesLeft DEF Tracked, Live
<1>13. CASE JoinDispatcher \/ JoinWorkers
  <2>1. /\ UNCHANGED <<connectedClients, activeSockets, clientId, clientSocket, dispatcher, accepted, worker>>
        /\ Swept
    BY <1>13 DEF JoinDispatcher, JoinWorkers, Swept
  <2> QED
    BY <2>1, TablesLeft DEF Tracked, Live
<1>14. CASE (\E c \in Client : ClientStep(c)) \/ UNCHANGED vars
  <2>1. UNCHANGED <<connectedClients, activeSockets, clientId, clientSocket, dispatcher, accepted, worker, main>>
    BY <1>14 DEF ClientStep, Connect, Answer, Request, Quit, Vanish, vars
  <2> QED
    BY <2>1, TablesLeft DEF Tracked, Live, Swept
<1> QED
  BY <1>1, <1>2, <1>3, <1>4, <1>5, <1>6, <1>7, <1>8, <1>9, <1>10, <1>11, <1>12, <1>13, <1>14
  DEF Next, Dispatch, Work, Shutdown

\* The server returns only after every session is over, every connection it ever accepted is
\* closed and out of the two containers, those that were added after the sweep included.
THEOREM Exit == Spec => []CleanExit
<1> DEFINE I == IInv /\ Tables
<1>1. Init => I
  BY InitIInv, TablesInitially
<1>2. I /\ [Next]_vars => I'
  BY NextIInv, TablesKept
<1>3. I => CleanExit
  <2> SUFFICES ASSUME IInv, Tables, main = "returned" PROVE CleanExit
    BY DEF CleanExit
  <2>1. dispatcher = "ended" /\ \A c \in Client : worker[c] \in {"none", "ended"}
    BY DEF IInv, Phases
  <2>2. accepted = Nobody
    BY <2>1 DEF IInv, HandsOn, Handing
  <2>3. \A f \in FD : socketOf[f] \in Client \union {Nobody} /\ activeSockets[f] \in Nat
    BY DEF IInv, TypeOK
  <2>4. \A f \in FD : socketOf[f] = Nobody
    BY <2>1, <2>2, <2>3 DEF IInv, Open, Holds
  <2>5. \A c \in Client : ~Tracked(c) /\ ~Live(c)
    BY <2>1 DEF Tracked, Live
  <2>6. \A f \in FD : activeSockets[f] = 0
    BY <2>3, <2>5 DEF Tables, Listed
  <2>7. connectedClients = {}
    BY <2>5 DEF IInv, TypeOK, Tables, Entries
  <2>8. QED
    BY <2>1, <2>4, <2>6, <2>7 DEF CleanExit
<1>4. QED
  BY <1>1, <1>2, <1>3, PTL DEF Spec
=============================================================================
