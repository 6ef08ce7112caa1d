---------------------------- MODULE ZmqServer_proof ----------------------------
(***************************************************************************)
(* For any number of clients, of workers and of ids: the process ends with *)
(* nothing left behind, ids are handed out once, and a request is in one   *)
(* place until the server is told to quit.                                 *)
(***************************************************************************)
EXTENDS ZmqServer, SequenceTheorems, FiniteSetTheorems, TLAPS

Early == {"start", "waiting", "commands"}
Late == {"returning", "exited", "aborted"}
Idle == {"none", "ended"}

\* Where main stands determines running, the context and the TERMINATE message.
Stages ==
  /\ (context = "null") <=> (proxy = "none")
  /\ context = "null" => main \in {"start", "commands"} \union Late
  /\ main = "start" => context = "null"
  /\ main \in Early \union {"stopping"} => context \in {"null", "open"} /\ ~control
  /\ main \in {"waiting", "stopping", "shutting"} => context = "open"
  /\ main = "joining" => context = "shut"
  /\ main \in {"exited"} => context # "open"
  /\ main = "aborted" => context = "open"
  /\ running => main \in {"waiting", "commands"} /\ context = "open"
  /\ main \in Early /\ context = "open" /\ ~running => proxy \in {"closing", "closed"}

\* Before the workers start there is none; at the end there is none any more, unless
\* shutdown returned early, which it does only behind a proxy that never forwarded.
Threads ==
  /\ main \in {"start", "waiting"} \/ context = "null" =>
       \A w \in Worker : worker[w] = "none"
  /\ main \in Late =>
       \/ context = "null"
       \/ context = "gone" /\ proxy = "closed" /\ \A w \in Worker : worker[w] \in Idle
       \/ context = "open" /\ proxy \in {"closing", "closed"} /\ ~control

\* Until the 32-bit counter has gone round, every id in use, or on its way to a
\* client, is below it and in use, or on its way, once.
Ids ==
  /\ \A c \in Client : client[c] \in {"up", "asking"} => clientId[c] # 0
  /\ registrations < IdRange =>
       /\ \A c \in Client : clientId[c] <= registrations /\ replyId[c] <= registrations
       /\ \A c, d \in Client :
            /\ clientId[c] # 0 /\ clientId[c] = clientId[d] => c = d
            /\ replyId[c] # 0 /\ replyId[c] = replyId[d] => c = d
            /\ clientId[c] # 0 => clientId[c] # replyId[d]

Holds(w, c) == serving[w] = c \/ \E i \in DOMAIN inbox[w] : inbox[w][i] = c

\* A request is held by one worker, once, and while it is in no other place.
Held ==
  /\ \A w \in Worker, c \in Client : Holds(w, c) => place[c] = "inbox"
  /\ \A w, v \in Worker, c \in Client : Holds(w, c) /\ Holds(v, c) => w = v
  /\ \A w \in Worker : \A i, j \in DOMAIN inbox[w] : inbox[w][i] = inbox[w][j] => i = j
  /\ \A w \in Worker : \A i \in DOMAIN inbox[w] : serving[w] # inbox[w][i]

\* Until quit, whoever waits has a request under way, and whoever does not has none.
Kept ==
  /\ \A c \in Client : client[c] \in {"down", "up"} => place[c] = "none"
  /\ main \in Early =>
       \A c \in Client : Waiting(c) =>
         \/ place[c] \in {"wire", "back", "answer"}
         \/ place[c] = "inbox" /\ \E w \in Worker : Holds(w, c) \/ worker[w] = "deaf"

\* Until quit a worker that holds a request, or is deaf, works behind a proxy that
\* forwards.
Fed ==
  main \in Early =>
    \A w \in Worker :
      worker[w] = "deaf" \/ (\E c \in Client : Holds(w, c)) => proxy = "forwarding"

IInv == TypeOK /\ Stages /\ Threads /\ Ids /\ Held /\ Kept /\ Fed
-----------------------------------------------------------------------------
\* The id is in range, and follows the last one until the counter goes round.
LEMMA NextIdType ==
  ASSUME registrations \in Nat
  PROVE  /\ NextClientId \in 0 .. IdRange - 1
         /\ registrations + 1 < IdRange => NextClientId = registrations + 1
<1> DEFINE next == registrations + 1
<1>1. IdRange \in Nat \ {0} /\ next \in Nat
  BY RangeAssumption
<1>2. \A n \in Nat, m \in Nat \ {0} : n % m \in 0 .. m - 1 /\ (n < m => n % m = n)
  OBVIOUS
<1>3. NextClientId = next % IdRange
  BY DEF NextClientId
<1> HIDE DEF next
<1>4. next % IdRange \in 0 .. IdRange - 1 /\ (next < IdRange => next % IdRange = next)
  BY <1>1, <1>2
<1>5. QED
  BY <1>3, <1>4 DEF next
-----------------------------------------------------------------------------
LEMMA InitializeStep == ASSUME IInv, Initialize PROVE IInv'
<1> USE NobodyAssumption, RangeAssumption DEF IInv, Early, Late, Idle
<1>1. /\ main = "start"
      /\ \/ /\ main' = "waiting" /\ running' = TRUE /\ context' = "open" /\ proxy' = "binding"
         \/ main' = "commands" /\ running' = FALSE /\ UNCHANGED <<context, proxy>>
      /\ UNCHANGED <<proxyReady, control, worker, inbox, serving,
                     registrations, client, clientId, todo, request, place,
                     replyId, sends>>
  BY DEF Initialize, server, workers, clients, mail
<1>2. TypeOK'
  BY <1>1 DEF TypeOK
<1>3. Stages'
  BY <1>1 DEF Stages
<1>4. Threads'
  BY <1>1 DEF Threads, Stages
<1>5. Ids'
  BY <1>1 DEF Ids, TypeOK
<1>6. Held'
  BY <1>1 DEF Held, Holds, TypeOK
<1>7. Kept'
  BY <1>1 DEF Kept, Holds, Waiting, TypeOK
<1>8. Fed'
  <2>1. \A v \in Worker, d \in Client : Holds(v, d)' <=> Holds(v, d)
    BY <1>1 DEF Holds
  <2>2. proxy = "none"
    BY <1>1 DEF Stages
  <2>3. QED
    BY <1>1, <2>1, <2>2 DEF Fed
<1>9. QED
  BY <1>2, <1>3, <1>4, <1>5, <1>6, <1>7, <1>8

LEMMA StartWorkersStep == ASSUME IInv, StartWorkers PROVE IInv'
<1> USE NobodyAssumption, RangeAssumption DEF IInv, Early, Late, Idle
<1>1. /\ main = "waiting" /\ main' = "commands"
      /\ worker' = IF running THEN [w \in Worker |-> "started"] ELSE worker
      /\ UNCHANGED <<running, proxyReady, context, proxy, control, inbox,
                     serving, registrations, client, clientId, todo, request,
                     place, replyId, sends>>
  BY DEF StartWorkers, server, workers, clients, mail
<1>2. TypeOK'
  <2>1. \A v \in Worker : worker[v] = "none" /\ serving[v] = Nobody
    BY <1>1 DEF Threads, TypeOK
  <2>2. /\ worker' \in [Worker -> {"none", "started"}]
        /\ \A v \in Worker : worker'[v] # "handling"
    BY <1>1, <2>1 DEF TypeOK
  <2>3. QED
    BY <1>1, <2>1, <2>2 DEF TypeOK
<1>3. Stages'
  BY <1>1 DEF Stages
<1>4. Threads'
  BY <1>1 DEF Threads, Stages
<1>5. Ids'
  BY <1>1 DEF Ids, TypeOK
<1>6. Held'
  <2>1. \A v \in Worker, d \in Client : Holds(v, d)' <=> Holds(v, d)
    BY <1>1 DEF Holds
  <2>2. \A d \in Client : place[d] = "inbox" => place'[d] = "inbox"
    BY <1>1 DEF Kept, TypeOK
  <2>3. UNCHANGED <<inbox, serving>>
    BY <1>1
  <2> HIDE DEF IInv
  <2>4. Held
    BY DEF IInv
  <2>5. QED
    BY <2>1, <2>2, <2>3, <2>4 DEF Held
<1>7. Kept'
  <2>1. \A v \in Worker, d \in Client : Holds(v, d)' <=> Holds(v, d)
    BY <1>1 DEF Holds
  <2>2. \A v \in Worker : worker[v] = "none"
    BY <1>1 DEF Threads
  <2>3. QED
    BY <1>1, <2>1, <2>2 DEF Kept, Waiting
<1>8. Fed'
  BY <1>1 DEF Fed, Holds, TypeOK
<1>9. QED
  BY <1>2, <1>3, <1>4, <1>5, <1>6, <1>7, <1>8

LEMMA QuitStep == ASSUME IInv, Quit PROVE IInv'
<1> USE NobodyAssumption, RangeAssumption DEF IInv, Early, Late, Idle
<1>1. /\ main = "commands" /\ main' = IF running THEN "stopping" ELSE "returning"
      /\ running' = FALSE
      /\ UNCHANGED <<proxyReady, context, proxy, control, worker, inbox,
                     serving, registrations, client, clientId, todo, request,
                     place, replyId, sends>>
  BY DEF Quit, server, workers, clients, mail
<1>2. TypeOK'
  BY <1>1 DEF TypeOK
<1>3. Stages'
  BY <1>1 DEF Stages
<1>4. Threads'
  BY <1>1 DEF Threads, Stages
<1>5. Ids'
  BY <1>1 DEF Ids, TypeOK
<1>6. Held'
  BY <1>1 DEF Held, Holds, TypeOK
<1>7. Kept'
  BY <1>1 DEF Kept, Holds, Waiting, TypeOK
<1>8. Fed'
  BY <1>1 DEF Fed, Holds, TypeOK
<1>9. QED
  BY <1>2, <1>3, <1>4, <1>5, <1>6, <1>7, <1>8

LEMMA SendTerminateStep == ASSUME IInv, SendTerminate PROVE IInv'
<1> USE NobodyAssumption, RangeAssumption DEF IInv, Early, Late, Idle
<1>1. /\ main = "stopping" /\ main' = "shutting" /\ control' \in BOOLEAN
      /\ UNCHANGED <<running, proxyReady, context, proxy, worker, inbox,
                     serving, registrations, client, clientId, todo, request,
                     place, replyId, sends>>
  BY DEF SendTerminate, server, workers, clients, mail
<1>2. TypeOK'
  BY <1>1 DEF TypeOK
<1>3. Stages'
  BY <1>1 DEF Stages
<1>4. Threads'
  BY <1>1 DEF Threads, Stages
<1>5. Ids'
  BY <1>1 DEF Ids, TypeOK
<1>6. Held'
  BY <1>1 DEF Held, Holds, TypeOK
<1>7. Kept'
  BY <1>1 DEF Kept, Holds, Waiting, TypeOK
<1>8. Fed'
  BY <1>1 DEF Fed, Holds, TypeOK
<1>9. QED
  BY <1>2, <1>3, <1>4, <1>5, <1>6, <1>7, <1>8

LEMMA ShutContextStep == ASSUME IInv, ShutContext PROVE IInv'
<1> USE NobodyAssumption, RangeAssumption DEF IInv, Early, Late, Idle
<1>1. /\ main = "shutting" /\ main' = "joining" /\ context' = "shut"
      /\ UNCHANGED <<running, proxyReady, proxy, control, worker, inbox,
                     serving, registrations, client, clientId, todo, request,
                     place, replyId, sends>>
  BY DEF ShutContext, server, workers, clients, mail
<1>2. TypeOK'
  BY <1>1 DEF TypeOK
<1>3. Stages'
  BY <1>1 DEF Stages
<1>4. Threads'
  BY <1>1 DEF Threads, Stages
<1>5. Ids'
  BY <1>1 DEF Ids, TypeOK
<1>6. Held'
  BY <1>1 DEF Held, Holds, TypeOK
<1>7. Kept'
  BY <1>1 DEF Kept, Holds, Waiting, TypeOK
<1>8. Fed'
  BY <1>1 DEF Fed, Holds, TypeOK
<1>9. QED
  BY <1>2, <1>3, <1>4, <1>5, <1>6, <1>7, <1>8

LEMMA JoinStep == ASSUME IInv, Join PROVE IInv'
<1> USE NobodyAssumption, RangeAssumption DEF IInv, Early, Late, Idle
<1>1. /\ main = "joining" /\ main' = "returning" /\ context' = "gone"
      /\ proxy = "closed" /\ \A w \in Worker : worker[w] \in Idle
      /\ UNCHANGED <<running, proxyReady, proxy, control, worker, inbox,
                     serving, registrations, client, clientId, todo, request,
                     place, replyId, sends>>
  BY DEF Join, server, workers, clients, mail
<1>2. TypeOK'
  BY <1>1 DEF TypeOK
<1>3. Stages'
  BY <1>1 DEF Stages
<1>4. Threads'
  BY <1>1 DEF Threads, Stages
<1>5. Ids'
  BY <1>1 DEF Ids, TypeOK
<1>6. Held'
  BY <1>1 DEF Held, Holds, TypeOK
<1>7. Kept'
  BY <1>1 DEF Kept, Holds, Waiting, TypeOK
<1>8. Fed'
  BY <1>1 DEF Fed, Holds, TypeOK
<1>9. QED
  BY <1>2, <1>3, <1>4, <1>5, <1>6, <1>7, <1>8

LEMMA ReturnStep == ASSUME IInv, Return PROVE IInv'
<1> USE NobodyAssumption, RangeAssumption DEF IInv, Early, Late, Idle
<1>1. /\ main = "returning"
      /\ main' = IF proxy = "none" \/ context = "gone" THEN "exited" ELSE "aborted"
      /\ UNCHANGED <<running, proxyReady, context, proxy, control, worker,
                     inbox, serving, registrations, client, clientId, todo,
                     request, place, replyId, sends>>
  BY DEF Return, server, workers, clients, mail
<1>2. TypeOK'
  BY <1>1 DEF TypeOK
<1>3. Stages'
  <2>1. main' = "exited" => context # "open"
    BY <1>1 DEF Stages
  <2>2. main' = "aborted" => context = "open"
    BY <1>1 DEF Stages, Threads
  <2>3. QED
    BY <1>1, <2>1, <2>2 DEF Stages
<1>4. Threads'
  BY <1>1 DEF Threads, Stages
<1>5. Ids'
  BY <1>1 DEF Ids, TypeOK
<1>6. Held'
  BY <1>1 DEF Held, Holds, TypeOK
<1>7. Kept'
  BY <1>1 DEF Kept, Holds, Waiting, TypeOK
<1>8. Fed'
  BY <1>1 DEF Fed, Holds, TypeOK
<1>9. QED
  BY <1>2, <1>3, <1>4, <1>5, <1>6, <1>7, <1>8

LEMMA BindStep == ASSUME IInv, Bind PROVE IInv'
<1> USE NobodyAssumption, RangeAssumption DEF IInv, Early, Late, Idle
<1>1. /\ proxy = "binding" /\ proxy' \in {"forwarding", "unbound"} /\ proxyReady' = TRUE
      /\ UNCHANGED <<main, running, context, control, worker, inbox, serving,
                     registrations, client, clientId, todo, request, place,
                     replyId, sends>>
  BY DEF Bind, server, workers, clients, mail
<1>2. TypeOK'
  BY <1>1 DEF TypeOK
<1>3. Stages'
  BY <1>1 DEF Stages
<1>4. Threads'
  BY <1>1 DEF Threads, Stages
<1>5. Ids'
  BY <1>1 DEF Ids, TypeOK
<1>6. Held'
  BY <1>1 DEF Held, Holds, TypeOK
<1>7. Kept'
  BY <1>1 DEF Kept, Holds, Waiting, TypeOK
<1>8. Fed'
  BY <1>1 DEF Fed, Holds, TypeOK
<1>9. QED
  BY <1>2, <1>3, <1>4, <1>5, <1>6, <1>7, <1>8

LEMMA GiveUpStep == ASSUME IInv, GiveUp PROVE IInv'
<1> USE NobodyAssumption, RangeAssumption DEF IInv, Early, Late, Idle
<1>1. /\ proxy = "unbound" /\ proxy' = "closing" /\ running' = FALSE
      /\ UNCHANGED <<main, proxyReady, context, control, worker, inbox,
                     serving, registrations, client, clientId, todo, request,
                     place, replyId, sends>>
  BY DEF GiveUp, server, workers, clients, mail
<1>2. TypeOK'
  BY <1>1 DEF TypeOK
<1>3. Stages'
  BY <1>1 DEF Stages
<1>4. Threads'
  BY <1>1 DEF Threads, Stages
<1>5. Ids'
  BY <1>1 DEF Ids, TypeOK
<1>6. Held'
  BY <1>1 DEF Held, Holds, TypeOK
<1>7. Kept'
  BY <1>1 DEF Kept, Holds, Waiting, TypeOK
<1>8. Fed'
  BY <1>1 DEF Fed, Holds, TypeOK
<1>9. QED
  BY <1>2, <1>3, <1>4, <1>5, <1>6, <1>7, <1>8

LEMMA EndProxyStep == ASSUME IInv, EndProxy PROVE IInv'
<1> USE NobodyAssumption, RangeAssumption DEF IInv, Early, Late, Idle
<1>1. /\ proxy = "forwarding" /\ proxy' = "closing" /\ (control \/ context = "shut")
      /\ UNCHANGED <<main, running, proxyReady, context, control, worker,
                     inbox, serving, registrations, client, clientId, todo,
                     request, place, replyId, sends>>
  BY DEF EndProxy, server, workers, clients, mail
<1>2. TypeOK'
  BY <1>1 DEF TypeOK
<1>3. Stages'
  BY <1>1 DEF Stages
<1>4. Threads'
  BY <1>1 DEF Threads, Stages
<1>5. Ids'
  BY <1>1 DEF Ids, TypeOK
<1>6. Held'
  BY <1>1 DEF Held, Holds, TypeOK
<1>7. Kept'
  BY <1>1 DEF Kept, Holds, Waiting, TypeOK
<1>8. Fed'
  <2>1. main \notin Early
    BY <1>1 DEF Stages
  <2>2. QED
    BY <1>1, <2>1 DEF Fed
<1>9. QED
  BY <1>2, <1>3, <1>4, <1>5, <1>6, <1>7, <1>8

LEMMA CloseProxyStep == ASSUME IInv, CloseProxy PROVE IInv'
<1> USE NobodyAssumption, RangeAssumption DEF IInv, Early, Late, Idle
<1>1. /\ proxy = "closing" /\ proxy' = "closed"
      /\ UNCHANGED <<main, running, proxyReady, context, control, worker, inbox,
                     serving, registrations, client, clientId, todo, request,
                     place, replyId, sends>>
  BY DEF CloseProxy, server, workers, clients, mail
<1>2. TypeOK'
  BY <1>1 DEF TypeOK
<1>3. Stages'
  BY <1>1 DEF Stages
<1>4. Threads'
  BY <1>1 DEF Threads, Stages
<1>5. Ids'
  BY <1>1 DEF Ids, TypeOK
<1>6. Held'
  BY <1>1 DEF Held, Holds, TypeOK
<1>7. Kept'
  BY <1>1 DEF Kept, Holds, Waiting, TypeOK
<1>8. Fed'
  BY <1>1 DEF Fed, Holds, TypeOK
<1>9. QED
  BY <1>2, <1>3, <1>4, <1>5, <1>6, <1>7, <1>8

LEMMA ForwardStep == ASSUME IInv, NEW c \in Client, Forward(c) PROVE IInv'
<1> USE NobodyAssumption, RangeAssumption DEF IInv, Early, Late, Idle
<1>1. PICK w \in Worker : inbox' = [inbox EXCEPT ![w] = Append(@, c)]
  BY DEF Forward, Ready
<1>2. /\ proxy = "forwarding" /\ place[c] = "wire" /\ place' = [place EXCEPT ![c] = "inbox"]
      /\ UNCHANGED <<main, running, proxyReady, context, proxy, control,
                     worker, serving, registrations, client, clientId, todo,
                     request, replyId, sends>>
  BY DEF Forward, server, clients
<1> DEFINE list == inbox[w]
           n == Len(list)
<1>3. list \in Seq(Client) /\ n \in Nat /\ DOMAIN list = 1 .. n
  <2>1. list \in Seq(Client)
    BY DEF TypeOK
  <2>2. QED
    BY <2>1, LenProperties
<1>4. /\ inbox'[w] \in Seq(Client) /\ DOMAIN inbox'[w] = 1 .. n + 1
      /\ inbox'[w][n + 1] = c /\ \A i \in 1 .. n : inbox'[w][i] = inbox[w][i]
      /\ \A v \in Worker \ {w} : inbox'[v] = inbox[v]
      /\ inbox' \in [Worker -> Seq(Client)]
  <2>1. /\ inbox'[w] = Append(list, c) /\ \A v \in Worker \ {w} : inbox'[v] = inbox[v]
        /\ DOMAIN inbox' = Worker /\ inbox' = [v \in Worker |-> inbox'[v]]
        /\ \A v \in Worker : inbox[v] \in Seq(Client)
    BY <1>1 DEF TypeOK
  <2> HIDE DEF list, n, IInv
  <2>2. /\ Append(list, c) \in Seq(Client) /\ Len(Append(list, c)) = n + 1
        /\ Append(list, c)[n + 1] = c /\ \A i \in 1 .. n : Append(list, c)[i] = list[i]
    BY <1>3, AppendProperties DEF n
  <2>3. DOMAIN Append(list, c) = 1 .. n + 1
    BY <2>2, LenProperties
  <2>4. inbox' \in [Worker -> Seq(Client)]
    BY <2>1, <2>2
  <2>5. QED
    BY <2>1, <2>2, <2>3, <2>4 DEF list
<1> HIDE DEF list, n
<1>5. /\ Holds(w, c)' /\ \A v \in Worker : ~Holds(v, c)
      /\ \A v \in Worker, d \in Client : ~(v = w /\ d = c) => (Holds(v, d)' <=> Holds(v, d))
  <2>1. Holds(w, c)'
    <3>1. n + 1 \in 1 .. n + 1
      BY <1>3
    <3>2. QED
      BY <1>4, <3>1 DEF Holds
  <2>2. \A v \in Worker : ~Holds(v, c)
    BY <1>2 DEF Held
  <2>3. ASSUME NEW d \in Client \ {c} PROVE Holds(w, d)' <=> Holds(w, d)
    <3>1. \A i \in 1 .. n + 1 : i \in 1 .. n \/ i = n + 1
      BY <1>3
    <3>2. \A i \in 1 .. n : i \in 1 .. n + 1
      BY <1>3
    <3>3. DOMAIN inbox[w] = 1 .. n
      BY <1>3 DEF list
    <3> HIDE DEF IInv
    <3>4. QED
      BY <1>2, <1>4, <3>1, <3>2, <3>3 DEF Holds
  <2>4. \A v \in Worker \ {w}, d \in Client : Holds(v, d)' <=> Holds(v, d)
    BY <1>2, <1>4 DEF Holds
  <2>5. QED
    BY <2>1, <2>2, <2>3, <2>4
<1>6. TypeOK'
  BY <1>1, <1>2, <1>3, <1>4, <1>5 DEF TypeOK
<1>7. Stages'
  BY <1>1, <1>2, <1>3, <1>4, <1>5 DEF Stages
<1>8. Threads'
  BY <1>1, <1>2, <1>3, <1>4, <1>5 DEF Threads, Stages
<1>9. Ids'
  BY <1>1, <1>2, <1>3, <1>4, <1>5 DEF Ids, TypeOK
<1>10. Held'
  <2>1. \A v \in Worker, d \in Client : Holds(v, d)' => place'[d] = "inbox"
    <3>1. \A v \in Worker, d \in Client : Holds(v, d) => place[d] = "inbox"
      BY DEF Held
    <3>2. place'[c] = "inbox" /\ \A d \in Client \ {c} : place'[d] = place[d]
      BY <1>2 DEF TypeOK
    <3>3. QED
      BY <1>5, <3>1, <3>2
  <2>2. \A u, v \in Worker, d \in Client : Holds(u, d)' /\ Holds(v, d)' => u = v
    <3>1. \A u, v \in Worker, d \in Client : Holds(u, d) /\ Holds(v, d) => u = v
      BY DEF Held
    <3> HIDE DEF IInv
    <3>2. QED
      BY <1>5, <3>1
  <2>3. DOMAIN inbox[w] = 1 .. n
    BY <1>3 DEF list
  <2>4. \A i \in 1 .. n : inbox[w][i] # c /\ serving[w] # c
    BY <1>5, <2>3 DEF Holds
  <2>5. \A i \in 1 .. n + 1 : i \in 1 .. n \/ i = n + 1
    BY <1>3
  <2>6. \A v \in Worker : \A i, j \in DOMAIN inbox'[v] : inbox'[v][i] = inbox'[v][j] => i = j
    <3>1. ASSUME NEW i \in DOMAIN inbox'[w], NEW j \in DOMAIN inbox'[w],
                 inbox'[w][i] = inbox'[w][j]
          PROVE  i = j
      <4>1. (i \in 1 .. n \/ i = n + 1) /\ (j \in 1 .. n \/ j = n + 1)
        BY <1>4, <2>5
      <4>2. \A k, m \in 1 .. n : inbox[w][k] = inbox[w][m] => k = m
        BY <2>3 DEF Held
      <4> HIDE DEF IInv
      <4>3. QED
        BY <1>4, <2>4, <3>1, <4>1, <4>2
    <3>2. QED
      BY <1>4, <3>1 DEF Held
  <2>7. \A v \in Worker : \A i \in DOMAIN inbox'[v] : serving'[v] # inbox'[v][i]
    <3>1. \A v \in Worker : \A i \in DOMAIN inbox[v] : serving[v] # inbox[v][i]
      BY DEF Held
    <3>2. serving[w] # c
      BY <1>5 DEF Holds
    <3> HIDE DEF IInv
    <3>3. \A i \in DOMAIN inbox'[w] : serving[w] # inbox'[w][i]
      <4>1. \A i \in 1 .. n : serving[w] # inbox'[w][i]
        BY <1>4, <2>3, <3>1
      <4>2. serving[w] # inbox'[w][n + 1]
        BY <1>4, <3>2
      <4>3. QED
        BY <1>4, <2>5, <4>1, <4>2
    <3>4. serving' = serving
      BY <1>2
    <3>5. QED
      BY <1>4, <3>1, <3>3, <3>4
  <2>8. QED
    BY <2>1, <2>2, <2>6, <2>7 DEF Held
<1>11. Kept'
  <2>1. place'[c] = "inbox" /\ \A d \in Client \ {c} : place'[d] = place[d]
    BY <1>2 DEF TypeOK
  <2>2. client[c] \notin {"down", "up"}
    BY <1>2 DEF Kept
  <2>3. \A d \in Client : client[d] \in {"down", "up"} => place'[d] = "none"
    BY <2>1, <2>2 DEF Kept
  <2>4. ASSUME main \in Early, NEW d \in Client \ {c}, Waiting(d)
        PROVE  \/ place'[d] \in {"wire", "back", "answer"}
               \/ place'[d] = "inbox" /\ \E v \in Worker : Holds(v, d)' \/ worker[v] = "deaf"
    <3>1. \/ place[d] \in {"wire", "back", "answer"}
          \/ place[d] = "inbox" /\ \E v \in Worker : Holds(v, d) \/ worker[v] = "deaf"
      BY <2>4 DEF Kept
    <3> HIDE DEF IInv
    <3>2. QED
      BY <1>5, <2>1, <3>1
  <2>5. QED
    BY <1>2, <1>5, <2>1, <2>3, <2>4 DEF Kept, Waiting
<1>12. Fed'
  BY <1>1, <1>2, <1>3, <1>4, <1>5 DEF Fed, Holds, TypeOK
<1>13. QED
  BY <1>6, <1>7, <1>8, <1>9, <1>10, <1>11, <1>12

LEMMA BackwardStep == ASSUME IInv, NEW c \in Client, Backward(c) PROVE IInv'
<1> USE NobodyAssumption, RangeAssumption DEF IInv, Early, Late, Idle
<1>1. /\ proxy = "forwarding" /\ place[c] = "back"
      /\ place' = [place EXCEPT ![c] = IF client[c] = "gone" THEN "none" ELSE "answer"]
      /\ UNCHANGED <<main, running, proxyReady, context, proxy, control,
                     worker, inbox, serving, registrations, client, clientId,
                     todo, request, replyId, sends>>
  BY DEF Backward, server, workers, clients, mail
<1>2. TypeOK'
  BY <1>1 DEF TypeOK
<1>3. Stages'
  BY <1>1 DEF Stages
<1>4. Threads'
  BY <1>1 DEF Threads, Stages
<1>5. Ids'
  BY <1>1 DEF Ids, TypeOK
<1>6. Held'
  <2>1. \A v \in Worker, d \in Client : Holds(v, d)' <=> Holds(v, d)
    BY <1>1 DEF Holds
  <2>2. \A d \in Client : place[d] = "inbox" => place'[d] = "inbox"
    BY <1>1 DEF Kept, TypeOK
  <2>3. UNCHANGED <<inbox, serving>>
    BY <1>1
  <2> HIDE DEF IInv
  <2>4. Held
    BY DEF IInv
  <2>5. QED
    BY <2>1, <2>2, <2>3, <2>4 DEF Held
<1>7. Kept'
  BY <1>1 DEF Kept, Holds, Waiting, TypeOK
<1>8. Fed'
  BY <1>1 DEF Fed, Holds, TypeOK
<1>9. QED
  BY <1>2, <1>3, <1>4, <1>5, <1>6, <1>7, <1>8

LEMMA StartWorkerStep == ASSUME IInv, NEW w \in Worker, StartWorker(w) PROVE IInv'
<1> USE NobodyAssumption, RangeAssumption DEF IInv, Early, Late, Idle
<1>1. /\ Alive /\ worker[w] = "started"
      /\ worker' = [worker EXCEPT ![w] = IF context = "open" THEN "looping" ELSE "ended"]
      /\ UNCHANGED <<main, running, proxyReady, context, proxy, control, inbox,
                     serving, registrations, client, clientId, todo, request,
                     place, replyId, sends>>
  BY DEF StartWorker, server, workers, clients, mail, Goto
<1>2. TypeOK'
  BY <1>1 DEF TypeOK
<1>3. Stages'
  BY <1>1 DEF Stages
<1>4. Threads'
  BY <1>1 DEF Threads, Stages, Alive
<1>5. Ids'
  BY <1>1 DEF Ids, TypeOK
<1>6. Held'
  <2>1. \A v \in Worker, d \in Client : Holds(v, d)' <=> Holds(v, d)
    BY <1>1 DEF Holds
  <2>2. \A d \in Client : place[d] = "inbox" => place'[d] = "inbox"
    BY <1>1 DEF Kept, TypeOK
  <2>3. UNCHANGED <<inbox, serving>>
    BY <1>1
  <2> HIDE DEF IInv
  <2>4. Held
    BY DEF IInv
  <2>5. QED
    BY <2>1, <2>2, <2>3, <2>4 DEF Held
<1>7. Kept'
  <2>1. \A v \in Worker, d \in Client : Holds(v, d)' <=> Holds(v, d)
    BY <1>1 DEF Holds
  <2>2. \A v \in Worker : worker[v] = "deaf" => worker'[v] = "deaf"
    BY <1>1 DEF TypeOK
  <2>3. QED
    BY <1>1, <2>1, <2>2 DEF Kept, Waiting
<1>8. Fed'
  BY <1>1 DEF Fed, Holds, TypeOK
<1>9. QED
  BY <1>2, <1>3, <1>4, <1>5, <1>6, <1>7, <1>8

LEMMA LoopStep == ASSUME IInv, NEW w \in Worker, Loop(w) PROVE IInv'
<1> USE NobodyAssumption, RangeAssumption DEF IInv, Early, Late, Idle
<1>1. /\ Alive /\ worker[w] = "looping"
      /\ worker' = [worker EXCEPT ![w] = IF running THEN "receiving" ELSE "ended"]
      /\ UNCHANGED <<main, running, proxyReady, context, proxy, control, inbox,
                     serving, registrations, client, clientId, todo, request,
                     place, replyId, sends>>
  BY DEF Loop, server, workers, clients, mail, Goto
<1>2. TypeOK'
  BY <1>1 DEF TypeOK
<1>3. Stages'
  BY <1>1 DEF Stages
<1>4. Threads'
  BY <1>1 DEF Threads, Stages, Alive
<1>5. Ids'
  BY <1>1 DEF Ids, TypeOK
<1>6. Held'
  <2>1. \A v \in Worker, d \in Client : Holds(v, d)' <=> Holds(v, d)
    BY <1>1 DEF Holds
  <2>2. \A d \in Client : place[d] = "inbox" => place'[d] = "inbox"
    BY <1>1 DEF Kept, TypeOK
  <2>3. UNCHANGED <<inbox, serving>>
    BY <1>1
  <2> HIDE DEF IInv
  <2>4. Held
    BY DEF IInv
  <2>5. QED
    BY <2>1, <2>2, <2>3, <2>4 DEF Held
<1>7. Kept'
  <2>1. \A v \in Worker, d \in Client : Holds(v, d)' <=> Holds(v, d)
    BY <1>1 DEF Holds
  <2>2. \A v \in Worker : worker[v] = "deaf" => worker'[v] = "deaf"
    BY <1>1 DEF TypeOK
  <2>3. QED
    BY <1>1, <2>1, <2>2 DEF Kept, Waiting
<1>8. Fed'
  BY <1>1 DEF Fed, Holds, TypeOK
<1>9. QED
  BY <1>2, <1>3, <1>4, <1>5, <1>6, <1>7, <1>8

LEMMA ReceiveStep == ASSUME IInv, NEW w \in Worker, Receive(w) PROVE IInv'
<1> USE NobodyAssumption, RangeAssumption DEF IInv, Early, Late, Idle
<1> DEFINE list == inbox[w]
           n == Len(list)
<1>1. /\ worker[w] = "receiving" /\ context = "open" /\ list # <<>> /\ Alive
      /\ serving' = [serving EXCEPT ![w] = Head(list)]
      /\ inbox' = [inbox EXCEPT ![w] = Tail(list)]
      /\ worker' = [worker EXCEPT ![w] = "handling"]
      /\ UNCHANGED <<main, running, proxyReady, context, proxy, control,
                     registrations, client, clientId, todo, request, place,
                     replyId, sends>>
  BY DEF Receive, Goto, server, clients, mail
<1>2. /\ n \in Nat \ {0} /\ DOMAIN list = 1 .. n /\ Head(list) \in Client /\ Head(list) = list[1]
      /\ Tail(list) \in Seq(Client) /\ DOMAIN Tail(list) = 1 .. n - 1
      /\ \A i \in 1 .. n - 1 : Tail(list)[i] = list[i + 1]
  <2>1. list \in Seq(Client) /\ list # <<>>
    BY <1>1 DEF TypeOK
  <2> HIDE DEF list, IInv
  <2>2. n \in Nat \ {0} /\ DOMAIN list = 1 .. n
    BY <2>1, EmptySeq, LenProperties
  <2>3. /\ Head(list) \in Client /\ Head(list) = list[1] /\ Tail(list) \in Seq(Client)
        /\ Len(Tail(list)) = n - 1 /\ \A i \in 1 .. n - 1 : Tail(list)[i] = list[i + 1]
    BY <2>1, <2>2, HeadTailProperties
  <2>4. DOMAIN Tail(list) = 1 .. n - 1
    BY <2>3, LenProperties
  <2>5. QED
    BY <2>1, <2>2, <2>3, <2>4
<1>3. /\ inbox'[w] = Tail(list) /\ serving'[w] = Head(list) /\ serving[w] = Nobody
      /\ \A v \in Worker \ {w} : inbox'[v] = inbox[v] /\ serving'[v] = serving[v]
      /\ inbox' \in [Worker -> Seq(Client)] /\ serving' \in [Worker -> Client \union {Nobody}]
  BY <1>1, <1>2 DEF TypeOK
<1>4. \A v \in Worker, d \in Client : Holds(v, d)' <=> Holds(v, d)
  <2>1. \A v \in Worker \ {w}, d \in Client : Holds(v, d)' <=> Holds(v, d)
    BY <1>3 DEF Holds
  <2>2. \A i \in 1 .. n : i = 1 \/ (i - 1 \in 1 .. n - 1 /\ (i - 1) + 1 = i)
    BY <1>2
  <2>3. \A i \in 1 .. n - 1 : i + 1 \in 1 .. n
    BY <1>2
  <2>4. 1 \in 1 .. n
    BY <1>2
  <2>5. ASSUME NEW d \in Client PROVE Holds(w, d)' <=> Holds(w, d)
    <3>1. d # Nobody
      BY NobodyAssumption
    <3>2. Holds(w, d) <=> \E i \in 1 .. n : list[i] = d
      BY <1>2, <1>3, <3>1 DEF Holds
    <3>3. Holds(w, d)' <=> list[1] = d \/ \E i \in 1 .. n - 1 : list[i + 1] = d
      <4>1. Holds(w, d)' <=> serving'[w] = d \/ \E i \in DOMAIN inbox'[w] : inbox'[w][i] = d
        BY DEF Holds
      <4> HIDE DEF IInv, list, n
      <4>2. /\ DOMAIN inbox'[w] = 1 .. n - 1 /\ serving'[w] = list[1]
            /\ \A i \in 1 .. n - 1 : inbox'[w][i] = list[i + 1]
        BY <1>2, <1>3
      <4>3. QED
        BY <4>1, <4>2
    <3> HIDE DEF IInv, list, n
    <3>4. (\E i \in 1 .. n : list[i] = d) => list[1] = d \/ \E i \in 1 .. n - 1 : list[i + 1] = d
      BY <2>2
    <3>5. (list[1] = d \/ \E i \in 1 .. n - 1 : list[i + 1] = d) => \E i \in 1 .. n : list[i] = d
      BY <2>3, <2>4
    <3>6. QED
      BY <3>2, <3>3, <3>4, <3>5
  <2>6. QED
    BY <2>1, <2>5
<1>5. TypeOK'
  BY <1>1, <1>2, <1>3, <1>4 DEF TypeOK
<1>6. Stages'
  BY <1>1, <1>2, <1>3, <1>4 DEF Stages
<1>7. Threads'
  BY <1>1, <1>2, <1>3, <1>4 DEF Threads, Stages, Alive
<1>8. Ids'
  BY <1>1, <1>2, <1>3, <1>4 DEF Ids, TypeOK
<1>9. Held'
  <2>1. \A v \in Worker, d \in Client : Holds(v, d)' => place[d] = "inbox"
    BY <1>4 DEF Held
  <2>2. \A u, v \in Worker, d \in Client : Holds(u, d)' /\ Holds(v, d)' => u = v
    <3>1. \A u, v \in Worker, d \in Client : Holds(u, d) /\ Holds(v, d) => u = v
      BY DEF Held
    <3> HIDE DEF IInv
    <3>2. QED
      BY <1>4, <3>1
  <2>3. \A i \in 1 .. n - 1 : i + 1 \in 1 .. n /\ i + 1 # 1
    BY <1>2
  <2>4. \A i, j \in 1 .. n : list[i] = list[j] => i = j
    BY <1>2 DEF Held
  <2>5. \A i \in DOMAIN inbox'[w] : inbox'[w][i] = list[i + 1] /\ i + 1 \in 1 .. n /\ i + 1 # 1
    BY <1>2, <1>3, <2>3
  <2>6. \A i, j \in DOMAIN inbox'[w] : inbox'[w][i] = inbox'[w][j] => i = j
    <3>1. \A i, j \in 1 .. n - 1 : i + 1 = j + 1 => i = j
      BY <1>2
    <3> HIDE DEF IInv, list, n
    <3>2. QED
      BY <1>2, <1>3, <2>4, <2>5, <3>1
  <2>7. \A i \in DOMAIN inbox'[w] : serving'[w] # inbox'[w][i]
    <3>1. 1 \in 1 .. n
      BY <1>2
    <3> HIDE DEF IInv, list, n
    <3>2. QED
      BY <1>2, <1>3, <2>4, <2>5, <3>1
  <2>8. \A v \in Worker \ {w} :
          /\ \A i, j \in DOMAIN inbox[v] : inbox[v][i] = inbox[v][j] => i = j
          /\ \A i \in DOMAIN inbox[v] : serving[v] # inbox[v][i]
    BY DEF Held
  <2>9. place' = place
    BY <1>1
  <2> HIDE DEF IInv, list, n
  <2>10. \A v \in Worker :
           /\ \A i, j \in DOMAIN inbox'[v] : inbox'[v][i] = inbox'[v][j] => i = j
           /\ \A i \in DOMAIN inbox'[v] : serving'[v] # inbox'[v][i]
    <3>1. \A v \in Worker \ {w} : inbox'[v] = inbox[v] /\ serving'[v] = serving[v]
      BY <1>3
    <3>2. QED
      BY ONLY <2>6, <2>7, <2>8, <3>1
  <2>11. QED
    BY <2>1, <2>2, <2>9, <2>10 DEF Held
<1>10. Kept'
  <2>1. \A v \in Worker, d \in Client : Holds(v, d)' <=> Holds(v, d)
    BY <1>4
  <2>2. \A v \in Worker : worker[v] = "deaf" => worker'[v] = "deaf"
    BY <1>1 DEF TypeOK
  <2>3. QED
    BY <1>1, <2>1, <2>2 DEF Kept, Waiting
<1>11. Fed'
  BY <1>1, <1>2, <1>3, <1>4 DEF Fed, Holds, TypeOK
<1>12. QED
  BY <1>5, <1>6, <1>7, <1>8, <1>9, <1>10, <1>11

LEMMA InterruptedStep == ASSUME IInv, NEW w \in Worker, Interrupted(w) PROVE IInv'
<1> USE NobodyAssumption, RangeAssumption DEF IInv, Early, Late, Idle
<1>1. /\ worker[w] = "receiving" /\ context = "shut"
      /\ worker' = [worker EXCEPT ![w] = "ended"]
      /\ UNCHANGED <<main, running, proxyReady, context, proxy, control, inbox,
                     serving, registrations, client, clientId, todo, request,
                     place, replyId, sends>>
  BY DEF Interrupted, server, workers, clients, mail, Goto
<1>2. TypeOK'
  BY <1>1 DEF TypeOK
<1>3. Stages'
  BY <1>1 DEF Stages
<1>4. Threads'
  BY <1>1 DEF Threads, Stages, Alive
<1>5. Ids'
  BY <1>1 DEF Ids, TypeOK
<1>6. Held'
  <2>1. \A v \in Worker, d \in Client : Holds(v, d)' <=> Holds(v, d)
    BY <1>1 DEF Holds
  <2>2. \A d \in Client : place[d] = "inbox" => place'[d] = "inbox"
    BY <1>1 DEF Kept, TypeOK
  <2>3. UNCHANGED <<inbox, serving>>
    BY <1>1
  <2> HIDE DEF IInv
  <2>4. Held
    BY DEF IInv
  <2>5. QED
    BY <2>1, <2>2, <2>3, <2>4 DEF Held
<1>7. Kept'
  <2>1. \A v \in Worker, d \in Client : Holds(v, d)' <=> Holds(v, d)
    BY <1>1 DEF Holds
  <2>2. \A v \in Worker : worker[v] = "deaf" => worker'[v] = "deaf"
    BY <1>1 DEF TypeOK
  <2>3. QED
    BY <1>1, <2>1, <2>2 DEF Kept, Waiting
<1>8. Fed'
  BY <1>1 DEF Fed, Holds, TypeOK
<1>9. QED
  BY <1>2, <1>3, <1>4, <1>5, <1>6, <1>7, <1>8

LEMMA RegisterStep == ASSUME IInv, NEW w \in Worker, Register(w) PROVE IInv'
<1> USE NobodyAssumption, RangeAssumption DEF IInv, Early, Late, Idle
<1>1. /\ worker[w] = "handling" /\ Alive
      /\ replyId' = [replyId EXCEPT ![serving[w]] = NextClientId] /\ registrations' = registrations + 1
      /\ place' = [place EXCEPT ![serving[w]] = IF context = "open" THEN "back" ELSE "lost"]
      /\ serving' = [serving EXCEPT ![w] = Nobody]
      /\ worker' = [worker EXCEPT ![w] = "looping"]
      /\ UNCHANGED <<main, running, proxyReady, context, proxy, control, inbox,
                     client, clientId, todo, request, sends>>
  BY DEF Register, Reply, Goto, server, clients
<1>2. PICK c \in Client : c = serving[w] /\ Holds(w, c)
  BY <1>1 DEF TypeOK, Holds
<1>3. /\ \A v \in Worker, d \in Client : Holds(v, d)' => Holds(v, d) /\ d # c
      /\ \A v \in Worker, d \in Client : Holds(v, d) /\ d # c => Holds(v, d)'
  <2>1. /\ serving'[w] = Nobody /\ Nobody \notin Client
        /\ \A v \in Worker \ {w} : serving'[v] = serving[v]
    BY <1>1, NobodyAssumption DEF TypeOK
  <2>2. \A v \in Worker : Holds(v, c) => v = w
    BY <1>2 DEF Held
  <2>3. \A i \in DOMAIN inbox[w] : inbox[w][i] # c
    BY <1>2 DEF Held
  <2> HIDE DEF IInv
  <2>4. QED
    BY <1>1, <1>2, <2>1, <2>2, <2>3 DEF Holds
<1>4. place[c] = "inbox" /\ client[c] \notin {"down", "up"}
  BY <1>2 DEF Held, Kept
<1>5. TypeOK'
  <2>1. NextClientId \in 0 .. IdRange - 1
    BY NextIdType DEF TypeOK
  <2>2. replyId' \in [Client -> 0 .. IdRange - 1] /\ registrations' \in Nat
    BY <1>1, <1>2, <2>1 DEF TypeOK
  <2>3. /\ worker' \in [Worker -> {"none", "started", "looping", "receiving", "handling",
                              "deaf", "ended"}]
        /\ serving' \in [Worker -> Client \union {Nobody}]
        /\ \A v \in Worker : (worker'[v] = "handling") = (serving'[v] # Nobody)
    BY <1>1, <1>2 DEF TypeOK
  <2>4. place' \in [Client -> {"none", "wire", "inbox", "back", "answer", "lost"}]
    BY <1>1, <1>2 DEF TypeOK
  <2>5. QED
    BY <1>1, <2>2, <2>3, <2>4 DEF TypeOK
<1>6. Stages'
  BY <1>1, <1>2, <1>3, <1>4 DEF Stages
<1>7. Threads'
  BY <1>1, <1>2, <1>3, <1>4 DEF Threads, Stages, Alive
<1>8. Ids'
  <2>1. /\ replyId'[c] = NextClientId /\ \A d \in Client \ {c} : replyId'[d] = replyId[d]
        /\ registrations' = registrations + 1 /\ registrations \in Nat
        /\ \A d \in Client : clientId[d] \in Nat /\ replyId[d] \in Nat
        /\ UNCHANGED <<clientId, client>>
    BY <1>1, <1>2 DEF TypeOK
  <2>2. registrations' < IdRange => NextClientId = registrations'
    BY <2>1, NextIdType
  <2>3. ASSUME registrations' < IdRange
        PROVE  /\ registrations < IdRange
               /\ \A d \in Client : clientId[d] <= registrations' /\ replyId'[d] <= registrations'
               /\ \A d \in Client : clientId[d] # registrations' /\ replyId[d] # registrations'
    <3>1. registrations < IdRange
      BY <2>1, <2>3
    <3>2. \A d \in Client : clientId[d] <= registrations /\ replyId[d] <= registrations
      BY <3>1 DEF Ids
    <3> HIDE DEF IInv
    <3>3. QED
      BY <2>1, <2>2, <2>3, <3>1, <3>2
  <2>4. ASSUME registrations' < IdRange, NEW d \in Client, NEW e \in Client
        PROVE  /\ clientId[d] # 0 /\ clientId[d] = clientId[e] => d = e
               /\ replyId'[d] # 0 /\ replyId'[d] = replyId'[e] => d = e
               /\ clientId[d] # 0 => clientId[d] # replyId'[e]
    <3>1. /\ clientId[d] # 0 /\ clientId[d] = clientId[e] => d = e
          /\ replyId[d] # 0 /\ replyId[d] = replyId[e] => d = e
          /\ clientId[d] # 0 => clientId[d] # replyId[e]
      BY <2>3, <2>4 DEF Ids
    <3> HIDE DEF IInv
    <3>2. QED
      BY <2>1, <2>2, <2>3, <2>4, <3>1
  <2>5. \A d \in Client : client[d] \in {"up", "asking"} => clientId[d] # 0
    BY DEF Ids
  <2> HIDE DEF IInv
  <2>6. QED
    BY <2>1, <2>3, <2>4, <2>5 DEF Ids
<1>9. Held'
  <2>1. \A v \in Worker : serving'[v] = serving[v] \/ serving'[v] = Nobody
    BY <1>1 DEF TypeOK
  <2>2. \A d \in Client \ {c} : place[d] = "inbox" => place'[d] = "inbox"
    BY <1>1, <1>2 DEF TypeOK
  <2>3. \A v \in Worker : \A i \in DOMAIN inbox[v] : inbox[v][i] # Nobody
    <3>1. \A v \in Worker : inbox[v] \in Seq(Client)
      BY DEF TypeOK
    <3> HIDE DEF IInv
    <3>2. QED
      BY <3>1, LenProperties, ElementOfSeq
  <2>4. UNCHANGED inbox
    BY <1>1
  <2> HIDE DEF IInv
  <2>5. Held
    BY DEF IInv
  <2>6. QED
    BY <1>3, <2>1, <2>2, <2>3, <2>4, <2>5 DEF Held
<1>10. Kept'
  <2>1. /\ \A d \in Client \ {c} : place'[d] = place[d]
        /\ \A v \in Worker : worker[v] = "deaf" => worker'[v] = "deaf"
    BY <1>1, <1>2 DEF TypeOK
  <2>2. \A d \in Client : client[d] \in {"down", "up"} => place'[d] = "none"
    BY <1>4, <2>1 DEF Kept
  <2>3. main \in Early => place'[c] = "back"
    <3>1. main \in Early => proxy = "forwarding"
      BY <1>2 DEF Fed
    <3>2. main \in Early => context = "open"
      BY <3>1 DEF Stages
    <3>3. QED
      BY <1>1, <1>2, <3>2 DEF TypeOK
  <2>4. ASSUME main \in Early, NEW d \in Client \ {c}, Waiting(d)
        PROVE  \/ place'[d] \in {"wire", "back", "answer"}
               \/ place'[d] = "inbox" /\ \E v \in Worker : Holds(v, d)' \/ worker'[v] = "deaf"
    <3>1. \/ place[d] \in {"wire", "back", "answer"}
          \/ place[d] = "inbox" /\ \E v \in Worker : Holds(v, d) \/ worker[v] = "deaf"
      BY <2>4 DEF Kept
    <3> HIDE DEF IInv
    <3>2. QED
      BY <1>3, <2>1, <3>1
  <2>5. QED
    BY <1>1, <2>2, <2>3, <2>4 DEF Kept, Waiting
<1>11. Fed'
  BY <1>1, <1>2, <1>3, <1>4 DEF Fed, Holds, TypeOK
<1>12. QED
  BY <1>5, <1>6, <1>7, <1>8, <1>9, <1>10, <1>11

LEMMA AnswerStep == ASSUME IInv, NEW w \in Worker, Answer(w) PROVE IInv'
<1> USE NobodyAssumption, RangeAssumption DEF IInv, Early, Late, Idle
<1>1. /\ worker[w] = "handling" /\ Alive
      /\ place' = [place EXCEPT ![serving[w]] = IF context = "open" THEN "back" ELSE "lost"]
      /\ serving' = [serving EXCEPT ![w] = Nobody]
      /\ worker' = [worker EXCEPT ![w] = "looping"]
      /\ UNCHANGED <<main, running, proxyReady, context, proxy, control, inbox,
                     registrations, client, clientId, todo, request, replyId,
                     sends>>
  BY DEF Answer, Reply, Goto, server, clients
<1>2. PICK c \in Client : c = serving[w] /\ Holds(w, c)
  BY <1>1 DEF TypeOK, Holds
<1>3. /\ \A v \in Worker, d \in Client : Holds(v, d)' => Holds(v, d) /\ d # c
      /\ \A v \in Worker, d \in Client : Holds(v, d) /\ d # c => Holds(v, d)'
  <2>1. /\ serving'[w] = Nobody /\ Nobody \notin Client
        /\ \A v \in Worker \ {w} : serving'[v] = serving[v]
    BY <1>1, NobodyAssumption DEF TypeOK
  <2>2. \A v \in Worker : Holds(v, c) => v = w
    BY <1>2 DEF Held
  <2>3. \A i \in DOMAIN inbox[w] : inbox[w][i] # c
    BY <1>2 DEF Held
  <2> HIDE DEF IInv
  <2>4. QED
    BY <1>1, <1>2, <2>1, <2>2, <2>3 DEF Holds
<1>4. place[c] = "inbox" /\ client[c] \notin {"down", "up"}
  BY <1>2 DEF Held, Kept
<1>5. TypeOK'
  BY <1>1, <1>2, <1>3, <1>4 DEF TypeOK
<1>6. Stages'
  BY <1>1, <1>2, <1>3, <1>4 DEF Stages
<1>7. Threads'
  BY <1>1, <1>2, <1>3, <1>4 DEF Threads, Stages, Alive
<1>8. Ids'
  BY <1>1, <1>2, <1>3, <1>4 DEF Ids, TypeOK
<1>9. Held'
  <2>1. \A v \in Worker : serving'[v] = serving[v] \/ serving'[v] = Nobody
    BY <1>1 DEF TypeOK
  <2>2. \A d \in Client \ {c} : place[d] = "inbox" => place'[d] = "inbox"
    BY <1>1, <1>2 DEF TypeOK
  <2>3. \A v \in Worker : \A i \in DOMAIN inbox[v] : inbox[v][i] # Nobody
    <3>1. \A v \in Worker : inbox[v] \in Seq(Client)
      BY DEF TypeOK
    <3> HIDE DEF IInv
    <3>2. QED
      BY <3>1, LenProperties, ElementOfSeq
  <2>4. UNCHANGED inbox
    BY <1>1
  <2> HIDE DEF IInv
  <2>5. Held
    BY DEF IInv
  <2>6. QED
    BY <1>3, <2>1, <2>2, <2>3, <2>4, <2>5 DEF Held
<1>10. Kept'
  <2>1. /\ \A d \in Client \ {c} : place'[d] = place[d]
        /\ \A v \in Worker : worker[v] = "deaf" => worker'[v] = "deaf"
    BY <1>1, <1>2 DEF TypeOK
  <2>2. \A d \in Client : client[d] \in {"down", "up"} => place'[d] = "none"
    BY <1>4, <2>1 DEF Kept
  <2>3. main \in Early => place'[c] = "back"
    <3>1. main \in Early => proxy = "forwarding"
      BY <1>2 DEF Fed
    <3>2. main \in Early => context = "open"
      BY <3>1 DEF Stages
    <3>3. QED
      BY <1>1, <1>2, <3>2 DEF TypeOK
  <2>4. ASSUME main \in Early, NEW d \in Client \ {c}, Waiting(d)
        PROVE  \/ place'[d] \in {"wire", "back", "answer"}
               \/ place'[d] = "inbox" /\ \E v \in Worker : Holds(v, d)' \/ worker'[v] = "deaf"
    <3>1. \/ place[d] \in {"wire", "back", "answer"}
          \/ place[d] = "inbox" /\ \E v \in Worker : Holds(v, d) \/ worker[v] = "deaf"
      BY <2>4 DEF Kept
    <3> HIDE DEF IInv
    <3>2. QED
      BY <1>3, <2>1, <3>1
  <2>5. QED
    BY <1>1, <2>2, <2>3, <2>4 DEF Kept, Waiting
<1>11. Fed'
  BY <1>1, <1>2, <1>3, <1>4 DEF Fed, Holds, TypeOK
<1>12. QED
  BY <1>5, <1>6, <1>7, <1>8, <1>9, <1>10, <1>11

LEMMA SkipStep == ASSUME IInv, NEW w \in Worker, Skip(w) PROVE IInv'
<1> USE NobodyAssumption, RangeAssumption DEF IInv, Early, Late, Idle
<1>1. /\ worker[w] = "handling" /\ Alive
      /\ worker' = [worker EXCEPT ![w] = "deaf"]
      /\ serving' = [serving EXCEPT ![w] = Nobody]
      /\ UNCHANGED <<main, running, proxyReady, context, proxy, control, inbox,
                     registrations, client, clientId, todo, request, place,
                     replyId, sends>>
  BY DEF Skip, server, workers, clients, mail, Goto
<1>2. TypeOK'
  BY <1>1 DEF TypeOK
<1>3. Stages'
  BY <1>1 DEF Stages
<1>4. Threads'
  BY <1>1 DEF Threads, Stages, Alive
<1>5. Ids'
  BY <1>1 DEF Ids, TypeOK
<1>6. Held'
  <2>1. \A v \in Worker : serving'[v] = serving[v] \/ serving'[v] = Nobody
    BY <1>1 DEF TypeOK
  <2>2. \A v \in Worker, d \in Client : Holds(v, d)' => Holds(v, d)
    BY <1>1, <2>1 DEF Holds
  <2>3. \A v \in Worker : \A i \in DOMAIN inbox[v] : inbox[v][i] # Nobody
    <3>1. \A v \in Worker : inbox[v] \in Seq(Client)
      BY DEF TypeOK
    <3> HIDE DEF IInv
    <3>2. QED
      BY <3>1, LenProperties, ElementOfSeq
  <2>4. UNCHANGED <<inbox, place>>
    BY <1>1
  <2> HIDE DEF IInv
  <2>5. Held
    BY DEF IInv
  <2>6. QED
    BY <2>1, <2>2, <2>3, <2>4, <2>5 DEF Held
<1>7. Kept'
  BY <1>1 DEF Kept, Holds, Waiting, TypeOK
<1>8. Fed'
  BY <1>1 DEF Fed, Holds, TypeOK
<1>9. QED
  BY <1>2, <1>3, <1>4, <1>5, <1>6, <1>7, <1>8

LEMMA SpinStep == ASSUME IInv, NEW w \in Worker, Spin(w) PROVE IInv'
<1> USE NobodyAssumption, RangeAssumption DEF IInv, Early, Late, Idle
<1>1. /\ worker[w] = "deaf" /\ ~running
      /\ worker' = [worker EXCEPT ![w] = "ended"]
      /\ UNCHANGED <<main, running, proxyReady, context, proxy, control, inbox,
                     serving, registrations, client, clientId, todo, request,
                     place, replyId, sends>>
  BY DEF Spin, server, workers, clients, mail, Goto
<1>2. TypeOK'
  BY <1>1 DEF TypeOK
<1>3. Stages'
  BY <1>1 DEF Stages
<1>4. Threads'
  BY <1>1 DEF Threads, Stages, Alive
<1>5. Ids'
  BY <1>1 DEF Ids, TypeOK
<1>6. Held'
  <2>1. \A v \in Worker, d \in Client : Holds(v, d)' <=> Holds(v, d)
    BY <1>1 DEF Holds
  <2>2. \A d \in Client : place[d] = "inbox" => place'[d] = "inbox"
    BY <1>1 DEF Kept, TypeOK
  <2>3. UNCHANGED <<inbox, serving>>
    BY <1>1
  <2> HIDE DEF IInv
  <2>4. Held
    BY DEF IInv
  <2>5. QED
    BY <2>1, <2>2, <2>3, <2>4 DEF Held
<1>7. Kept'
  <2>1. main \notin Early
    BY <1>1 DEF Fed, Stages
  <2>2. QED
    BY <1>1, <2>1 DEF Kept
<1>8. Fed'
  BY <1>1 DEF Fed, Holds, TypeOK
<1>9. QED
  BY <1>2, <1>3, <1>4, <1>5, <1>6, <1>7, <1>8

LEMMA ConnectStep == ASSUME IInv, NEW c \in Client, Connect(c) PROVE IInv'
<1> USE NobodyAssumption, RangeAssumption DEF IInv, Early, Late, Idle
<1>1. /\ client[c] = "down" /\ client' = [client EXCEPT ![c] = "registering"]
      /\ request' = [request EXCEPT ![c] = "register"]
      /\ place' = [place EXCEPT ![c] = "wire"] /\ sends' = sends + 1
      /\ UNCHANGED <<main, running, proxyReady, context, proxy, control,
                     worker, inbox, serving, registrations, clientId, todo,
                     replyId>>
  BY DEF Connect, server, workers, clients, mail, Send
<1>2. TypeOK'
  BY <1>1 DEF TypeOK
<1>3. Stages'
  BY <1>1 DEF Stages
<1>4. Threads'
  BY <1>1 DEF Threads, Stages
<1>5. Ids'
  BY <1>1 DEF Ids, TypeOK
<1>6. Held'
  <2>1. \A v \in Worker, d \in Client : Holds(v, d)' <=> Holds(v, d)
    BY <1>1 DEF Holds
  <2>2. \A d \in Client : place[d] = "inbox" => place'[d] = "inbox"
    BY <1>1 DEF Kept, TypeOK
  <2>3. UNCHANGED <<inbox, serving>>
    BY <1>1
  <2> HIDE DEF IInv
  <2>4. Held
    BY DEF IInv
  <2>5. QED
    BY <2>1, <2>2, <2>3, <2>4 DEF Held
<1>7. Kept'
  BY <1>1 DEF Kept, Holds, Waiting, TypeOK
<1>8. Fed'
  BY <1>1 DEF Fed, Holds, TypeOK
<1>9. QED
  BY <1>2, <1>3, <1>4, <1>5, <1>6, <1>7, <1>8

LEMMA AskStep == ASSUME IInv, NEW c \in Client, Ask(c) PROVE IInv'
<1> USE NobodyAssumption, RangeAssumption DEF IInv, Early, Late, Idle
<1>1. PICK type \in Asked : request' = [request EXCEPT ![c] = type]
  BY DEF Ask, Send
<1>2. /\ client[c] = "up" /\ client' = [client EXCEPT ![c] = "asking"]
      /\ place' = [place EXCEPT ![c] = "wire"] /\ sends' = sends + 1
      /\ UNCHANGED <<main, running, proxyReady, context, proxy, control,
                     worker, inbox, serving, registrations, clientId, todo,
                     replyId>>
  BY DEF Ask, Send, server, workers
<1>3. TypeOK'
  BY <1>1, <1>2 DEF TypeOK
<1>4. Stages'
  BY <1>1, <1>2 DEF Stages
<1>5. Threads'
  BY <1>1, <1>2 DEF Threads, Stages
<1>6. Ids'
  BY <1>1, <1>2 DEF Ids, TypeOK
<1>7. Held'
  <2>1. \A v \in Worker, d \in Client : Holds(v, d)' <=> Holds(v, d)
    BY <1>2 DEF Holds
  <2>2. \A d \in Client : place[d] = "inbox" => place'[d] = "inbox"
    BY <1>2 DEF Kept, TypeOK
  <2>3. UNCHANGED <<inbox, serving>>
    BY <1>2
  <2> HIDE DEF IInv
  <2>4. Held
    BY DEF IInv
  <2>5. QED
    BY <2>1, <2>2, <2>3, <2>4 DEF Held
<1>8. Kept'
  BY <1>1, <1>2 DEF Kept, Holds, Waiting, TypeOK
<1>9. Fed'
  BY <1>1, <1>2 DEF Fed, Holds, TypeOK
<1>10. QED
  BY <1>3, <1>4, <1>5, <1>6, <1>7, <1>8, <1>9

LEMMA RegisteredStep == ASSUME IInv, NEW c \in Client, Registered(c) PROVE IInv'
<1> USE NobodyAssumption, RangeAssumption DEF IInv, Early, Late, Idle
<1>1. /\ client[c] = "registering" /\ place[c] = "answer"
      /\ client' = [client EXCEPT ![c] = IF replyId[c] = 0 THEN "down" ELSE "up"]
      /\ clientId' = [clientId EXCEPT ![c] = replyId[c]] /\ replyId' = [replyId EXCEPT ![c] = 0]
      /\ place' = [place EXCEPT ![c] = "none"] /\ request' = [request EXCEPT ![c] = "none"]
      /\ UNCHANGED <<main, running, proxyReady, context, proxy, control,
                     worker, inbox, serving, registrations, todo, sends>>
  BY DEF Registered, server, workers, clients, mail
<1>2. TypeOK'
  BY <1>1 DEF TypeOK
<1>3. Stages'
  BY <1>1 DEF Stages
<1>4. Threads'
  BY <1>1 DEF Threads, Stages
<1>5. Ids'
  BY <1>1 DEF Ids, TypeOK
<1>6. Held'
  <2>1. \A v \in Worker, d \in Client : Holds(v, d)' <=> Holds(v, d)
    BY <1>1 DEF Holds
  <2>2. \A d \in Client : place[d] = "inbox" => place'[d] = "inbox"
    BY <1>1 DEF Kept, TypeOK
  <2>3. UNCHANGED <<inbox, serving>>
    BY <1>1
  <2> HIDE DEF IInv
  <2>4. Held
    BY DEF IInv
  <2>5. QED
    BY <2>1, <2>2, <2>3, <2>4 DEF Held
<1>7. Kept'
  BY <1>1 DEF Kept, Holds, Waiting, TypeOK
<1>8. Fed'
  BY <1>1 DEF Fed, Holds, TypeOK
<1>9. QED
  BY <1>2, <1>3, <1>4, <1>5, <1>6, <1>7, <1>8

LEMMA AnsweredStep == ASSUME IInv, NEW c \in Client, Answered(c) PROVE IInv'
<1> USE NobodyAssumption, RangeAssumption DEF IInv, Early, Late, Idle
<1>1. /\ client[c] = "asking" /\ place[c] = "answer" /\ client' = [client EXCEPT ![c] = "up"]
      /\ place' = [place EXCEPT ![c] = "none"] /\ request' = [request EXCEPT ![c] = "none"]
      /\ todo' = [todo EXCEPT ![c] = 0]
      /\ UNCHANGED <<main, running, proxyReady, context, proxy, control,
                     worker, inbox, serving, registrations, clientId, replyId,
                     sends>>
  BY DEF Answered, server, workers, clients, mail, HasAnswer, BackToShell
<1>2. TypeOK'
  BY <1>1 DEF TypeOK
<1>3. Stages'
  BY <1>1 DEF Stages
<1>4. Threads'
  BY <1>1 DEF Threads, Stages
<1>5. Ids'
  BY <1>1 DEF Ids, TypeOK
<1>6. Held'
  <2>1. \A v \in Worker, d \in Client : Holds(v, d)' <=> Holds(v, d)
    BY <1>1 DEF Holds
  <2>2. \A d \in Client : place[d] = "inbox" => place'[d] = "inbox"
    BY <1>1 DEF Kept, TypeOK
  <2>3. UNCHANGED <<inbox, serving>>
    BY <1>1
  <2> HIDE DEF IInv
  <2>4. Held
    BY DEF IInv
  <2>5. QED
    BY <2>1, <2>2, <2>3, <2>4 DEF Held
<1>7. Kept'
  BY <1>1 DEF Kept, Holds, Waiting, TypeOK
<1>8. Fed'
  BY <1>1 DEF Fed, Holds, TypeOK
<1>9. QED
  BY <1>2, <1>3, <1>4, <1>5, <1>6, <1>7, <1>8

LEMMA IndexStep == ASSUME IInv, NEW c \in Client, Index(c) PROVE IInv'
<1> USE NobodyAssumption, RangeAssumption DEF IInv, Early, Late, Idle
<1>1. PICK n \in 0 .. MaxFiles - 1 : SendFile(c, n)
  BY DEF Index
<1>2. n \in Nat
  BY FilesAssumption
<1>3. /\ client[c] = "up" /\ client' = [client EXCEPT ![c] = "asking"]
      /\ place' = [place EXCEPT ![c] = "wire"] /\ sends' = sends + 1
      /\ request' = [request EXCEPT ![c] = "index"] /\ todo' = [todo EXCEPT ![c] = n]
      /\ UNCHANGED <<main, running, proxyReady, context, proxy, control,
                     worker, inbox, serving, registrations, clientId, replyId>>
  BY <1>1 DEF Index, SendFile, Send, server, workers
<1>4. TypeOK'
  BY <1>1, <1>2, <1>3 DEF TypeOK
<1>5. Stages'
  BY <1>1, <1>2, <1>3 DEF Stages
<1>6. Threads'
  BY <1>1, <1>2, <1>3 DEF Threads, Stages
<1>7. Ids'
  BY <1>1, <1>2, <1>3 DEF Ids, TypeOK
<1>8. Held'
  <2>1. \A v \in Worker, d \in Client : Holds(v, d)' <=> Holds(v, d)
    BY <1>2, <1>3 DEF Holds
  <2>2. \A d \in Client : place[d] = "inbox" => place'[d] = "inbox"
    BY <1>2, <1>3 DEF Kept, TypeOK
  <2>3. UNCHANGED <<inbox, serving>>
    BY <1>2, <1>3
  <2> HIDE DEF IInv
  <2>4. Held
    BY DEF IInv
  <2>5. QED
    BY <2>1, <2>2, <2>3, <2>4 DEF Held
<1>9. Kept'
  BY <1>1, <1>2, <1>3 DEF Kept, Holds, Waiting, TypeOK
<1>10. Fed'
  BY <1>1, <1>2, <1>3 DEF Fed, Holds, TypeOK
<1>11. QED
  BY <1>4, <1>5, <1>6, <1>7, <1>8, <1>9, <1>10

LEMMA SearchStep == ASSUME IInv, NEW c \in Client, Search(c) PROVE IInv'
<1> USE NobodyAssumption, RangeAssumption DEF IInv, Early, Late, Idle
<1>1. /\ client[c] = "up" /\ client' = [client EXCEPT ![c] = "asking"]
      /\ request' = [request EXCEPT ![c] = "search"]
      /\ place' = [place EXCEPT ![c] = "wire"] /\ sends' = sends + 1
      /\ UNCHANGED <<main, running, proxyReady, context, proxy, control,
                     worker, inbox, serving, registrations, clientId, todo,
                     replyId>>
  BY DEF Search, server, workers, clients, mail, Send
<1>2. TypeOK'
  BY <1>1 DEF TypeOK
<1>3. Stages'
  BY <1>1 DEF Stages
<1>4. Threads'
  BY <1>1 DEF Threads, Stages
<1>5. Ids'
  BY <1>1 DEF Ids, TypeOK
<1>6. Held'
  <2>1. \A v \in Worker, d \in Client : Holds(v, d)' <=> Holds(v, d)
    BY <1>1 DEF Holds
  <2>2. \A d \in Client : place[d] = "inbox" => place'[d] = "inbox"
    BY <1>1 DEF Kept, TypeOK
  <2>3. UNCHANGED <<inbox, serving>>
    BY <1>1
  <2> HIDE DEF IInv
  <2>4. Held
    BY DEF IInv
  <2>5. QED
    BY <2>1, <2>2, <2>3, <2>4 DEF Held
<1>7. Kept'
  BY <1>1 DEF Kept, Holds, Waiting, TypeOK
<1>8. Fed'
  BY <1>1 DEF Fed, Holds, TypeOK
<1>9. QED
  BY <1>2, <1>3, <1>4, <1>5, <1>6, <1>7, <1>8

LEMMA IndexedStep == ASSUME IInv, NEW c \in Client, Indexed(c) PROVE IInv'
<1> USE NobodyAssumption, RangeAssumption DEF IInv, Early, Late, Idle
<1> DEFINE Turned(state, n, type, more) ==
             /\ client' = [client EXCEPT ![c] = state]
             /\ place' = [place EXCEPT ![c] = IF state = "up" THEN "none" ELSE "wire"]
             /\ request' = [request EXCEPT ![c] = type]
             /\ todo' = [todo EXCEPT ![c] = n] /\ sends' = sends + more
             /\ UNCHANGED <<main, running, proxyReady, context, proxy,
                             control, worker, inbox, serving, registrations,
                             clientId, replyId>>
<1>1. \E state \in {"up", "asking"}, n \in Nat, type \in {"none", "index"}, more \in {0, 1} :
        Turned(state, n, type, more)
  <2>1. CASE BackToShell(c)
    <3>1. Turned("up", 0, "none", 0)
      <4>1. sends' = sends + 0
        BY <2>1 DEF BackToShell, TypeOK
      <4>2. QED
        BY <2>1, <4>1 DEF BackToShell, server, workers
    <3>2. QED
      BY <3>1
  <2>2. CASE \E n \in 0 .. todo[c] - 1 : SendFile(c, n)
    <3>1. PICK n \in 0 .. todo[c] - 1 : SendFile(c, n)
      BY <2>2
    <3>2. n \in Nat
      BY DEF TypeOK
    <3>3. Turned("asking", n, "index", 1)
      BY <3>1 DEF SendFile, Send, server, workers
    <3>4. QED
      BY <3>2, <3>3
  <2>3. QED
    BY <2>1, <2>2 DEF Indexed
<1>2. PICK state \in {"up", "asking"}, n \in Nat, type \in {"none", "index"}, more \in {0, 1} :
        Turned(state, n, type, more)
  BY <1>1
<1>3. client[c] = "asking" /\ place[c] = "answer"
  BY DEF Indexed, HasAnswer
<1>4. TypeOK'
  BY <1>1, <1>2, <1>3 DEF TypeOK
<1>5. Stages'
  BY <1>1, <1>2, <1>3 DEF Stages
<1>6. Threads'
  BY <1>1, <1>2, <1>3 DEF Threads, Stages
<1>7. Ids'
  BY <1>1, <1>2, <1>3 DEF Ids, TypeOK
<1>8. Held'
  <2>1. \A v \in Worker, d \in Client : Holds(v, d)' <=> Holds(v, d)
    BY <1>2, <1>3 DEF Holds
  <2>2. \A d \in Client : place[d] = "inbox" => place'[d] = "inbox"
    BY <1>2, <1>3 DEF Kept, TypeOK
  <2>3. UNCHANGED <<inbox, serving>>
    BY <1>2, <1>3
  <2> HIDE DEF IInv
  <2>4. Held
    BY DEF IInv
  <2>5. QED
    BY <2>1, <2>2, <2>3, <2>4 DEF Held
<1>9. Kept'
  BY <1>1, <1>2, <1>3 DEF Kept, Holds, Waiting, TypeOK
<1>10. Fed'
  BY <1>1, <1>2, <1>3 DEF Fed, Holds, TypeOK
<1>11. QED
  BY <1>4, <1>5, <1>6, <1>7, <1>8, <1>9, <1>10

LEMMA DisconnectStep == ASSUME IInv, NEW c \in Client, Disconnect(c) PROVE IInv'
<1> USE NobodyAssumption, RangeAssumption DEF IInv, Early, Late, Idle
<1>1. /\ client[c] = "up" /\ client' = [client EXCEPT ![c] = "down"]
      /\ clientId' = [clientId EXCEPT ![c] = 0]
      /\ UNCHANGED <<main, running, proxyReady, context, proxy, control,
                     worker, inbox, serving, registrations, todo, request,
                     place, replyId, sends>>
  BY DEF Disconnect, server, workers, clients, mail
<1>2. TypeOK'
  BY <1>1 DEF TypeOK
<1>3. Stages'
  BY <1>1 DEF Stages
<1>4. Threads'
  BY <1>1 DEF Threads, Stages
<1>5. Ids'
  BY <1>1 DEF Ids, TypeOK
<1>6. Held'
  <2>1. \A v \in Worker, d \in Client : Holds(v, d)' <=> Holds(v, d)
    BY <1>1 DEF Holds
  <2>2. \A d \in Client : place[d] = "inbox" => place'[d] = "inbox"
    BY <1>1 DEF Kept, TypeOK
  <2>3. UNCHANGED <<inbox, serving>>
    BY <1>1
  <2> HIDE DEF IInv
  <2>4. Held
    BY DEF IInv
  <2>5. QED
    BY <2>1, <2>2, <2>3, <2>4 DEF Held
<1>7. Kept'
  BY <1>1 DEF Kept, Holds, Waiting, TypeOK
<1>8. Fed'
  BY <1>1 DEF Fed, Holds, TypeOK
<1>9. QED
  BY <1>2, <1>3, <1>4, <1>5, <1>6, <1>7, <1>8

LEMMA KillStep == ASSUME IInv, NEW c \in Client, Kill(c) PROVE IInv'
<1> USE NobodyAssumption, RangeAssumption DEF IInv, Early, Late, Idle
<1>1. /\ client[c] \in {"registering", "asking"} /\ client' = [client EXCEPT ![c] = "gone"]
      /\ clientId' = [clientId EXCEPT ![c] = 0] /\ todo' = [todo EXCEPT ![c] = 0]
      /\ place' = [place EXCEPT ![c] = IF @ \in {"wire", "answer"} THEN "none" ELSE @]
      /\ UNCHANGED <<main, running, proxyReady, context, proxy, control,
                     worker, inbox, serving, registrations, request, replyId,
                     sends>>
  BY DEF Kill, server, workers, clients, mail, Waiting
<1>2. TypeOK'
  BY <1>1 DEF TypeOK
<1>3. Stages'
  BY <1>1 DEF Stages
<1>4. Threads'
  BY <1>1 DEF Threads, Stages
<1>5. Ids'
  BY <1>1 DEF Ids, TypeOK
<1>6. Held'
  <2>1. \A v \in Worker, d \in Client : Holds(v, d)' <=> Holds(v, d)
    BY <1>1 DEF Holds
  <2>2. \A d \in Client : place[d] = "inbox" => place'[d] = "inbox"
    BY <1>1 DEF Kept, TypeOK
  <2>3. UNCHANGED <<inbox, serving>>
    BY <1>1
  <2> HIDE DEF IInv
  <2>4. Held
    BY DEF IInv
  <2>5. QED
    BY <2>1, <2>2, <2>3, <2>4 DEF Held
<1>7. Kept'
  BY <1>1 DEF Kept, Holds, Waiting, TypeOK
<1>8. Fed'
  BY <1>1 DEF Fed, Holds, TypeOK
<1>9. QED
  BY <1>2, <1>3, <1>4, <1>5, <1>6, <1>7, <1>8

LEMMA InitIInv == Init => IInv
<1> SUFFICES ASSUME Init PROVE IInv
  OBVIOUS
<1> USE NobodyAssumption, RangeAssumption DEF Early, Late, Idle
<1>1. TypeOK
  <2>1. inbox \in [Worker -> Seq(Client)]
    BY EmptySeq DEF Init
  <2>2. 0 \in 0 .. IdRange - 1 /\ registrations \in Nat /\ sends \in Nat
    BY DEF Init
  <2>3. /\ worker \in [Worker -> {"none"}] /\ serving \in [Worker -> {Nobody}]
        /\ client \in [Client -> {"down"}] /\ request \in [Client -> {"none"}]
        /\ place \in [Client -> {"none"}] /\ todo \in [Client -> {0}]
    BY DEF Init
  <2>4. clientId \in [Client -> 0 .. IdRange - 1] /\ replyId \in [Client -> 0 .. IdRange - 1]
    BY <2>2 DEF Init
  <2>5. \A w \in Worker : (worker[w] = "handling") = (serving[w] # Nobody)
    BY DEF Init
  <2>6. /\ main = "start" /\ running \in BOOLEAN /\ proxyReady \in BOOLEAN
        /\ control \in BOOLEAN /\ context = "null" /\ proxy = "none"
    BY DEF Init
  <2>7. QED
    BY <2>1, <2>2, <2>3, <2>4, <2>5, <2>6 DEF TypeOK
<1>2. \A w \in Worker : serving[w] = Nobody /\ inbox[w] = <<>> /\ DOMAIN inbox[w] = {}
  BY EmptySeq DEF Init
<1>3. \A w \in Worker, c \in Client : ~Holds(w, c)
  BY <1>2 DEF Holds
<1>4. Stages /\ Threads
  BY DEF Init, Stages, Threads
<1>5. Ids /\ Kept
  BY DEF Init, Ids, Kept, Waiting
<1>6. Held /\ Fed
  BY <1>2, <1>3 DEF Init, Held, Fed
<1>7. QED
  BY <1>1, <1>4, <1>5, <1>6 DEF IInv

LEMMA StutterStep == ASSUME IInv, UNCHANGED vars PROVE IInv'
<1> USE DEF IInv
<1>1. UNCHANGED <<main, running, proxyReady, context, proxy, control, worker, inbox, serving,
                  registrations, client, clientId, todo, request, place, replyId, sends>>
  BY DEF vars, server, workers, clients, mail
<1>2. TypeOK' /\ Stages' /\ Threads' /\ Ids'
  BY <1>1 DEF TypeOK, Stages, Threads, Ids
<1>3. Held' /\ Kept' /\ Fed'
  BY <1>1 DEF Held, Kept, Fed, Holds, Waiting
<1>4. QED
  BY <1>2, <1>3

LEMMA NextIInv == IInv /\ [Next]_vars => IInv'
<1> SUFFICES ASSUME IInv, [Next]_vars PROVE IInv'
  OBVIOUS
<1>1. CASE Initialize \/ Quit \/ MainStep
  BY <1>1, InitializeStep, QuitStep, StartWorkersStep, SendTerminateStep, ShutContextStep,
     JoinStep, ReturnStep DEF MainStep
<1>2. CASE ProxyStep
  BY <1>2, BindStep, GiveUpStep, EndProxyStep, CloseProxyStep, ForwardStep, BackwardStep
  DEF ProxyStep, ProxyTurn
<1>3. ASSUME NEW w \in Worker, WorkerStep(w) PROVE IInv'
  BY <1>3, StartWorkerStep, LoopStep, ReceiveStep, InterruptedStep, RegisterStep,
     AnswerStep, SkipStep, SpinStep DEF WorkerStep
<1>4. ASSUME NEW c \in Client, \/ ClientStep(c) \/ Connect(c) \/ Index(c) \/ Search(c)
                                \/ Ask(c) \/ Disconnect(c) \/ Kill(c)
      PROVE  IInv'
  BY <1>4, RegisteredStep, IndexedStep, AnsweredStep, ConnectStep, IndexStep, SearchStep,
     AskStep, DisconnectStep, KillStep DEF ClientStep
<1>5. CASE UNCHANGED vars
  BY <1>5, StutterStep
<1>6. QED
  BY <1>1, <1>2, <1>3, <1>4, <1>5 DEF Next

\* The inductive invariant: what each stage of main leaves the proxy, the workers and
\* the context in, who uses which id, and where each request is.
THEOREM Invariance == Spec => []IInv
<1>1. QED
  BY InitIInv, NextIInv, PTL DEF Spec

\* Every variable has its type; a worker that handles a request has a client to serve.
THEOREM TypeCorrect == Spec => []TypeOK
<1>1. IInv => TypeOK
  BY DEF IInv
<1>2. QED
  BY <1>1, Invariance, PTL

\* However many workers there are, the process ends normally only with all of them,
\* and the proxy, joined, and aborts only where shutdown returned early after a bind
\* that failed (ServerProcessingEngine.cpp:48, :67-80).
THEOREM Exit == Spec => []CleanExit
<1>1. IInv => CleanExit
  BY DEF IInv, Stages, Threads, CleanExit, Idle, Late
<1>2. QED
  BY <1>1, Invariance, PTL

\* For every width of the counter: an id is nobody else's until the counter has gone
\* round, and the id 0 is nobody's (ServerProcessingEngine.cpp:156, Protocol.cpp:139).
THEOREM Registration == Spec => []IdsUnique
<1>1. ASSUME IInv PROVE IdsUnique
  <2>1. registrations < IdRange \/ registrations >= IdRange
    BY <1>1, RangeAssumption DEF IInv, TypeOK
  <2>2. QED
    BY <1>1, <2>1 DEF IInv, Ids, IdsUnique
<1>2. QED
  BY <1>1, Invariance, PTL

\* The proxy and the workers neither lose nor double a request while the server runs:
\* only a worker that met an unreadable message does (ServerProcessingEngine.cpp:151).
THEOREM Delivery == Spec => []RequestKept
<1>1. ASSUME IInv PROVE RequestKept
  <2> USE DEF Early
  <2>1. SUFFICES ASSUME NEW c \in Client
                 PROVE  LET holders == {w \in Worker : serving[w] = c} \union
                              {w \in Worker : \E i \in DOMAIN inbox[w] : inbox[w][i] = c}
                        IN  /\ Cardinality(holders) <= 1
                            /\ place[c] # "inbox" => holders = {}
                            /\ Waiting(c) /\ main \in {"start", "waiting", "commands"} =>
                                 \/ place[c] \in {"wire", "back", "answer"}
                                 \/ place[c] = "inbox" /\ holders # {}
                                 \/ place[c] = "inbox" /\ \E w \in Worker : worker[w] = "deaf"
    BY DEF RequestKept
  <2> DEFINE holders == {w \in Worker : serving[w] = c} \union
                        {w \in Worker : \E i \in DOMAIN inbox[w] : inbox[w][i] = c}
  <2>2. \A w \in Worker : w \in holders <=> Holds(w, c)
    BY DEF Holds
  <2>3. \A w, v \in holders : w = v
    BY <1>1, <2>2 DEF IInv, Held
  <2>4. place[c] # "inbox" => holders = {}
    BY <1>1, <2>2 DEF IInv, Held
  <2>5. Waiting(c) /\ main \in Early =>
          \/ place[c] \in {"wire", "back", "answer"}
          \/ place[c] = "inbox" /\ holders # {}
          \/ place[c] = "inbox" /\ \E w \in Worker : worker[w] = "deaf"
    BY <1>1, <2>2 DEF IInv, Kept
  <2> HIDE DEF holders
  <2>6. Cardinality(holders) <= 1
    <3>1. CASE holders = {}
      BY <3>1, FS_EmptySet
    <3>2. CASE holders # {}
      <4>1. PICK w \in holders : holders = {w}
        BY <2>3, <3>2
      <4>2. QED
        BY <4>1, FS_Singleton
    <3>3. QED
      BY <3>1, <3>2
  <2>7. QED
    BY <2>4, <2>5, <2>6 DEF holders
<1>2. QED
  BY <1>1, Invariance, PTL
=============================================================================
