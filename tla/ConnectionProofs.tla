-------------------------- MODULE ConnectionProofs --------------------------
(***************************************************************************)
(* Proofs about the client's connection to the server (ClientConnection:   *)
(* WebSocketManager.kt, ConnectionScheduler.kt), for any number of         *)
(* networks, sockets, drops, retries and messages on the looper.  Handlers *)
(* run when the looper takes their message from the queue; At and Waiting  *)
(* are all that the proofs say about it.                                   *)
(***************************************************************************)
EXTENDS ClientConnection, TLAPS

\* What the empty queue is, and what adding to a queue and taking its first
\* element do: the queue here is the looper's.
LEMMA NoQueue ==
    ASSUME NEW S
    PROVE  <<>> \in Seq(S) /\ Len(<<>>) = 0
OBVIOUS

\* An element posted to the looper is the last one, behind what is there.
LEMMA Enqueue ==
    ASSUME NEW S, NEW q \in Seq(S), NEW e \in S
    PROVE  /\ Append(q, e) \in Seq(S) /\ Len(Append(q, e)) = Len(q) + 1
           /\ \A i \in 1 .. Len(q) : Append(q, e)[i] = q[i]
           /\ Append(q, e)[Len(q) + 1] = e
OBVIOUS

\* Taking the first element moves every other one place up.
LEMMA Dequeue ==
    ASSUME NEW S, NEW q \in Seq(S), q # <<>>
    PROVE  /\ Head(q) \in S /\ Tail(q) \in Seq(S)
           /\ Len(Tail(q)) = Len(q) - 1
           /\ \A i \in 1 .. Len(Tail(q)) : Tail(q)[i] = q[i + 1]
OBVIOUS

-----------------------------------------------------------------------------
Identities == {"resolving", "ready", "unavailable"}

Posts ==
    [type : {"available", "lost"}, about : Networks] \cup
    [type : {"discovered"}, about : Nat] \cup
    [type : {"open", "gone"}, about : SocketIds] \cup
    [type : {"identity"}, about : Identities]

ConnectionTypes ==
    /\ running \in BOOLEAN
    /\ queue \in Seq(Posts)
    /\ scheduler \in {"idle", "window", "connected", "silent"}
    /\ retry \in BOOLEAN /\ expiry \in {"off", "armed", "due"}
    /\ target \in {"manual", "auto"}
    /\ generation \in Nat /\ searching \subseteq Nat
    /\ webSocket \in Nat /\ made \in Nat /\ cancelled \subseteq Nat
    /\ conn \in [SocketIds -> {"none", "connecting", "open", "dead"}]
    /\ registration \in [socket : Nat, sent : BOOLEAN]
    /\ activeNetwork \in Nat /\ network \in Nat /\ networks \in Nat
    /\ owed \subseteq Nat
    /\ identity \in Identities

\* Position i of the looper's queue holds this message.
At(i, type, about) ==
    i \in 1 .. Len(queue) /\ queue[i].type = type /\ queue[i].about = about

Waiting(type, about) == \E i \in Nat : At(i, type, about)

\* What is known of sockets: numbers are given out in order, what was posted
\* of a socket is still true, and only the current socket is registered.
SocketsSound ==
    /\ webSocket <= made
    /\ \A s \in SocketIds : s > made => conn[s] = "none"
    /\ \A s \in cancelled : s <= made /\ s # webSocket /\ s # Nothing
    /\ \A s \in SocketIds : /\ Waiting("open", s) => conn[s] \in {"open", "dead"}
                            /\ Waiting("gone", s) => conn[s] = "dead"
    /\ registration.socket # Nothing =>
           /\ registration.socket = webSocket
           /\ webSocket \in SocketIds /\ conn[webSocket] \in {"open", "dead"}

\* The result of the current discovery is still to come.
Sought == generation \in searching \/ Waiting("discovered", generation)

\* Two answers in the queue are of two discoveries.
AnswersOnce ==
    \A i, j, g \in Nat :
        At(i, "discovered", g) /\ At(j, "discovered", g) => i = j

\* Every discovery has a generation of its own and answers once; a generation
\* that is sought has no socket yet.
DiscoverySound ==
    /\ \A g \in searching : g <= generation
    /\ \A g \in Nat : Waiting("discovered", g) =>
           g <= generation /\ g \notin searching
    /\ AnswersOnce
    /\ Sought => scheduler = "window" /\ ~retry /\ webSocket = Nothing

\* Which of the timers, sockets and discoveries there are in which state.
AttemptSound ==
    /\ \A s \in SocketIds \ cancelled :
           conn[s] \in {"connecting", "open"} => webSocket = s
    /\ webSocket # Nothing =>
           running /\ scheduler \in {"window", "connected"} /\ ~retry
    /\ retry => running /\ scheduler = "window"
    /\ expiry # "off" => running /\ scheduler = "window"
    /\ running /\ scheduler = "window" =>
           expiry # "off" /\ (retry \/ webSocket # Nothing \/ Sought)

\* The reports of the newest network come in order: its arrival after every
\* other arrival, its loss after its arrival and once.
ReportsOrdered ==
    /\ \A n \in owed : n < networks
    /\ \A n \in Nat :
           Waiting("available", n) \/ Waiting("lost", n) => n <= networks
    /\ \A i, j, n \in Nat :
           At(i, "available", n) /\ At(j, "available", networks) => i <= j
    /\ \A i, j \in Nat :
           At(i, "available", networks) /\ At(j, "lost", networks) => i < j
    /\ \A i, j \in Nat :
           At(i, "lost", networks) /\ At(j, "lost", networks) => i = j
    /\ \A n \in Nat :
           Waiting("available", n) => Waiting("available", networks)

\* What the manager believes once these reports are handled is so.
NetworkSound ==
    /\ network \in {Nothing, networks}
    /\ Waiting("lost", networks) => network = Nothing
    /\ networks = 0 => activeNetwork = Nothing
    /\ networks # 0 =>
           /\ Waiting("available", networks) /\ ~Waiting("lost", networks) =>
                  network = networks
           /\ ~Waiting("available", networks) /\ Waiting("lost", networks) =>
                  activeNetwork = networks
           /\ ~Waiting("available", networks) /\ ~Waiting("lost", networks) =>
                  activeNetwork = network

\* IdentityIsSent, with the queue's positions.
IdentityKept ==
    /\ registration.socket # Nothing /\ identity = "ready"
    /\ conn[registration.socket] = "open"
    => registration.sent \/ Waiting("identity", "ready")

ConnectionInv ==
    /\ ConnectionTypes /\ SocketsSound /\ DiscoverySound /\ AttemptSound
    /\ running => ReportsOrdered /\ NetworkSound
    /\ scheduler = "idle" <=> activeNetwork = Nothing
    /\ IdentityKept

\* What posting does to the queue: one message more, at the end.
LEMMA PostAt ==
    ASSUME ConnectionTypes, NEW type, NEW about, Posted(type, about) \in Posts,
           Post(type, about)
    PROVE  /\ queue' \in Seq(Posts) /\ Len(queue) \in Nat
           /\ \A i, t, a : At(i, t, a)' <=>
                  At(i, t, a) \/ (i = Len(queue) + 1 /\ t = type /\ a = about)
           /\ \A i, t, a : At(i, t, a) => i \in Nat /\ i <= Len(queue)
<1> DEFINE m == Posted(type, about)
<1>1. queue \in Seq(Posts) /\ m \in Posts /\ queue' = Append(queue, m)
  BY Zenon DEF ConnectionTypes, Post
<1>2. m.type = type /\ m.about = about
  BY Zenon DEF Posted
<1> HIDE DEF m
<1>3. queue' \in Seq(Posts) /\ Len(queue) \in Nat /\ Len(queue') = Len(queue) + 1
      /\ (\A i \in 1 .. Len(queue) : queue'[i] = queue[i])
      /\ queue'[Len(queue) + 1] = m
  BY <1>1, Enqueue
<1> QED
  BY <1>2, <1>3 DEF At

\* What taking does: the first message is gone, the others move up.
LEMMA TakeAt ==
    ASSUME ConnectionTypes, NEW type, Take(type)
    PROVE  /\ queue' \in Seq(Posts)
           /\ Head(queue) \in Posts /\ Head(queue).type = type
           /\ At(1, type, About)
           /\ \A i, t, a : At(i, t, a)' <=> i \in Nat /\ i # 0 /\ At(i + 1, t, a)
           /\ \A t, a : At(1, t, a) => t = type /\ a = About
           /\ \A i, t, a : At(i, t, a) => i \in Nat /\ i >= 1
<1>1. queue \in Seq(Posts) /\ queue # <<>> /\ queue' = Tail(queue)
      /\ Head(queue).type = type
  BY Zenon DEF ConnectionTypes, Take
<1>2. /\ queue' \in Seq(Posts) /\ Len(queue) \in Nat /\ Len(queue) # 0
      /\ Head(queue) = queue[1] /\ Head(queue) \in Posts
  BY <1>1, NoQueue, Dequeue
<1>3. /\ Len(queue') = Len(queue) - 1
      /\ \A i \in 1 .. Len(queue') : queue'[i] = queue[i + 1]
  BY Zenon, <1>1, Dequeue
<1> QED
  BY <1>1, <1>2, <1>3 DEF At, About

\* What follows for the messages that wait.
LEMMA TakeWaiting ==
    ASSUME ConnectionTypes, NEW type, Take(type)
    PROVE  /\ Waiting(type, About)
           /\ \A t, a : Waiting(t, a)' => Waiting(t, a)
           /\ \A t, a : Waiting(t, a) =>
                  Waiting(t, a)' \/ (t = type /\ a = About)
<1>1. Waiting(type, About)
  BY Zenon, TakeAt DEF Waiting
<1>2. ASSUME NEW t, NEW a, Waiting(t, a)' PROVE Waiting(t, a)
  <2>1. PICK i \in Nat : At(i, t, a)'
    BY Zenon, <1>2 DEF Waiting
  <2> QED
    BY Zenon, <2>1, TakeAt DEF Waiting
<1>3. ASSUME NEW t, NEW a, Waiting(t, a)
      PROVE  Waiting(t, a)' \/ (t = type /\ a = About)
  <2>1. PICK i \in Nat : At(i, t, a)
    BY Zenon, <1>3 DEF Waiting
  <2>2. CASE i = 1
    BY Zenon, <2>1, <2>2, TakeAt
  <2>3. CASE i # 1
    <3>1. i - 1 \in Nat /\ i - 1 # 0 /\ (i - 1) + 1 = i
      BY <2>1, <2>3, TakeAt
    <3>2. At(i - 1, t, a)'
      BY Zenon, <2>1, <3>1, TakeAt
    <3> QED
      BY Zenon, <3>1, <3>2 DEF Waiting
  <2> QED
    BY Zenon, <2>2, <2>3
<1> QED
  BY Zenon, <1>1, <1>2, <1>3

\* And after a post.
LEMMA PostWaiting ==
    ASSUME ConnectionTypes, NEW type, NEW about, Posted(type, about) \in Posts,
           Post(type, about)
    PROVE  \A t, a : Waiting(t, a)' <=>
               Waiting(t, a) \/ (t = type /\ a = about)
<1>1. Len(queue) + 1 \in Nat
  BY PostAt
<1> QED
  BY <1>1, PostAt DEF Waiting


\* What the handled message is about.
LEMMA HeadAbout ==
    ASSUME ConnectionTypes, NEW type, Take(type)
    PROVE  /\ type \in {"available", "lost"} => About \in Networks
           /\ type = "discovered" => About \in Nat
           /\ type \in {"open", "gone"} => About \in SocketIds
           /\ type = "identity" => About \in Identities
<1>1. Head(queue) \in Posts /\ Head(queue).type = type
  BY Zenon, TakeAt
<1> QED
  BY Zenon, <1>1 DEF Posts, About

\* Sockets and networks are numbered from 1.
LEMMA Numbers == SocketIds \subseteq Nat \ {0} /\ Networks \subseteq Nat \ {0}
  BY BoundsAssumption DEF SocketIds, Networks

\* A message that is posted is one of the queue's.
LEMMA PostsTyped ==
    /\ \A n \in Networks : Posted("available", n) \in Posts
                           /\ Posted("lost", n) \in Posts
    /\ \A g \in Nat : Posted("discovered", g) \in Posts
    /\ \A s \in SocketIds : Posted("open", s) \in Posts
                            /\ Posted("gone", s) \in Posts
    /\ \A id \in Identities : Posted("identity", id) \in Posts
  BY Zenon DEF Posts, Posted

Attempted ==
    /\ generation \in Nat /\ searching \subseteq Nat
    /\ webSocket \in Nat /\ made \in Nat
    /\ conn \in [SocketIds -> {"none", "connecting", "open", "dead"}]

\* Starting an attempt keeps the types of what it changes.
LEMMA StartTyped ==
    ASSUME Attempted, NEW mode, NEW g \in Nat, StartAttempt(mode, g)
    PROVE  Attempted'
<1>1. [conn EXCEPT ![made + 1] = "connecting"] \in
          [SocketIds -> {"none", "connecting", "open", "dead"}]
  BY Zenon DEF Attempted
<1>2. made + 1 \in Nat /\ g + 1 \in Nat /\ Nothing \in Nat
  BY DEF Attempted, Nothing
<1>3. CASE mode = "manual"
  BY Zenon, <1>1, <1>2, <1>3 DEF Attempted, StartAttempt, doConnect
<1>4. CASE mode # "manual"
  BY Zenon, <1>2, <1>4 DEF Attempted, StartAttempt
<1> QED
  BY Zenon, <1>3, <1>4

\* Every step keeps the types.
LEMMA ConnectionTyped ==
    ASSUME ConnectionTypes, ConnectionNext
    PROVE  ConnectionTypes'
<1>0. Attempted /\ (generation + 1 \in Nat) /\ Nothing \in Nat
  BY DEF ConnectionTypes, Attempted, Nothing
<1>u. Unregistered \in [socket : Nat, sent : BOOLEAN]
  BY Zenon DEF Unregistered, Nothing
<1>w. ASSUME NEW g \in Nat, OpenWindow(g)
      PROVE  /\ Attempted'
             /\ scheduler' = "window" /\ retry' = FALSE /\ expiry' = "armed"
             /\ target' \in {"manual", "auto"}
  BY Zenon, <1>0, <1>w, StartTyped DEF OpenWindow
<1>a. ASSUME Abandon
      PROVE  /\ registration' \in [socket : Nat, sent : BOOLEAN]
             /\ cancelled' \subseteq Nat
  BY Zenon, <1>a, <1>u DEF Abandon, ConnectionTypes
<1>g. ASSUME NEW r \in {"idle", "silent"}, GoTo(r)
      PROVE  /\ Attempted'
             /\ registration' \in [socket : Nat, sent : BOOLEAN]
             /\ cancelled' \subseteq Nat
             /\ scheduler' = r /\ retry' = FALSE /\ expiry' = "off"
             /\ target' = target
  BY Zenon, <1>g, <1>0, <1>a DEF GoTo, Attempted, CancelTimers
<1> DEFINE Rest == /\ running' = running /\ identity' = identity
                   /\ network' = network /\ networks' = networks
                   /\ owed' = owed
<1>1. CASE OnAvailable
  <2>1. queue' \in Seq(Posts) /\ activeNetwork' \in Nat /\ Rest
    BY Zenon, <1>1, TakeAt, HeadAbout, Numbers DEF OnAvailable, system
  <2>2. CASE scheduler \in {"idle", "silent"}
    <3>1. OpenWindow(generation) /\ cancelled' = cancelled
          /\ registration' = registration
      BY Zenon, <1>1, <2>2 DEF OnAvailable
    <3> QED
      BY Zenon, <1>w, <2>1, <3>1 DEF ConnectionTypes, Attempted
  <2>3. CASE scheduler = "window"
    <3>1. OpenWindow(generation + 1) /\ Abandon
      BY Zenon, <1>1, <2>3 DEF OnAvailable
    <3> QED
      BY Zenon, <1>0, <1>w, <1>a, <2>1, <3>1 DEF ConnectionTypes, Attempted
  <2>4. CASE scheduler = "connected"
    <3>1. UNCHANGED <<scheduler, timers, attempt, sockets, registration>>
      BY Zenon, <1>1, <2>4 DEF OnAvailable
    <3> QED
      BY Zenon, <2>1, <3>1 DEF ConnectionTypes, timers, attempt, sockets
  <2> QED
    BY Zenon, <2>2, <2>3, <2>4 DEF ConnectionTypes
<1>2. CASE OnLost
  <2>1. queue' \in Seq(Posts) /\ Rest
    BY Zenon, <1>2, TakeAt DEF OnLost, system
  <2>2. CASE UNCHANGED <<scheduler, timers, attempt, sockets, registration>>
    <3>1. activeNetwork' \in Nat
      BY Zenon, <1>0, <1>2 DEF OnLost, ConnectionTypes
    <3> QED
      BY Zenon, <2>1, <2>2, <3>1 DEF ConnectionTypes, timers, attempt, sockets
  <2>3. CASE GoTo("idle") /\ activeNetwork' = Nothing
    BY Zenon, <1>0, <1>g, <2>1, <2>3 DEF ConnectionTypes, Attempted
  <2> QED
    BY Zenon, <1>2, <2>2, <2>3 DEF OnLost
<1>3. CASE OnDiscovered
  <2>1. queue' \in Seq(Posts)
    BY Zenon, <1>3, TakeAt DEF OnDiscovered
  <2>2. Attempted'
    BY <1>0, <1>3 DEF OnDiscovered, doConnect, Attempted, attempt
  <2> QED
    BY Zenon, <1>3, <2>1, <2>2
    DEF OnDiscovered, ConnectionTypes, Attempted, attempt, timers, system
<1>4. CASE OnOpen
  <2>1. queue' \in Seq(Posts) /\ About \in Nat
    BY Zenon, <1>4, TakeAt, HeadAbout, Numbers DEF OnOpen
  <2>2. registration' \in [socket : Nat, sent : BOOLEAN]
    BY Zenon, <1>4, <1>u, <2>1 DEF OnOpen, sendRegistration, ConnectionTypes
  <2> QED
    BY Zenon, <1>4, <2>1, <2>2
    DEF OnOpen, CancelTimers, ConnectionTypes, attempt, timers, sockets, system
<1>5. CASE OnSocketGone
  <2>1. queue' \in Seq(Posts) /\ Rest /\ activeNetwork' = activeNetwork
        /\ cancelled' = cancelled
    BY Zenon, <1>5, TakeAt DEF OnSocketGone, system
  <2>2. CASE webSocket # About
    BY Zenon, <1>5, <2>1, <2>2
    DEF OnSocketGone, ConnectionTypes, timers, attempt
  <2>3. CASE webSocket = About
    <3>1. SocketDisconnected /\ registration' = Unregistered
      BY Zenon, <1>5, <2>3 DEF OnSocketGone
    <3>2. CASE scheduler = "connected"
      <4>1. OpenWindow(generation)
        BY Zenon, <3>1, <3>2 DEF SocketDisconnected
      <4> QED
        BY Zenon, <1>u, <1>w, <2>1, <3>1, <4>1 DEF ConnectionTypes, Attempted
    <3>3. CASE scheduler # "connected"
      <4>1. /\ Attempted' /\ target' = target
            /\ scheduler' \in {scheduler, "silent"}
            /\ retry' \in {retry, TRUE, FALSE} /\ expiry' \in {expiry, "off"}
        BY Zenon, <1>0, <3>1, <3>3
        DEF SocketDisconnected, CancelTimers, Attempted, attempt, timers
      <4> QED
        BY Zenon, <1>u, <2>1, <3>1, <4>1 DEF ConnectionTypes, Attempted
    <3> QED
      BY Zenon, <3>2, <3>3
  <2> QED
    BY Zenon, <2>2, <2>3
<1>6. CASE OnIdentity
  <2>1. queue' \in Seq(Posts)
    BY Zenon, <1>6, TakeAt DEF OnIdentity
  <2>2. registration' \in [socket : Nat, sent : BOOLEAN]
    BY Zenon, <1>6 DEF OnIdentity, sendRegistration, ConnectionTypes
  <2> QED
    BY Zenon, <1>6, <2>1, <2>2
    DEF OnIdentity, ConnectionTypes, attempt, timers, sockets, system
<1>7. CASE OnWindowExpired
  BY Zenon, <1>7, <1>g DEF OnWindowExpired, ConnectionTypes, Attempted, system
<1>8. CASE OnRetryElapsed
  <2>1. Attempted'
    BY Zenon, <1>0, <1>8, StartTyped DEF OnRetryElapsed, Attempted
  <2> QED
    BY Zenon, <1>8, <2>1 DEF OnRetryElapsed, ConnectionTypes, Attempted, system
<1>9. CASE Disconnect
  <2>1. queue' \in Seq(Posts)
    BY <1>9 DEF Disconnect
  <2> QED
    BY Zenon, <1>0, <1>9, <1>a, <2>1
    DEF Disconnect, ConnectionTypes, CancelTimers, attempt, system
<1>10. CASE Deadline
  BY Zenon, <1>10 DEF Deadline, ConnectionTypes, attempt, sockets, system
<1>11. CASE NetworkUp
  <2>1. networks + 1 \in Networks /\ networks + 1 \in Nat
    BY <1>11, BoundsAssumption DEF NetworkUp, ConnectionTypes, Networks
  <2>2. queue' \in Seq(Posts)
    BY Zenon, <1>11, <2>1, PostAt, PostsTyped DEF NetworkUp
  <2> QED
    BY Zenon, <1>11, <2>1, <2>2
    DEF NetworkUp, ConnectionTypes, attempt, sockets, timers
<1>12. ASSUME NEW n \in Networks, NetworkLost(n) PROVE ConnectionTypes'
  <2>1. queue' \in Seq(Posts)
    BY Zenon, <1>12, PostAt, PostsTyped DEF NetworkLost
  <2> QED
    BY Zenon, <1>0, <1>12, <2>1
    DEF NetworkLost, ConnectionTypes, attempt, sockets, timers
<1>13. ASSUME NEW g \in searching, Discovered(g) PROVE ConnectionTypes'
  <2>1. queue' \in Seq(Posts)
    BY Zenon, <1>13, PostAt, PostsTyped DEF Discovered, ConnectionTypes
  <2> QED
    BY Zenon, <1>13, <2>1
    DEF Discovered, ConnectionTypes, sockets, timers, system
<1>14. ASSUME NEW s \in SocketIds, Opened(s) \/ Dies(s)
       PROVE  ConnectionTypes'
  <2>1. queue' \in Seq(Posts)
    BY Zenon, <1>14, PostAt, PostsTyped DEF Opened, Dies
  <2>2. conn' \in [SocketIds -> {"none", "connecting", "open", "dead"}]
        /\ cancelled' \subseteq Nat
    BY Zenon, <1>14 DEF Opened, Dies, ConnectionTypes
  <2> QED
    BY Zenon, <1>14, <2>1, <2>2
    DEF Opened, Dies, ConnectionTypes, attempt, timers, system
<1>15. ASSUME NEW id \in Identities, Publish(id) PROVE ConnectionTypes'
  <2>1. queue' \in Seq(Posts)
    BY Zenon, <1>15, PostAt, PostsTyped DEF Publish, ConnectionTypes
  <2> QED
    BY Zenon, <1>15, <2>1
    DEF Publish, ConnectionTypes, attempt, sockets, timers, system
<1> QED
  BY Zenon, <1>1, <1>2, <1>3, <1>4, <1>5, <1>6, <1>7, <1>8, <1>9, <1>10, <1>11,
     <1>12, <1>13, <1>14, <1>15
  DEF ConnectionNext, Looper, LookupCompletes, LookupAgain, Identities


\* What an attempt that starts does to sockets, generation and threads.
LEMMA StartEffect ==
    ASSUME ConnectionTypes, NEW mode, NEW g \in Nat, StartAttempt(mode, g)
    PROVE  /\ \/ /\ webSocket' = made + 1 /\ made' = made + 1
                 /\ generation' = g /\ searching' = searching
              \/ /\ webSocket' = Nothing /\ made' = made
                 /\ generation' = g + 1 /\ searching' = searching \cup {g + 1}
           /\ \A s \in SocketIds :
                  conn'[s] = IF s = webSocket' THEN "connecting" ELSE conn[s]
<1>1. CASE mode = "manual"
  <2>1. doConnect /\ generation' = g /\ searching' = searching
    BY Zenon, <1>1 DEF StartAttempt
  <2>2. conn \in [SocketIds -> {"none", "connecting", "open", "dead"}]
    BY Zenon DEF ConnectionTypes
  <2>3. \A s \in SocketIds :
            conn'[s] = IF s = made + 1 THEN "connecting" ELSE conn[s]
    BY Zenon, <2>1, <2>2 DEF doConnect
  <2> QED
    BY Zenon, <2>1, <2>3 DEF doConnect
<1>2. CASE mode # "manual"
  <2>1. \A s \in SocketIds : s # Nothing
    BY Zenon, Numbers DEF Nothing
  <2> QED
    BY Zenon, <1>2, <2>1 DEF StartAttempt
<1> QED
  BY Zenon, <1>1, <1>2

\* Sockets, when an attempt starts.
LEMMA StartSockets ==
    ASSUME ConnectionTypes, SocketsSound,
           NEW mode, NEW g \in Nat, StartAttempt(mode, g),
           cancelled' \subseteq cancelled \cup ({webSocket} \ {Nothing}),
           registration'.socket = Nothing,
           \A t, a : Waiting(t, a)' => Waiting(t, a)
    PROVE  SocketsSound'
<1>1. made \in Nat /\ webSocket \in Nat /\ Nothing = 0
  BY Zenon DEF ConnectionTypes, Nothing
<1>2. \/ webSocket' = made + 1 /\ made' = made + 1
      \/ webSocket' = Nothing /\ made' = made
  BY Zenon, StartEffect
<1>3. \A s \in SocketIds :
          conn'[s] = IF s = webSocket' THEN "connecting" ELSE conn[s]
  BY Zenon, StartEffect
<1>4. webSocket' <= made'
  BY <1>1, <1>2
<1>5. ASSUME NEW s \in SocketIds, s > made' PROVE conn'[s] = "none"
  <2>1. s \in Nat /\ s # webSocket' /\ s > made
    BY <1>1, <1>2, <1>5, Numbers
  <2> QED
    BY Zenon, <1>3, <2>1 DEF SocketsSound
<1>6. ASSUME NEW s \in cancelled'
      PROVE  s <= made' /\ s # webSocket' /\ s # Nothing
  <2>1. s \in Nat /\ s <= made /\ s # Nothing
    BY Zenon, <1>1, <1>6 DEF SocketsSound, ConnectionTypes
  <2> QED
    BY <1>1, <1>2, <2>1
<1>7. ASSUME NEW s \in SocketIds
      PROVE  /\ Waiting("open", s)' => conn'[s] \in {"open", "dead"}
             /\ Waiting("gone", s)' => conn'[s] = "dead"
  <2>1. CASE s = webSocket'
    <3>1. s > made
      BY <1>1, <1>2, <2>1, Numbers
    <3> QED
      BY Zenon, <3>1 DEF SocketsSound
  <2>2. CASE s # webSocket'
    BY Zenon, <1>3, <2>2 DEF SocketsSound
  <2> QED
    BY Zenon, <2>1, <2>2
<1>8. Nothing' = Nothing /\ SocketIds' = SocketIds
  BY Zenon DEF Nothing, SocketIds
<1> QED
  BY Zenon, <1>4, <1>5, <1>6, <1>7, <1>8 DEF SocketsSound

\* Sockets, when an attempt is given up.
LEMMA StopSockets ==
    ASSUME ConnectionTypes, SocketsSound,
           webSocket' = Nothing, UNCHANGED <<conn, made>>,
           cancelled' \subseteq cancelled \cup ({webSocket} \ {Nothing}),
           registration'.socket = Nothing,
           \A t, a : Waiting(t, a)' => Waiting(t, a)
    PROVE  SocketsSound'
<1>1. made \in Nat /\ webSocket \in Nat /\ Nothing = 0
  BY Zenon DEF ConnectionTypes, Nothing
<1>2. ASSUME NEW s \in cancelled'
      PROVE  s <= made' /\ s # webSocket' /\ s # Nothing
  BY Zenon, <1>1, <1>2 DEF SocketsSound, ConnectionTypes
<1>3. Nothing' = Nothing /\ SocketIds' = SocketIds
  BY Zenon DEF Nothing, SocketIds
<1>4. webSocket' <= made'
  BY <1>1
<1> QED
  BY Zenon, <1>2, <1>3, <1>4 DEF SocketsSound

\* Sockets, when a step leaves them and their messages as they are.
LEMMA StillSockets ==
    ASSUME SocketsSound, UNCHANGED <<webSocket, conn, made, cancelled>>,
           registration'.socket = registration.socket,
           \A s : Waiting("open", s)' => Waiting("open", s),
           \A s : Waiting("gone", s)' => Waiting("gone", s)
    PROVE  SocketsSound'
<1>1. Nothing' = Nothing /\ SocketIds' = SocketIds
  BY Zenon DEF Nothing, SocketIds
<1> QED
  BY Zenon, <1>1 DEF SocketsSound


\* A step without a message leaves what waits as it is.
LEMMA QueueKept ==
    ASSUME queue' = queue
    PROVE  /\ \A i, t, a : At(i, t, a)' <=> At(i, t, a)
           /\ \A t, a : Waiting(t, a)' <=> Waiting(t, a)
  BY Zenon DEF At, Waiting

\* Giving up an attempt.
LEMMA Abandoned ==
    ASSUME Abandon
    PROVE  /\ cancelled' \subseteq cancelled \cup ({webSocket} \ {Nothing})
           /\ registration'.socket = Nothing
  BY Zenon DEF Abandon, Unregistered

\* Without a socket nothing is registered.
LEMMA NoSocket ==
    ASSUME SocketsSound, webSocket = Nothing
    PROVE  registration.socket = Nothing
  BY Zenon DEF SocketsSound

\* The answer to the current discovery opens a socket when there is none.
LEMMA AnswerWanted ==
    ASSUME ConnectionInv, OnDiscovered,
           running /\ About = generation /\ scheduler = "window"
    PROVE  /\ Sought /\ webSocket = Nothing /\ ~retry
           /\ StartAttempt("manual", generation)
<1>1. Waiting("discovered", generation)
  BY Zenon, TakeWaiting DEF OnDiscovered, ConnectionInv
<1>2. Sought /\ webSocket = Nothing /\ ~retry
  BY Zenon, <1>1 DEF Sought, ConnectionInv, DiscoverySound
<1> QED
  BY Zenon, <1>2 DEF OnDiscovered, StartAttempt, attempt

\* Every step keeps what is known of sockets.
LEMMA SocketsKept ==
    ASSUME ConnectionInv, ConnectionNext
    PROVE  SocketsSound'
<1>0. ConnectionTypes /\ SocketsSound /\ AttemptSound /\ generation \in Nat
      /\ generation + 1 \in Nat
  BY DEF ConnectionInv, ConnectionTypes
<1>u. Unregistered.socket = Nothing
  BY Zenon DEF Unregistered
<1>1. CASE OnAvailable
  <2>1. \A t, a : Waiting(t, a)' => Waiting(t, a)
    BY Zenon, <1>0, <1>1, TakeWaiting DEF OnAvailable
  <2>2. CASE scheduler \in {"idle", "silent"}
    <3>1. webSocket = Nothing
      BY Zenon, <1>0, <2>2 DEF AttemptSound
    <3>2. OpenWindow(generation) /\ cancelled' = cancelled
          /\ registration' = registration
      BY Zenon, <1>1, <2>2 DEF OnAvailable
    <3>3. registration'.socket = Nothing
      BY Zenon, <1>0, <3>1, <3>2, NoSocket
    <3> QED
      BY Zenon, <1>0, <2>1, <3>2, <3>3, StartSockets DEF OpenWindow
  <2>3. CASE scheduler = "window"
    <3>1. OpenWindow(generation + 1) /\ Abandon
      BY Zenon, <1>1, <2>3 DEF OnAvailable
    <3> QED
      BY Zenon, <1>0, <2>1, <3>1, Abandoned, StartSockets DEF OpenWindow
  <2>4. CASE scheduler = "connected"
    BY Zenon, <1>0, <1>1, <2>1, <2>4, StillSockets DEF OnAvailable, sockets
  <2> QED
    BY Zenon, <1>0, <2>2, <2>3, <2>4 DEF ConnectionTypes
<1>2. CASE OnLost
  <2>1. \A t, a : Waiting(t, a)' => Waiting(t, a)
    BY Zenon, <1>0, <1>2, TakeWaiting DEF OnLost
  <2>2. CASE GoTo("idle")
    BY Zenon, <1>0, <2>1, <2>2, Abandoned, StopSockets DEF GoTo
  <2>3. CASE UNCHANGED <<sockets, registration>>
    BY Zenon, <1>0, <2>1, <2>3, StillSockets DEF sockets
  <2> QED
    BY Zenon, <1>2, <2>2, <2>3 DEF OnLost
<1>3. CASE OnDiscovered
  <2>1. \A t, a : Waiting(t, a)' => Waiting(t, a)
    BY Zenon, <1>0, <1>3, TakeWaiting DEF OnDiscovered
  <2>2. cancelled' = cancelled /\ registration' = registration
    BY Zenon, <1>3 DEF OnDiscovered
  <2>3. CASE running /\ About = generation /\ scheduler = "window"
    <3>1. webSocket = Nothing /\ StartAttempt("manual", generation)
      BY Zenon, <1>3, <2>3, AnswerWanted
    <3>2. registration'.socket = Nothing
      BY Zenon, <1>0, <2>2, <3>1, NoSocket
    <3> QED
      BY Zenon, <1>0, <2>1, <2>2, <3>1, <3>2, StartSockets
  <2>4. CASE ~(running /\ About = generation /\ scheduler = "window")
    <3>1. UNCHANGED <<webSocket, conn, made>>
      BY Zenon, <1>3, <2>4 DEF OnDiscovered
    <3> QED
      BY Zenon, <1>0, <2>1, <2>2, <3>1, StillSockets
  <2> QED
    BY Zenon, <2>3, <2>4
<1>4. CASE OnOpen
  <2>1. \A t, a : Waiting(t, a)' => Waiting(t, a)
    BY Zenon, <1>0, <1>4, TakeWaiting DEF OnOpen
  <2>2. Waiting("open", About) /\ About \in SocketIds
    BY Zenon, <1>0, <1>4, TakeWaiting, HeadAbout DEF OnOpen
  <2>3. UNCHANGED <<webSocket, conn, made, cancelled>>
    BY Zenon, <1>4 DEF OnOpen, sockets
  <2>4. CASE webSocket = About
    <3>1. registration'.socket = About
      BY Zenon, <1>4, <2>4 DEF OnOpen, sendRegistration, Unregistered
    <3>2. conn[About] \in {"open", "dead"}
      BY Zenon, <1>0, <2>2 DEF SocketsSound
    <3>3. Nothing' = Nothing /\ SocketIds' = SocketIds
      BY Zenon DEF Nothing, SocketIds
    <3> HIDE DEF About
    <3> QED
      BY Zenon, <1>0, <2>1, <2>2, <2>3, <2>4, <3>1, <3>2, <3>3 DEF SocketsSound
  <2>5. CASE webSocket # About
    BY Zenon, <1>0, <1>4, <2>1, <2>3, <2>5, StillSockets DEF OnOpen
  <2> QED
    BY Zenon, <2>4, <2>5
<1>5. CASE OnSocketGone
  <2>1. \A t, a : Waiting(t, a)' => Waiting(t, a)
    BY Zenon, <1>0, <1>5, TakeWaiting DEF OnSocketGone
  <2>2. CASE webSocket # About
    BY Zenon, <1>0, <1>5, <2>1, <2>2, StillSockets DEF OnSocketGone
  <2>3. CASE webSocket = About
    <3>1. SocketDisconnected /\ registration'.socket = Nothing
          /\ cancelled' = cancelled
      BY Zenon, <1>u, <1>5, <2>3 DEF OnSocketGone
    <3>2. CASE scheduler = "connected"
      BY Zenon, <1>0, <2>1, <3>1, <3>2, StartSockets
      DEF SocketDisconnected, OpenWindow
    <3>3. CASE scheduler # "connected"
      <4>1. webSocket' = Nothing /\ UNCHANGED <<conn, made>>
        BY Zenon, <3>1, <3>3 DEF SocketDisconnected
      <4> QED
        BY Zenon, <1>0, <2>1, <3>1, <4>1, StopSockets
    <3> QED
      BY Zenon, <3>2, <3>3
  <2> QED
    BY Zenon, <2>2, <2>3
<1>6. CASE OnIdentity
  <2>1. registration'.socket = registration.socket
    BY Zenon, <1>0, <1>6 DEF OnIdentity, sendRegistration, ConnectionTypes
  <2> QED
    BY Zenon, <1>0, <1>6, <2>1, TakeWaiting, StillSockets
    DEF OnIdentity, sockets
<1>7. CASE OnWindowExpired
  BY Zenon, <1>0, <1>7, QueueKept, Abandoned, StopSockets
  DEF OnWindowExpired, GoTo
<1>8. CASE OnRetryElapsed
  <2>1. webSocket = Nothing
    BY Zenon, <1>0, <1>8 DEF OnRetryElapsed, AttemptSound
  <2>2. registration'.socket = Nothing
    BY Zenon, <1>0, <1>8, <2>1, NoSocket DEF OnRetryElapsed
  <2> QED
    BY Zenon, <1>0, <1>8, <2>2, QueueKept, StartSockets DEF OnRetryElapsed
<1>9. CASE Disconnect
  <2>1. \A t, a : ~Waiting(t, a)'
    BY <1>9 DEF Disconnect, Waiting, At
  <2> QED
    BY Zenon, <1>0, <1>9, <2>1, Abandoned, StopSockets DEF Disconnect
<1>10. CASE Deadline
  BY Zenon, <1>0, <1>10, QueueKept, StillSockets DEF Deadline, sockets
<1>11. CASE NetworkUp
  <2>1. networks + 1 \in Networks
    BY <1>0, <1>11, BoundsAssumption DEF NetworkUp, ConnectionTypes, Networks
  <2> QED
    BY <1>0, <1>11, <2>1, PostsTyped, PostWaiting, StillSockets
    DEF NetworkUp, sockets
<1>12. ASSUME NEW n \in Networks, NetworkLost(n) PROVE SocketsSound'
  BY <1>0, <1>12, PostsTyped, PostWaiting, StillSockets
  DEF NetworkLost, sockets
<1>13. ASSUME NEW g \in searching, Discovered(g) PROVE SocketsSound'
  <2>1. g \in Nat
    BY Zenon, <1>0 DEF ConnectionTypes
  <2> QED
    BY <1>0, <1>13, <2>1, PostsTyped, PostWaiting, StillSockets
    DEF Discovered, sockets
<1>14. ASSUME NEW s \in SocketIds, Opened(s) \/ Dies(s) PROVE SocketsSound'
  <2>1. \A t, a : Waiting(t, a)' =>
            Waiting(t, a) \/ (t = "open" /\ a = s /\ conn'[s] = "open")
                          \/ (t = "gone" /\ a = s /\ conn'[s] = "dead")
    <3>1. conn \in [SocketIds -> {"none", "connecting", "open", "dead"}]
      BY Zenon, <1>0 DEF ConnectionTypes
    <3>2. CASE Opened(s)
      BY Zenon, <1>0, <3>1, <3>2, PostsTyped, PostWaiting DEF Opened
    <3>3. CASE Dies(s)
      BY <1>0, <3>1, <3>3, PostsTyped, PostWaiting DEF Dies
    <3> QED
      BY Zenon, <1>14, <3>2, <3>3
  <2>2. /\ conn[s] \in {"connecting", "open"}
        /\ conn'[s] \in {"open", "dead"} /\ (conn[s] = "open" => conn'[s] = "dead")
        /\ \A r \in SocketIds \ {s} : conn'[r] = conn[r]
    BY Zenon, <1>0, <1>14 DEF Opened, Dies, ConnectionTypes
  <2>3. /\ UNCHANGED <<webSocket, made, registration>>
        /\ cancelled' \subseteq cancelled
    BY Zenon, <1>14 DEF Opened, Dies
  <2>4. Nothing' = Nothing /\ SocketIds' = SocketIds
    BY Zenon DEF Nothing, SocketIds
  <2>5. \A r \in SocketIds : r > made' => conn'[r] = "none"
    BY Zenon, <1>0, <2>2, <2>3 DEF SocketsSound
  <2>6. \A r \in SocketIds :
            /\ Waiting("open", r)' => conn'[r] \in {"open", "dead"}
            /\ Waiting("gone", r)' => conn'[r] = "dead"
    BY Zenon, <1>0, <2>1, <2>2 DEF SocketsSound
  <2>7. registration'.socket # Nothing =>
            /\ registration'.socket = webSocket'
            /\ webSocket' \in SocketIds /\ conn'[webSocket'] \in {"open", "dead"}
    BY Zenon, <1>0, <2>2, <2>3 DEF SocketsSound
  <2> QED
    BY Zenon, <1>0, <2>3, <2>4, <2>5, <2>6, <2>7 DEF SocketsSound
<1>15. ASSUME NEW id \in Identities, Publish(id) PROVE SocketsSound'
  <2>1. \A s : /\ Waiting("open", s)' => Waiting("open", s)
               /\ Waiting("gone", s)' => Waiting("gone", s)
    BY <1>0, <1>15, QueueKept, PostsTyped, PostWaiting DEF Publish
  <2> QED
    BY Zenon, <1>0, <1>15, <2>1, StillSockets DEF Publish, sockets
<1> QED
  BY Zenon, <1>1, <1>2, <1>3, <1>4, <1>5, <1>6, <1>7, <1>8, <1>9, <1>10, <1>11,
     <1>12, <1>13, <1>14, <1>15
  DEF ConnectionNext, Looper, LookupCompletes, LookupAgain, Identities


\* Taking a message keeps the answers apart.
LEMMA TakeOnce ==
    ASSUME ConnectionTypes, AnswersOnce, NEW type, Take(type)
    PROVE  AnswersOnce'
<1> SUFFICES ASSUME NEW i \in Nat, NEW j \in Nat, NEW g \in Nat,
                    At(i, "discovered", g)', At(j, "discovered", g)'
             PROVE  i = j
  BY Zenon DEF AnswersOnce
<1>1. At(i + 1, "discovered", g) /\ At(j + 1, "discovered", g)
  BY Zenon, TakeAt
<1>2. i + 1 = j + 1
  BY <1>1 DEF AnswersOnce
<1> QED
  BY <1>2

Attempts == DiscoverySound /\ AttemptSound

\* Attempts, when one starts and every other socket is given up.
LEMMA StartAttempts ==
    ASSUME ConnectionTypes, Attempts, NEW mode, NEW g \in Nat,
           StartAttempt(mode, g), running /\ running',
           g >= generation, g \notin searching, ~Waiting("discovered", g),
           \A s \in SocketIds \ cancelled' : conn[s] \notin {"connecting", "open"},
           scheduler' = "window", retry' = FALSE, expiry' \in {"armed", "due"},
           AnswersOnce', \A t, a : Waiting(t, a)' => Waiting(t, a)
    PROVE  Attempts'
<1>1. generation \in Nat /\ searching \subseteq Nat /\ made \in Nat
      /\ Nothing = 0 /\ Nothing' = Nothing
  BY Zenon DEF ConnectionTypes, Nothing
<1>2. /\ \/ /\ webSocket' = made + 1 /\ made' = made + 1
            /\ generation' = g /\ searching' = searching
         \/ /\ webSocket' = Nothing /\ made' = made
            /\ generation' = g + 1 /\ searching' = searching \cup {g + 1}
      /\ \A s \in SocketIds :
             conn'[s] = IF s = webSocket' THEN "connecting" ELSE conn[s]
  BY Zenon, StartEffect
<1>3. ASSUME NEW n \in searching' PROVE n <= generation'
  <2>1. \A m \in searching : m <= generation /\ m \in Nat
    BY Zenon, <1>1 DEF Attempts, DiscoverySound
  <2>2. generation' \in {g, g + 1} /\ (n \in searching \/ n = generation')
    BY Zenon, <1>2, <1>3
  <2>3. g <= generation' /\ generation <= generation' /\ generation' \in Nat
    BY <1>1, <2>2
  <2>4. CASE n \in searching
    <3>1. n \in Nat /\ n <= generation /\ generation \in Nat
      BY Zenon, <1>1, <2>1, <2>4
    <3> QED
      BY <2>3, <3>1
  <2>5. CASE n = generation'
    BY <2>3, <2>5
  <2> QED
    BY Zenon, <2>2, <2>4, <2>5
<1>4. ASSUME NEW n \in Nat, Waiting("discovered", n)'
      PROVE  n <= generation' /\ n \notin searching' /\ n # generation'
  <2>1. n <= generation /\ n \notin searching /\ n # g
    BY Zenon, <1>4 DEF Attempts, DiscoverySound
  <2> QED
    BY <1>1, <1>2, <2>1
<1>5. generation' \in Nat
  BY <1>1, <1>2
<1>a. \A s \in SocketIds' \ cancelled' :
          conn'[s] \in {"connecting", "open"} => webSocket' = s
  BY Zenon, <1>2 DEF SocketIds
<1>6. CASE webSocket' = made + 1 /\ generation' = g /\ searching' = searching
  <2>1. ~Sought' /\ webSocket' # Nothing
    BY <1>1, <1>4, <1>5, <1>6 DEF Sought
  <2>2. DiscoverySound'
    BY Zenon, <1>3, <1>4, <2>1 DEF DiscoverySound
  <2>3. AttemptSound'
    BY Zenon, <1>a, <1>1, <2>1 DEF AttemptSound
  <2> QED
    BY Zenon, <2>2, <2>3 DEF Attempts
<1>7. CASE webSocket' = Nothing /\ generation' \in searching'
  <2>1. Sought'
    BY Zenon, <1>7 DEF Sought
  <2>2. DiscoverySound'
    BY Zenon, <1>1, <1>3, <1>4, <1>7 DEF DiscoverySound
  <2>3. AttemptSound'
    BY Zenon, <1>a, <1>1, <1>7, <2>1 DEF AttemptSound
  <2> QED
    BY Zenon, <2>2, <2>3 DEF Attempts
<1> QED
  BY Zenon, <1>2, <1>6, <1>7

\* Attempts, when they end and the generation moves on.
LEMMA StopAttempts ==
    ASSUME ConnectionTypes, Attempts, UNCHANGED <<searching, conn>>,
           generation' = generation + 1, webSocket' = Nothing,
           \A s \in SocketIds \ cancelled' : conn[s] \notin {"connecting", "open"},
           scheduler' \in {"idle", "silent"}, retry' = FALSE, expiry' = "off",
           AnswersOnce', \A t, a : Waiting(t, a)' => Waiting(t, a)
    PROVE  Attempts'
<1>1. generation \in Nat /\ searching \subseteq Nat /\ Nothing' = Nothing
      /\ SocketIds' = SocketIds
  BY Zenon DEF ConnectionTypes, Nothing, SocketIds
<1>2. \A g \in searching : g \in Nat /\ g <= generation
  BY Zenon, <1>1 DEF Attempts, DiscoverySound
<1>3. \A g \in Nat : Waiting("discovered", g)' =>
          g <= generation /\ g \notin searching
  BY Zenon DEF Attempts, DiscoverySound
<1>4. \A g \in Nat : g <= generation => g <= generation' /\ g # generation'
  BY <1>1
<1>5. generation' \in Nat
  BY <1>1
<1>6. ~Sought'
  BY Zenon, <1>2, <1>3, <1>4, <1>5 DEF Sought
<1>7. DiscoverySound'
  BY Zenon, <1>1, <1>2, <1>3, <1>4, <1>6 DEF DiscoverySound
<1>8. AttemptSound'
  BY Zenon, <1>1 DEF AttemptSound
<1> QED
  BY Zenon, <1>7, <1>8 DEF Attempts

\* Attempts, when a step leaves them and their answers as they are.
LEMMA StillAttempts ==
    ASSUME Attempts, UNCHANGED <<running, scheduler, retry, generation, searching,
                                 webSocket>>,
           expiry' = expiry \/ (expiry = "armed" /\ expiry' = "due"),
           \A s \in SocketIds \ cancelled' :
               conn'[s] \in {"connecting", "open"} => webSocket = s,
           AnswersOnce',
           \A g : Waiting("discovered", g)' => Waiting("discovered", g),
           \A g : Waiting("discovered", g) /\ ~Waiting("discovered", g)' =>
                      g # generation \/ ~running \/ scheduler # "window"
    PROVE  Attempts'
<1>1. Nothing' = Nothing /\ SocketIds' = SocketIds
  BY Zenon DEF Nothing, SocketIds
<1>2. Sought' => Sought
  BY Zenon DEF Sought
<1>3. Sought /\ running /\ scheduler = "window" => Sought'
  BY Zenon DEF Sought
<1>4. DiscoverySound'
  BY Zenon, <1>1, <1>2 DEF Attempts, DiscoverySound
<1>5. AttemptSound'
  BY Zenon, <1>1, <1>3 DEF Attempts, AttemptSound
<1> QED
  BY Zenon, <1>4, <1>5 DEF Attempts

\* Giving up the current socket leaves none alive.
LEMMA NoneAlive ==
    ASSUME ConnectionTypes, AttemptSound, Abandon
    PROVE  \A s \in SocketIds \ cancelled' : conn[s] \notin {"connecting", "open"}
<1> SUFFICES ASSUME NEW s \in SocketIds, s \notin cancelled',
                    conn[s] \in {"connecting", "open"}
             PROVE  FALSE
  BY Zenon
<1>1. s \notin cancelled
  BY Zenon DEF Abandon
<1>2. webSocket = s /\ s # Nothing
  BY Zenon, <1>1, Numbers DEF AttemptSound, Nothing
<1> QED
  BY Zenon, <1>2 DEF Abandon


\* Every step keeps the attempts apart.
LEMMA AttemptsKept ==
    ASSUME ConnectionInv, ConnectionNext
    PROVE  Attempts'
<1>0. /\ ConnectionTypes /\ SocketsSound /\ Attempts
      /\ DiscoverySound /\ AttemptSound /\ AnswersOnce
  BY Zenon DEF ConnectionInv, Attempts, DiscoverySound
<1>t. /\ generation \in Nat /\ generation + 1 \in Nat
      /\ generation >= generation /\ generation + 1 >= generation
      /\ running \in BOOLEAN
  BY DEF ConnectionInv, ConnectionTypes
<1>n. generation + 1 \notin searching /\ ~Waiting("discovered", generation + 1)
  BY <1>0, <1>t DEF DiscoverySound
<1>s. ASSUME ~Sought
      PROVE  generation \notin searching /\ ~Waiting("discovered", generation)
  BY Zenon, <1>s DEF Sought
<1>1. CASE OnAvailable
  <2>1. Take("available") /\ running /\ running'
    BY Zenon, <1>1 DEF OnAvailable
  <2>2. AnswersOnce' /\ \A t, a : Waiting(t, a)' => Waiting(t, a)
    BY Zenon, <1>0, <2>1, TakeOnce, TakeWaiting
  <2>3. CASE scheduler \in {"idle", "silent"}
    <3>1. OpenWindow(generation) /\ cancelled' = cancelled
      BY Zenon, <1>1, <2>3 DEF OnAvailable
    <3>2. ~Sought /\ webSocket = Nothing
      BY Zenon, <1>0, <2>3 DEF DiscoverySound, AttemptSound
    <3>3. \A s \in SocketIds \ cancelled' :
              conn[s] \notin {"connecting", "open"}
      BY Zenon, <1>0, <3>1, <3>2, Numbers DEF AttemptSound, Nothing
    <3> QED
      BY Zenon, <1>0, <1>t, <1>s, <2>1, <2>2, <3>1, <3>2, <3>3, StartAttempts
      DEF OpenWindow
  <2>4. CASE scheduler = "window"
    <3>1. OpenWindow(generation + 1) /\ Abandon
      BY Zenon, <1>1, <2>4 DEF OnAvailable
    <3> QED
      BY Zenon, <1>0, <1>t, <1>n, <2>1, <2>2, <3>1, NoneAlive, StartAttempts
      DEF OpenWindow
  <2>5. CASE scheduler = "connected"
    <3>1. \A g : Waiting("discovered", g) => Waiting("discovered", g)'
      BY Zenon, <1>0, <2>1, TakeWaiting
    <3> QED
      BY Zenon, <1>0, <1>1, <2>2, <2>5, <3>1, StillAttempts
      DEF OnAvailable, sockets, timers, attempt, AttemptSound
  <2> QED
    BY Zenon, <1>0, <2>3, <2>4, <2>5 DEF ConnectionTypes
<1>2. CASE OnLost
  <2>1. Take("lost")
    BY Zenon, <1>2 DEF OnLost
  <2>2. AnswersOnce' /\ \A t, a : Waiting(t, a)' => Waiting(t, a)
    BY Zenon, <1>0, <2>1, TakeOnce, TakeWaiting
  <2>3. CASE GoTo("idle")
    BY Zenon, <1>0, <2>2, <2>3, NoneAlive, StopAttempts DEF GoTo, CancelTimers
  <2>4. CASE UNCHANGED <<scheduler, timers, attempt, sockets>>
    <3>1. \A g : Waiting("discovered", g) => Waiting("discovered", g)'
      BY Zenon, <1>0, <2>1, TakeWaiting
    <3> QED
      BY Zenon, <1>0, <1>2, <2>2, <2>4, <3>1, StillAttempts
      DEF OnLost, sockets, timers, attempt, AttemptSound
  <2> QED
    BY Zenon, <1>2, <2>3, <2>4 DEF OnLost
<1>3. CASE OnDiscovered
  <2>1. Take("discovered")
    BY Zenon, <1>3 DEF OnDiscovered
  <2>2. AnswersOnce' /\ \A t, a : Waiting(t, a)' => Waiting(t, a)
    BY Zenon, <1>0, <2>1, TakeOnce, TakeWaiting
  <2>3. CASE running /\ About = generation /\ scheduler = "window"
    <3>1. Sought /\ webSocket = Nothing /\ ~retry
      BY Zenon, <1>3, <2>3, AnswerWanted
    <3>2. Waiting("discovered", generation) /\ At(1, "discovered", generation)
      BY Zenon, <1>0, <2>1, <2>3, TakeWaiting, TakeAt
    <3>3. ~Waiting("discovered", generation)'
      <4>1. SUFFICES ASSUME Waiting("discovered", generation)' PROVE FALSE
        BY Zenon
      <4>2. generation' = generation
        BY Zenon, <1>3 DEF OnDiscovered, attempt
      <4>3. PICK i \in Nat : At(i, "discovered", generation)'
        BY Zenon, <4>1, <4>2 DEF Waiting
      <4>4. i # 0 /\ At(i + 1, "discovered", generation)
        BY Zenon, <1>0, <2>1, <4>2, <4>3, TakeAt
      <4>5. i + 1 = 1
        BY <1>0, <1>t, <3>2, <4>4 DEF AnswersOnce
      <4> QED
        BY <4>4, <4>5
    <3>4. doConnect /\ UNCHANGED <<scheduler, timers, attempt, cancelled, running>>
      BY Zenon, <1>3, <2>3 DEF OnDiscovered
    <3>5. generation \notin searching
      BY Zenon, <1>0, <1>t, <3>2 DEF DiscoverySound
    <3>6. ~Sought'
      BY Zenon, <3>3, <3>4, <3>5 DEF Sought, attempt
    <3>7. webSocket' # Nothing /\ webSocket' = made + 1 /\ Nothing' = Nothing
      BY <1>0, <3>4 DEF doConnect, ConnectionTypes, Nothing
    <3>8. DiscoverySound'
      BY Zenon, <1>0, <2>2, <3>4, <3>6 DEF DiscoverySound, attempt
    <3>9. \A s \in SocketIds' \ cancelled' :
              conn'[s] \in {"connecting", "open"} => webSocket' = s
      <4>1. SocketIds' = SocketIds /\ cancelled' = cancelled
        BY Zenon, <3>4 DEF SocketIds
      <4>2. \A s \in SocketIds :
                conn'[s] = IF s = made + 1 THEN "connecting" ELSE conn[s]
        BY Zenon, <1>0, <3>4 DEF doConnect, ConnectionTypes
      <4>3. \A s \in SocketIds : s # Nothing
        BY Zenon, Numbers DEF Nothing
      <4> QED
        BY Zenon, <1>0, <3>1, <3>7, <4>1, <4>2, <4>3 DEF AttemptSound
    <3>10. AttemptSound'
      BY Zenon, <1>0, <2>3, <3>1, <3>4, <3>7, <3>9 DEF AttemptSound, timers
    <3> QED
      BY Zenon, <3>8, <3>10 DEF Attempts
  <2>4. CASE ~(running /\ About = generation /\ scheduler = "window")
    <3>1. UNCHANGED <<webSocket, conn, made>>
      BY Zenon, <1>3, <2>4 DEF OnDiscovered
    <3>2. \A g : Waiting("discovered", g) /\ ~Waiting("discovered", g)' =>
              g = About
      BY Zenon, <1>0, <2>1, TakeWaiting
    <3> QED
      BY Zenon, <1>0, <1>3, <2>2, <2>4, <3>1, <3>2, StillAttempts
      DEF OnDiscovered, timers, attempt, AttemptSound
  <2> QED
    BY Zenon, <2>3, <2>4
<1>4. CASE OnOpen
  <2>1. Take("open")
    BY Zenon, <1>4 DEF OnOpen
  <2>2. AnswersOnce' /\ \A t, a : Waiting(t, a)' => Waiting(t, a)
    BY Zenon, <1>0, <2>1, TakeOnce, TakeWaiting
  <2>3. CASE webSocket = About
    <3>1. webSocket # Nothing
      BY Zenon, <1>0, <2>1, <2>3, HeadAbout, Numbers DEF Nothing
    <3>2. ~Sought /\ running
      BY Zenon, <1>0, <3>1 DEF DiscoverySound, AttemptSound
    <3>3. /\ scheduler' = "connected" /\ retry' = FALSE /\ expiry' = "off"
          /\ UNCHANGED <<running, attempt, sockets>>
      BY Zenon, <1>4, <2>3 DEF OnOpen, CancelTimers
    <3>4. ~Sought'
      BY Zenon, <2>2, <3>2, <3>3 DEF Sought, attempt
    <3>5. DiscoverySound'
      BY Zenon, <1>0, <2>2, <3>3, <3>4 DEF DiscoverySound, attempt
    <3>6. Nothing' = Nothing /\ SocketIds' = SocketIds
      BY Zenon DEF Nothing, SocketIds
    <3>7. AttemptSound'
      BY Zenon, <1>0, <3>2, <3>3, <3>6 DEF AttemptSound, sockets
    <3> QED
      BY Zenon, <3>5, <3>7 DEF Attempts
  <2>4. CASE webSocket # About
    <3>1. \A g : Waiting("discovered", g) => Waiting("discovered", g)'
      BY Zenon, <1>0, <2>1, TakeWaiting
    <3> QED
      BY Zenon, <1>0, <1>4, <2>2, <2>4, <3>1, StillAttempts
      DEF OnOpen, sockets, timers, attempt, AttemptSound
  <2> QED
    BY Zenon, <2>3, <2>4
<1>5. CASE OnSocketGone
  <2>1. Take("gone") /\ running' = running
    BY Zenon, <1>5 DEF OnSocketGone
  <2>2. AnswersOnce' /\ \A t, a : Waiting(t, a)' => Waiting(t, a)
    BY Zenon, <1>0, <2>1, TakeOnce, TakeWaiting
  <2>3. \A g : Waiting("discovered", g) => Waiting("discovered", g)'
    BY Zenon, <1>0, <2>1, TakeWaiting
  <2>4. CASE webSocket = About
    <3>1. SocketDisconnected /\ cancelled' = cancelled
      BY Zenon, <1>5, <2>4 DEF OnSocketGone
    <3>2. webSocket \in SocketIds /\ conn[webSocket] = "dead"
      BY Zenon, <1>0, <2>1, <2>4, HeadAbout, TakeWaiting DEF SocketsSound
    <3>3. webSocket # Nothing
      BY Zenon, <3>2, Numbers DEF Nothing
    <3>4. ~Sought /\ running /\ scheduler \in {"window", "connected"}
      BY Zenon, <1>0, <3>3 DEF DiscoverySound, AttemptSound
    <3>5. \A s \in SocketIds \ cancelled' :
              conn[s] \notin {"connecting", "open"}
      BY Zenon, <1>0, <3>1, <3>2 DEF AttemptSound
    <3>6. CASE scheduler = "connected"
      <4>1. OpenWindow(generation)
        BY Zenon, <3>1, <3>6 DEF SocketDisconnected
      <4> QED
        BY Zenon, <1>0, <1>t, <1>s, <2>1, <2>2, <3>4, <3>5, <4>1, StartAttempts
        DEF OpenWindow
    <3>7. CASE scheduler = "window" /\ expiry = "due"
      <4>1. /\ scheduler' = "silent" /\ CancelTimers /\ webSocket' = Nothing
            /\ generation' = generation + 1 /\ UNCHANGED <<searching, conn>>
        BY Zenon, <3>1, <3>7 DEF SocketDisconnected
      <4> QED
        BY Zenon, <1>0, <2>2, <3>5, <4>1, StopAttempts DEF CancelTimers
    <3>8. CASE scheduler = "window" /\ expiry # "due"
      <4>1. /\ retry' = TRUE /\ webSocket' = Nothing
            /\ UNCHANGED <<scheduler, expiry, attempt, conn, made>>
        BY Zenon, <3>1, <3>8 DEF SocketDisconnected
      <4>2. ~Sought'
        BY Zenon, <2>2, <3>4, <4>1 DEF Sought, attempt
      <4>3. DiscoverySound'
        BY Zenon, <1>0, <2>2, <4>1, <4>2 DEF DiscoverySound, attempt
      <4>4. Nothing' = Nothing /\ SocketIds' = SocketIds
        BY Zenon DEF Nothing, SocketIds
      <4>5. AttemptSound'
        BY Zenon, <1>0, <2>1, <3>4, <3>5, <3>8, <4>1, <4>4 DEF AttemptSound
      <4> QED
        BY Zenon, <4>3, <4>5 DEF Attempts
    <3> QED
      BY Zenon, <3>4, <3>6, <3>7, <3>8
  <2>5. CASE webSocket # About
    BY Zenon, <1>0, <1>5, <2>2, <2>3, <2>5, StillAttempts
    DEF OnSocketGone, timers, attempt, AttemptSound
  <2> QED
    BY Zenon, <2>4, <2>5
<1>6. CASE OnIdentity
  <2>1. Take("identity")
    BY Zenon, <1>6 DEF OnIdentity
  <2>2. AnswersOnce' /\ \A t, a : Waiting(t, a)' => Waiting(t, a)
    BY Zenon, <1>0, <2>1, TakeOnce, TakeWaiting
  <2>3. \A g : Waiting("discovered", g) => Waiting("discovered", g)'
    BY Zenon, <1>0, <2>1, TakeWaiting
  <2> QED
    BY Zenon, <1>0, <1>6, <2>2, <2>3, StillAttempts
    DEF OnIdentity, sockets, timers, attempt, AttemptSound
<1>k. ASSUME queue' = queue PROVE AnswersOnce'
  BY Zenon, <1>0, <1>k, QueueKept DEF AnswersOnce
<1>7. CASE OnWindowExpired
  BY Zenon, <1>0, <1>7, <1>k, QueueKept, NoneAlive, StopAttempts
  DEF OnWindowExpired, GoTo, CancelTimers
<1>8. CASE OnRetryElapsed
  <2>1. retry /\ StartAttempt(target, generation)
        /\ UNCHANGED <<running, queue, scheduler, expiry, cancelled>>
        /\ retry' = FALSE
    BY Zenon, <1>8 DEF OnRetryElapsed
  <2>2. webSocket = Nothing /\ ~Sought /\ running /\ scheduler = "window"
    BY Zenon, <1>0, <2>1 DEF DiscoverySound, AttemptSound
  <2>3. expiry \in {"armed", "due"}
    BY Zenon, <1>0, <2>2 DEF AttemptSound, ConnectionTypes
  <2>4. \A s \in SocketIds \ cancelled' : conn[s] \notin {"connecting", "open"}
    BY Zenon, <1>0, <2>1, <2>2, Numbers DEF AttemptSound, Nothing
  <2> QED
    BY Zenon, <1>0, <1>t, <1>s, <1>k, <2>1, <2>2, <2>3, <2>4, QueueKept,
       StartAttempts
<1>9. CASE Disconnect
  <2>1. \A i, t, a : ~At(i, t, a)'
    BY <1>9 DEF Disconnect, At
  <2>2. \A t, a : ~Waiting(t, a)'
    BY Zenon, <2>1 DEF Waiting
  <2>3. /\ running' = FALSE /\ retry' = FALSE /\ expiry' = "off"
        /\ webSocket' = Nothing /\ Abandon
        /\ UNCHANGED <<scheduler, attempt, conn>>
    BY Zenon, <1>9 DEF Disconnect, CancelTimers
  <2>4. Nothing' = Nothing /\ SocketIds' = SocketIds
    BY Zenon DEF Nothing, SocketIds
  <2>5. DiscoverySound'
    BY Zenon, <1>0, <2>1, <2>2, <2>3, <2>4
    DEF DiscoverySound, Sought, AnswersOnce, attempt
  <2>6. AttemptSound'
    BY Zenon, <1>0, <2>3, <2>4, NoneAlive DEF AttemptSound
  <2> QED
    BY Zenon, <2>5, <2>6 DEF Attempts
<1>10. CASE Deadline
  BY Zenon, <1>0, <1>10, <1>k, QueueKept, StillAttempts
  DEF Deadline, sockets, attempt, AttemptSound
<1>p. ASSUME NEW type, NEW about, Posted(type, about) \in Posts,
             Post(type, about), type # "discovered"
      PROVE  /\ AnswersOnce'
             /\ \A g : Waiting("discovered", g)' <=> Waiting("discovered", g)
  <2>1. \A i, g : At(i, "discovered", g)' <=> At(i, "discovered", g)
    BY <1>0, <1>p, PostAt
  <2> QED
    BY Zenon, <1>0, <2>1 DEF AnswersOnce, Waiting
<1>11. CASE NetworkUp
  <2>1. networks + 1 \in Networks
    BY <1>0, <1>11, BoundsAssumption DEF NetworkUp, ConnectionTypes, Networks
  <2> QED
    BY Zenon, <1>0, <1>p, <1>11, <2>1, PostsTyped, StillAttempts
    DEF NetworkUp, sockets, attempt, timers, AttemptSound
<1>12. ASSUME NEW n \in Networks, NetworkLost(n) PROVE Attempts'
  BY Zenon, <1>0, <1>p, <1>12, PostsTyped, StillAttempts
  DEF NetworkLost, sockets, attempt, timers, AttemptSound
<1>13. ASSUME NEW g \in searching, Discovered(g) PROVE Attempts'
  <2>1. g \in Nat
    BY Zenon, <1>0 DEF ConnectionTypes
  <2>2. ~Waiting("discovered", g) /\ g <= generation
    BY Zenon, <1>0, <2>1 DEF DiscoverySound
  <2>3. /\ searching' = searching \ {g}
        /\ UNCHANGED <<running, scheduler, timers, generation, sockets>>
    BY Zenon, <1>13 DEF Discovered
  <2>4. \A a : Waiting("discovered", a)' <=> Waiting("discovered", a) \/ a = g
    BY Zenon, <1>0, <1>13, <2>1, PostsTyped, PostWaiting DEF Discovered
  <2>5. AnswersOnce'
    <3>1. \A i, a : At(i, "discovered", a)' <=>
              At(i, "discovered", a) \/ (i = Len(queue) + 1 /\ a = g)
      BY <1>0, <1>13, <2>1, PostsTyped, PostAt DEF Discovered
    <3> QED
      BY <1>0, <2>2, <3>1 DEF AnswersOnce, Waiting
  <2>6. Sought' <=> Sought
    BY Zenon, <2>3, <2>4 DEF Sought
  <2>7. DiscoverySound'
    BY Zenon, <1>0, <2>2, <2>3, <2>4, <2>5, <2>6
    DEF DiscoverySound, timers, sockets, Nothing
  <2>8. AttemptSound'
    BY Zenon, <1>0, <2>3, <2>6
    DEF AttemptSound, timers, sockets, Nothing, SocketIds
  <2> QED
    BY Zenon, <2>7, <2>8 DEF Attempts
<1>14. ASSUME NEW s \in SocketIds, Opened(s) \/ Dies(s) PROVE Attempts'
  <2>1. /\ conn[s] \in {"connecting", "open"}
        /\ \A r \in SocketIds \ {s} : conn'[r] = conn[r]
    BY Zenon, <1>0, <1>14 DEF Opened, Dies, ConnectionTypes
  <2>2. \/ cancelled' = cancelled
        \/ conn'[s] = "dead" /\ cancelled' = cancelled \ {s}
    BY Zenon, <1>0, <1>14 DEF Opened, Dies, ConnectionTypes
  <2>3. \A r \in SocketIds \ cancelled' :
            conn'[r] \in {"connecting", "open"} => webSocket = r
    BY Zenon, <1>0, <2>1, <2>2 DEF AttemptSound
  <2>4. AnswersOnce'
        /\ \A g : Waiting("discovered", g)' <=> Waiting("discovered", g)
    BY Zenon, <1>p, <1>14, PostsTyped DEF Opened, Dies
  <2> QED
    BY Zenon, <1>0, <1>14, <2>3, <2>4, StillAttempts
    DEF Opened, Dies, timers, attempt
<1>15. ASSUME NEW id \in Identities, Publish(id) PROVE Attempts'
  <2>1. AnswersOnce'
        /\ \A g : Waiting("discovered", g)' <=> Waiting("discovered", g)
    BY Zenon, <1>k, <1>p, <1>15, QueueKept, PostsTyped DEF Publish
  <2> QED
    BY Zenon, <1>0, <1>15, <2>1, StillAttempts
    DEF Publish, sockets, attempt, timers, AttemptSound
<1> QED
  BY Zenon, <1>1, <1>2, <1>3, <1>4, <1>5, <1>6, <1>7, <1>8, <1>9, <1>10, <1>11,
     <1>12, <1>13, <1>14, <1>15
  DEF ConnectionNext, Looper, LookupCompletes, LookupAgain, Identities


Believed == scheduler = "idle" <=> activeNetwork = Nothing

\* Taking a message keeps the order of the reports.
LEMMA TakeOrdered ==
    ASSUME ConnectionTypes, ReportsOrdered, NEW type, Take(type),
           UNCHANGED <<networks, owed>>
    PROVE  ReportsOrdered'
<1>n. networks \in Nat
  BY Zenon DEF ConnectionTypes
<1>1. \A i, t, a : At(i, t, a)' <=> i \in Nat /\ i # 0 /\ At(i + 1, t, a)
  BY Zenon, TakeAt
<1>2. \A t, a : Waiting(t, a)' => Waiting(t, a)
  BY Zenon, TakeWaiting
<1>3. ASSUME NEW i \in Nat, NEW j \in Nat, NEW n \in Nat
      PROVE  /\ At(i, "available", n)' /\ At(j, "available", networks)' => i <= j
             /\ At(i, "available", networks)' /\ At(j, "lost", networks)' => i < j
             /\ At(i, "lost", networks)' /\ At(j, "lost", networks)' => i = j
  <2>1. /\ \A t, a : At(i, t, a)' => At(i + 1, t, a)
        /\ \A t, a : At(j, t, a)' => At(j + 1, t, a)
    BY Zenon, <1>1
  <2>2. i + 1 \in Nat /\ j + 1 \in Nat
    OBVIOUS
  <2>3. /\ At(i + 1, "available", n) /\ At(j + 1, "available", networks) =>
               i + 1 <= j + 1
        /\ At(i + 1, "available", networks) /\ At(j + 1, "lost", networks) =>
               i + 1 < j + 1
        /\ At(i + 1, "lost", networks) /\ At(j + 1, "lost", networks) =>
               i + 1 = j + 1
    BY Zenon, <2>2 DEF ReportsOrdered
  <2> QED
    BY <2>1, <2>3
<1>4. ASSUME NEW n \in Nat, Waiting("available", n)'
      PROVE  Waiting("available", networks)'
  <2>1. PICK i \in Nat : At(i, "available", n)'
    BY Zenon, <1>4 DEF Waiting
  <2>2. i + 1 \in Nat /\ i + 1 > 1 /\ At(i + 1, "available", n)
    BY <1>1, <2>1
  <2>3. Waiting("available", networks)
    BY Zenon, <1>2, <1>4 DEF ReportsOrdered
  <2>4. PICK j \in Nat : At(j, "available", networks)
    BY Zenon, <2>3 DEF Waiting
  <2>5. i + 1 <= j
    BY Zenon, <2>2, <2>4 DEF ReportsOrdered
  <2>6. j - 1 \in Nat /\ j - 1 # 0 /\ (j - 1) + 1 = j
    BY <2>2, <2>5
  <2>7. At(j - 1, "available", networks)'
    BY Zenon, <1>1, <2>4, <2>6
  <2> QED
    BY Zenon, <2>6, <2>7 DEF Waiting
<1>5. \A n \in Nat :
          Waiting("available", n)' \/ Waiting("lost", n)' => n <= networks
  BY Zenon, <1>2 DEF ReportsOrdered
<1> QED
  BY Zenon, <1>3, <1>4, <1>5 DEF ReportsOrdered

Followed == running => ReportsOrdered /\ NetworkSound

\* A step that is not about networks keeps what is believed of them.
LEMMA StillFollowed ==
    ASSUME NetworkSound, UNCHANGED <<activeNetwork, network, networks>>,
           \A n : Waiting("available", n)' <=> Waiting("available", n),
           \A n : Waiting("lost", n)' <=> Waiting("lost", n)
    PROVE  NetworkSound'
  BY Zenon DEF NetworkSound, Nothing

\* The order of the reports, when a step does not touch them.
LEMMA StillOrdered ==
    ASSUME ReportsOrdered, UNCHANGED <<networks, owed>>,
           \A i, n : At(i, "available", n)' <=> At(i, "available", n),
           \A i, n : At(i, "lost", n)' <=> At(i, "lost", n)
    PROVE  ReportsOrdered'
<1>1. /\ \A n : Waiting("available", n)' <=> Waiting("available", n)
      /\ \A n : Waiting("lost", n)' <=> Waiting("lost", n)
  BY Zenon DEF Waiting
<1> QED
  BY Zenon, <1>1 DEF ReportsOrdered

\* Every step keeps the reports in order and the manager right about them.
LEMMA NetworksKept ==
    ASSUME ConnectionInv, ConnectionNext
    PROVE  Followed' /\ Believed'
<1>0. ConnectionTypes /\ Followed /\ Believed /\ DiscoverySound /\ AttemptSound
  BY Zenon DEF ConnectionInv, Followed, Believed
<1>t. /\ networks \in Nat /\ network \in Nat /\ activeNetwork \in Nat
      /\ Nothing = 0 /\ Nothing' = Nothing
  BY Zenon, <1>0 DEF ConnectionTypes, Nothing
<1>o. ASSUME NEW type, Take(type), type \notin {"available", "lost"},
             UNCHANGED <<running, activeNetwork, system>>
      PROVE  Followed'
  <2>1. /\ \A n : Waiting("available", n)' <=> Waiting("available", n)
        /\ \A n : Waiting("lost", n)' <=> Waiting("lost", n)
    BY Zenon, <1>0, <1>o, TakeWaiting
  <2> QED
    BY Zenon, <1>0, <1>o, <2>1, TakeOrdered, StillFollowed DEF Followed, system
<1>q. ASSUME queue' = queue, UNCHANGED <<running, activeNetwork, system>>
      PROVE  Followed'
  BY Zenon, <1>0, <1>q, QueueKept, StillOrdered, StillFollowed
  DEF Followed, system
<1>p. ASSUME NEW type, NEW about, Posted(type, about) \in Posts,
             Post(type, about), type \notin {"available", "lost"},
             UNCHANGED <<running, activeNetwork, system>>
      PROVE  Followed'
  <2>1. /\ \A i, n : At(i, "available", n)' <=> At(i, "available", n)
        /\ \A i, n : At(i, "lost", n)' <=> At(i, "lost", n)
    BY <1>0, <1>p, PostAt
  <2>2. /\ \A n : Waiting("available", n)' <=> Waiting("available", n)
        /\ \A n : Waiting("lost", n)' <=> Waiting("lost", n)
    BY Zenon, <2>1 DEF Waiting
  <2> QED
    BY Zenon, <1>0, <1>p, <2>1, <2>2, StillOrdered, StillFollowed
    DEF Followed, system
<1>b. ASSUME activeNetwork' = activeNetwork,
             scheduler' = scheduler
             \/ (scheduler' # "idle" /\ scheduler # "idle")
      PROVE  Believed'
  BY Zenon, <1>0, <1>b, <1>t DEF Believed
<1>1. CASE OnAvailable
  <2>1. /\ Take("available") /\ running /\ running' /\ activeNetwork' = About
        /\ UNCHANGED <<network, networks, owed>>
    BY Zenon, <1>1 DEF OnAvailable, system
  <2>2. About \in Nat /\ About # 0 /\ Waiting("available", About)
    BY Zenon, <1>0, <2>1, HeadAbout, TakeWaiting, Numbers
  <2>3. ReportsOrdered /\ NetworkSound
    BY Zenon, <1>0, <2>1 DEF Followed
  <2>4. Waiting("available", networks) /\ networks # 0
    BY <1>t, <2>2, <2>3 DEF ReportsOrdered
  <2>5. /\ \A n : Waiting("lost", n)' <=> Waiting("lost", n)
        /\ \/ Waiting("available", networks)'
           \/ About = networks
    BY Zenon, <1>0, <2>1, <2>4, TakeWaiting
  <2>6. NetworkSound'
    <3>1. ~Waiting("lost", networks) => network = networks
      BY Zenon, <2>3, <2>4 DEF NetworkSound
    <3>2. Waiting("lost", networks) => network = Nothing
      BY Zenon, <2>3 DEF NetworkSound
    <3>3. network \in {Nothing, networks}
      BY Zenon, <2>3 DEF NetworkSound
    <3> HIDE DEF About
    <3> QED
      BY Zenon, <1>t, <2>1, <2>4, <2>5, <3>1, <3>2, <3>3 DEF NetworkSound
  <2>7. ReportsOrdered'
    BY Zenon, <1>0, <2>1, <2>3, TakeOrdered
  <2>8. scheduler' # "idle"
    BY Zenon, <1>0, <1>1 DEF OnAvailable, OpenWindow, ConnectionTypes
  <2> QED
    BY Zenon, <1>t, <2>1, <2>2, <2>6, <2>7, <2>8 DEF Followed, Believed
<1>2. CASE OnLost
  <2>1. /\ Take("lost") /\ running /\ running'
        /\ UNCHANGED <<network, networks, owed>>
    BY Zenon, <1>2 DEF OnLost, system
  <2>2. /\ About \in Nat /\ About # 0
        /\ Waiting("lost", About) /\ At(1, "lost", About)
    BY Zenon, <1>0, <2>1, HeadAbout, TakeWaiting, TakeAt, Numbers
  <2>3. ReportsOrdered /\ NetworkSound
    BY Zenon, <1>0, <2>1 DEF Followed
  <2>4. ReportsOrdered'
    BY Zenon, <1>0, <2>1, <2>3, TakeOrdered
  <2>5. networks # 0
    BY <1>t, <2>2, <2>3 DEF ReportsOrdered
  <2>6. /\ \A n : Waiting("available", n)' <=> Waiting("available", n)
        /\ \A n : n # About => (Waiting("lost", n)' <=> Waiting("lost", n))
    BY Zenon, <1>0, <2>1, TakeWaiting
  <2>7. CASE About = networks
    <3>1. ~Waiting("available", networks)
      <4>1. SUFFICES ASSUME NEW i \in Nat, At(i, "available", networks)
                     PROVE  FALSE
        BY Zenon DEF Waiting
      <4>2. i < 1
        BY Zenon, <2>2, <2>3, <2>7, <4>1 DEF ReportsOrdered
      <4>3. i >= 1
        BY Zenon, <1>0, <2>1, <4>1, TakeAt
      <4> QED
        BY <4>2, <4>3
    <3>2. ~Waiting("lost", networks)'
      <4>1. SUFFICES ASSUME NEW i \in Nat, At(i, "lost", networks)'
                     PROVE  FALSE
        BY Zenon, <2>1 DEF Waiting
      <4>2. i # 0 /\ At(i + 1, "lost", networks) /\ i + 1 \in Nat
        BY Zenon, <1>0, <2>1, <4>1, TakeAt
      <4>3. i + 1 = 1
        BY Zenon, <2>2, <2>3, <2>7, <4>2 DEF ReportsOrdered
      <4> QED
        BY <4>2, <4>3
    <3>3. activeNetwork = networks /\ network = Nothing
      BY Zenon, <2>2, <2>3, <2>5, <2>7, <3>1 DEF NetworkSound
    <3>4. scheduler # "idle"
      BY Zenon, <1>0, <1>t, <2>5, <3>3 DEF Believed
    <3>5. activeNetwork' = Nothing /\ scheduler' = "idle"
      BY Zenon, <1>2, <2>7, <3>3, <3>4 DEF OnLost, GoTo
    <3>6. NetworkSound'
      BY Zenon, <1>t, <2>1, <2>6, <3>1, <3>2, <3>3, <3>5 DEF NetworkSound
    <3> QED
      BY Zenon, <1>t, <2>1, <2>4, <3>5, <3>6 DEF Followed, Believed
  <2>8. CASE About # networks
    <3>1. Waiting("lost", networks)' <=> Waiting("lost", networks)
      BY Zenon, <2>1, <2>6, <2>8
    <3>2. CASE About # activeNetwork
      <4>1. activeNetwork' = activeNetwork /\ scheduler' = scheduler
        BY Zenon, <1>2, <3>2 DEF OnLost
      <4>2. NetworkSound'
        BY Zenon, <1>t, <2>1, <2>3, <2>6, <3>1, <4>1 DEF NetworkSound
      <4> QED
        BY Zenon, <1>b, <2>1, <2>4, <4>1, <4>2 DEF Followed
    <3>3. CASE About = activeNetwork
      <4>1. scheduler # "idle"
        BY Zenon, <1>0, <1>t, <2>2, <3>3 DEF Believed
      <4>2. activeNetwork' = Nothing /\ scheduler' = "idle"
        BY Zenon, <1>2, <3>3, <4>1 DEF OnLost, GoTo
      <4>3. Waiting("available", networks)
        BY Zenon, <1>t, <2>2, <2>3, <2>5, <2>8, <3>3 DEF NetworkSound
      <4>4. NetworkSound'
        BY Zenon, <1>t, <2>1, <2>3, <2>5, <2>6, <3>1, <4>2, <4>3
        DEF NetworkSound
      <4> QED
        BY Zenon, <1>t, <2>1, <2>4, <4>2, <4>4 DEF Followed, Believed
    <3> QED
      BY Zenon, <3>2, <3>3
  <2> QED
    BY Zenon, <2>7, <2>8
<1>3. CASE OnDiscovered
  BY Zenon, <1>3, <1>o, <1>b DEF OnDiscovered
<1>4. CASE OnOpen
  <2>1. Followed'
    BY Zenon, <1>4, <1>o DEF OnOpen
  <2>2. CASE webSocket # About
    BY Zenon, <1>4, <1>b, <2>1, <2>2 DEF OnOpen
  <2>3. CASE webSocket = About
    <3>1. webSocket # Nothing
      BY Zenon, <1>0, <1>4, <2>3, HeadAbout, Numbers DEF Nothing, OnOpen
    <3>2. scheduler # "idle" /\ scheduler' = "connected"
          /\ activeNetwork' = activeNetwork
      BY Zenon, <1>0, <1>4, <2>3, <3>1 DEF AttemptSound, OnOpen
    <3> QED
      BY Zenon, <1>b, <2>1, <3>2
  <2> QED
    BY Zenon, <2>2, <2>3
<1>5. CASE OnSocketGone
  <2>1. Followed' /\ activeNetwork' = activeNetwork
    BY Zenon, <1>5, <1>o DEF OnSocketGone
  <2>2. CASE webSocket # About
    BY Zenon, <1>5, <1>b, <2>1, <2>2 DEF OnSocketGone
  <2>3. CASE webSocket = About
    <3>1. webSocket # Nothing
      BY Zenon, <1>0, <1>5, <2>3, HeadAbout, Numbers DEF Nothing, OnSocketGone
    <3>2. scheduler \in {"window", "connected"} /\ SocketDisconnected
      BY Zenon, <1>0, <1>5, <2>3, <3>1 DEF AttemptSound, OnSocketGone
    <3>3. scheduler' # "idle" /\ scheduler # "idle"
      BY Zenon, <3>2 DEF SocketDisconnected, OpenWindow
    <3> QED
      BY Zenon, <1>b, <2>1, <3>3
  <2> QED
    BY Zenon, <2>2, <2>3
<1>6. CASE OnIdentity
  BY Zenon, <1>6, <1>o, <1>b DEF OnIdentity
<1>7. CASE OnWindowExpired
  <2>1. scheduler = "window"
    BY Zenon, <1>0, <1>7 DEF AttemptSound, OnWindowExpired
  <2> QED
    BY Zenon, <1>7, <1>q, <1>b, <2>1 DEF OnWindowExpired, GoTo
<1>8. CASE OnRetryElapsed
  BY Zenon, <1>8, <1>q, <1>b DEF OnRetryElapsed
<1>9. CASE Disconnect
  BY Zenon, <1>9, <1>b DEF Disconnect, Followed
<1>10. CASE Deadline
  BY Zenon, <1>10, <1>q, <1>b DEF Deadline
<1>11. CASE NetworkUp
  <2>1. /\ running /\ running' /\ networks' = networks + 1
        /\ network' = networks + 1 /\ owed' = owed \cup ({network} \ {Nothing})
        /\ Post("available", networks + 1)
        /\ UNCHANGED <<activeNetwork, scheduler>>
    BY Zenon, <1>11 DEF NetworkUp
  <2>2. networks + 1 \in Networks /\ networks + 1 \in Nat /\ networks + 1 # 0
    BY <1>0, <1>11, BoundsAssumption DEF NetworkUp, ConnectionTypes, Networks
  <2>3. ReportsOrdered /\ NetworkSound
    BY Zenon, <1>0, <2>1 DEF Followed
  <2>4. Posted("available", networks + 1) \in Posts
    BY Zenon, <2>2, PostsTyped
  <2>5. /\ Len(queue) \in Nat
        /\ \A i, t, a : At(i, t, a)' <=>
               \/ At(i, t, a)
               \/ i = Len(queue) + 1 /\ t = "available" /\ a = networks + 1
        /\ \A i, t, a : At(i, t, a) => i \in Nat /\ i <= Len(queue)
    BY Zenon, <1>0, <2>1, <2>4, PostAt
  <2>6. \A t, a : Waiting(t, a)' <=>
            Waiting(t, a) \/ (t = "available" /\ a = networks + 1)
    BY Zenon, <1>0, <2>1, <2>4, PostWaiting
  <2>7. \A n \in Nat :
            Waiting("available", n) \/ Waiting("lost", n) => n # networks + 1
    BY <1>t, <2>3 DEF ReportsOrdered
  <2>8. \A i : ~At(i, "available", networks + 1)
               /\ ~At(i, "lost", networks + 1)
    BY Zenon, <2>2, <2>5, <2>7 DEF Waiting
  <2>9. ReportsOrdered'
    <3>1. \A n \in owed' : n < networks'
      BY <1>0, <1>t, <2>1, <2>3
      DEF ReportsOrdered, NetworkSound, ConnectionTypes
    <3>2. \A n \in Nat :
              Waiting("available", n)' \/ Waiting("lost", n)' => n <= networks'
      BY <1>t, <2>1, <2>3, <2>6 DEF ReportsOrdered
    <3>3. \A i, j, n \in Nat :
              At(i, "available", n)' /\ At(j, "available", networks)' => i <= j
      BY <2>1, <2>5, <2>8
    <3>4. \A i : ~At(i, "lost", networks)'
      BY <2>1, <2>5, <2>8
    <3>5. Waiting("available", networks)'
      BY Zenon, <2>1, <2>6
    <3> QED
      BY Zenon, <3>1, <3>2, <3>3, <3>4, <3>5 DEF ReportsOrdered
  <2>10. NetworkSound'
    BY Zenon, <1>t, <2>1, <2>2, <2>6, <2>7 DEF NetworkSound
  <2> QED
    BY Zenon, <1>b, <2>1, <2>9, <2>10 DEF Followed
<1>12. ASSUME NEW n \in Networks, NetworkLost(n) PROVE Followed' /\ Believed'
  <2>1. /\ running /\ running' /\ networks' = networks
        /\ n \in owed \cup ({network} \ {Nothing}) /\ owed' = owed \ {n}
        /\ network' = IF n = network THEN Nothing ELSE network
        /\ Post("lost", n) /\ UNCHANGED <<activeNetwork, scheduler>>
    BY Zenon, <1>12 DEF NetworkLost
  <2>2. n \in Nat /\ n # 0
    BY Zenon, Numbers
  <2>3. ReportsOrdered /\ NetworkSound
    BY Zenon, <1>0, <2>1 DEF Followed
  <2>4. /\ Len(queue) \in Nat
        /\ \A i, t, a : At(i, t, a)' <=>
               \/ At(i, t, a)
               \/ i = Len(queue) + 1 /\ t = "lost" /\ a = n
        /\ \A i, t, a : At(i, t, a) => i \in Nat /\ i <= Len(queue)
    BY <1>0, <2>1, PostsTyped, PostAt
  <2>5. \A t, a : Waiting(t, a)' <=> Waiting(t, a) \/ (t = "lost" /\ a = n)
    BY Zenon, <1>0, <2>1, PostsTyped, PostWaiting
  <2>6. network \in {0, networks} /\ (\A m \in owed : m < networks /\ m \in Nat)
    BY Zenon, <1>0, <1>t, <2>3
    DEF ReportsOrdered, NetworkSound, ConnectionTypes
  <2>7. n = networks => network = networks
    BY <1>t, <2>1, <2>6
  <2>8. n # networks => n < networks /\ n # network
    BY Zenon, <1>t, <2>1, <2>2, <2>6
  <2>9. n = networks => ~Waiting("lost", networks)
    BY Zenon, <1>t, <2>2, <2>3, <2>7 DEF NetworkSound
  <2>10. n = networks => \A i : ~At(i, "lost", networks)
    BY Zenon, <2>4, <2>9 DEF Waiting
  <2>11. ReportsOrdered'
    <3>1. \A m \in owed' : m < networks'
      BY Zenon, <2>1, <2>6
    <3>2. \A m \in Nat :
              Waiting("available", m)' \/ Waiting("lost", m)' => m <= networks'
      BY <1>t, <2>1, <2>3, <2>5, <2>8 DEF ReportsOrdered
    <3>3. \A i, a : At(i, "available", a)' <=> At(i, "available", a)
      BY <2>4
    <3>4. \A i, j \in Nat :
              At(i, "available", networks)' /\ At(j, "lost", networks)' => i < j
      BY <2>1, <2>3, <2>4 DEF ReportsOrdered
    <3>5. \A i, j \in Nat :
              At(i, "lost", networks)' /\ At(j, "lost", networks)' => i = j
      BY <2>1, <2>3, <2>4, <2>10 DEF ReportsOrdered
    <3>6. \A a : Waiting("available", a)' <=> Waiting("available", a)
      BY Zenon, <2>5
    <3> QED
      BY Zenon, <2>1, <2>3, <3>1, <3>2, <3>3, <3>4, <3>5, <3>6
      DEF ReportsOrdered
  <2>12. NetworkSound'
    <3>1. CASE n = networks
      BY Zenon, <1>t, <2>1, <2>2, <2>3, <2>5, <2>7, <2>9, <3>1 DEF NetworkSound
    <3>2. CASE n # networks
      BY Zenon, <1>t, <2>1, <2>3, <2>5, <2>8, <3>2 DEF NetworkSound
    <3> QED
      BY Zenon, <3>1, <3>2
  <2> QED
    BY Zenon, <1>b, <2>1, <2>11, <2>12 DEF Followed
<1>13. ASSUME NEW g \in searching, Discovered(g) PROVE Followed' /\ Believed'
  <2>1. Posted("discovered", g) \in Posts
    BY Zenon, <1>0, PostsTyped DEF ConnectionTypes
  <2> QED
    BY Zenon, <1>13, <1>p, <1>b, <2>1 DEF Discovered
<1>14. ASSUME NEW s \in SocketIds, Opened(s) \/ Dies(s)
       PROVE  Followed' /\ Believed'
  BY Zenon, <1>14, <1>p, <1>b, PostsTyped DEF Opened, Dies
<1>15. ASSUME NEW id \in Identities, Publish(id) PROVE Followed' /\ Believed'
  BY Zenon, <1>15, <1>q, <1>p, <1>b, PostsTyped DEF Publish
<1> QED
  BY Zenon, <1>1, <1>2, <1>3, <1>4, <1>5, <1>6, <1>7, <1>8, <1>9, <1>10, <1>11,
     <1>12, <1>13, <1>14, <1>15
  DEF ConnectionNext, Looper, LookupCompletes, LookupAgain, Identities


\* Every step keeps an identity that is ready from being missed.
LEMMA IdentityStays ==
    ASSUME ConnectionInv, ConnectionNext
    PROVE  IdentityKept'
<1>0. ConnectionTypes /\ SocketsSound /\ AttemptSound /\ IdentityKept
  BY Zenon DEF ConnectionInv
<1>t. Nothing' = Nothing /\ Unregistered.socket = Nothing
  BY Zenon DEF Nothing, Unregistered
<1>r. ASSUME registration'.socket = Nothing PROVE IdentityKept'
  BY Zenon, <1>r, <1>t DEF IdentityKept
<1>k. ASSUME UNCHANGED <<registration, conn, identity>>,
             Waiting("identity", "ready") => Waiting("identity", "ready")'
      PROVE  IdentityKept'
  BY Zenon, <1>0, <1>k, <1>t DEF IdentityKept
<1>a. ASSUME NEW type, Take(type), type # "identity"
      PROVE  Waiting("identity", "ready") => Waiting("identity", "ready")'
  BY Zenon, <1>0, <1>a, TakeWaiting
<1>p. ASSUME NEW type, NEW about, Posted(type, about) \in Posts,
             Post(type, about)
      PROVE  Waiting("identity", "ready") => Waiting("identity", "ready")'
  BY Zenon, <1>0, <1>p, PostWaiting
<1>w. ASSUME webSocket = Nothing PROVE registration.socket = Nothing
  BY Zenon, <1>0, <1>w, NoSocket
<1>1. CASE OnAvailable
  <2>1. CASE scheduler \in {"idle", "silent"}
    <3>1. webSocket = Nothing
      BY Zenon, <1>0, <2>1 DEF AttemptSound
    <3> QED
      BY Zenon, <1>1, <1>r, <1>w, <2>1, <3>1 DEF OnAvailable
  <2>2. CASE scheduler = "window"
    BY Zenon, <1>1, <1>r, <2>2, Abandoned DEF OnAvailable
  <2>3. CASE scheduler = "connected"
    BY Zenon, <1>1, <1>a, <1>k, <2>3 DEF OnAvailable, sockets
  <2> QED
    BY Zenon, <1>0, <2>1, <2>2, <2>3 DEF ConnectionTypes
<1>2. CASE OnLost
  <2>1. CASE GoTo("idle")
    BY Zenon, <1>r, <2>1, Abandoned DEF GoTo
  <2>2. CASE UNCHANGED <<sockets, registration>>
    BY Zenon, <1>2, <1>a, <1>k, <2>2 DEF OnLost, sockets
  <2> QED
    BY Zenon, <1>2, <2>1, <2>2 DEF OnLost
<1>3. CASE OnDiscovered
  <2>1. CASE running /\ About = generation /\ scheduler = "window"
    <3>1. webSocket = Nothing
      BY Zenon, <1>3, <2>1, AnswerWanted
    <3> QED
      BY Zenon, <1>3, <1>r, <1>w, <3>1 DEF OnDiscovered
  <2>2. CASE ~(running /\ About = generation /\ scheduler = "window")
    BY Zenon, <1>3, <1>a, <1>k, <2>2 DEF OnDiscovered
  <2> QED
    BY Zenon, <2>1, <2>2
<1>4. CASE OnOpen
  <2>1. CASE webSocket # About
    BY Zenon, <1>4, <1>a, <1>k, <2>1 DEF OnOpen, sockets
  <2>2. CASE webSocket = About
    <3>1. About \notin cancelled
      BY Zenon, <1>0, <2>2 DEF SocketsSound
    <3>2. /\ registration'.socket = About
          /\ registration'.sent = (\/ Unregistered.sent
                                   \/ identity = "ready" /\ conn[About] = "open"
                                      /\ About \notin cancelled)
      BY Zenon, <1>4, <2>2 DEF OnOpen, sendRegistration, Unregistered
    <3>3. UNCHANGED <<conn, identity>>
      BY Zenon, <1>4 DEF OnOpen, sockets
    <3> HIDE DEF About
    <3> QED
      BY Zenon, <3>1, <3>2, <3>3 DEF IdentityKept
  <2> QED
    BY Zenon, <2>1, <2>2
<1>5. CASE OnSocketGone
  <2>1. CASE webSocket # About
    BY Zenon, <1>5, <1>a, <1>k, <2>1 DEF OnSocketGone
  <2>2. CASE webSocket = About
    BY Zenon, <1>5, <1>r, <1>t, <2>2 DEF OnSocketGone
  <2> QED
    BY Zenon, <2>1, <2>2
<1>6. CASE OnIdentity
  <2>1. Take("identity") /\ UNCHANGED <<conn, identity>>
    BY Zenon, <1>6 DEF OnIdentity, sockets
  <2>2. CASE registration.socket = Nothing
    BY Zenon, <1>6, <1>r, <2>2 DEF OnIdentity
  <2>3. CASE registration.socket # Nothing
    <3>1. registration.socket = webSocket /\ webSocket # Nothing
      BY Zenon, <1>0, <2>3 DEF SocketsSound
    <3>2. running /\ webSocket \notin cancelled
      BY Zenon, <1>0, <3>1 DEF AttemptSound, SocketsSound
    <3>3. /\ registration'.socket = registration.socket
          /\ registration'.sent = (\/ registration.sent
                                   \/ About = "ready" /\ conn[webSocket] = "open"
                                      /\ webSocket \notin cancelled)
      BY Zenon, <1>0, <1>6, <2>3, <3>2
      DEF OnIdentity, sendRegistration, ConnectionTypes
    <3>4. CASE About = "ready"
      BY Zenon, <2>1, <3>1, <3>2, <3>3, <3>4 DEF IdentityKept
    <3>5. CASE About # "ready"
      <4>1. Waiting("identity", "ready") => Waiting("identity", "ready")'
        BY Zenon, <1>0, <2>1, <3>5, TakeWaiting
      <4> QED
        BY Zenon, <1>0, <1>t, <2>1, <3>3, <4>1 DEF IdentityKept
    <3> QED
      BY Zenon, <3>4, <3>5
  <2> QED
    BY Zenon, <2>2, <2>3
<1>7. CASE OnWindowExpired
  BY Zenon, <1>7, <1>r, Abandoned DEF OnWindowExpired, GoTo
<1>8. CASE OnRetryElapsed
  <2>1. webSocket = Nothing
    BY Zenon, <1>0, <1>8 DEF OnRetryElapsed, AttemptSound
  <2> QED
    BY Zenon, <1>8, <1>r, <1>w, <2>1 DEF OnRetryElapsed
<1>9. CASE Disconnect
  BY Zenon, <1>9, <1>r, Abandoned DEF Disconnect
<1>10. CASE Deadline
  BY Zenon, <1>10, <1>k, QueueKept DEF Deadline, sockets
<1>11. CASE NetworkUp
  <2>1. networks + 1 \in Networks
    BY <1>0, <1>11, BoundsAssumption DEF NetworkUp, ConnectionTypes, Networks
  <2> QED
    BY Zenon, <1>11, <1>p, <1>k, <2>1, PostsTyped DEF NetworkUp, sockets
<1>12. ASSUME NEW n \in Networks, NetworkLost(n) PROVE IdentityKept'
  BY Zenon, <1>12, <1>p, <1>k, PostsTyped DEF NetworkLost, sockets
<1>13. ASSUME NEW g \in searching, Discovered(g) PROVE IdentityKept'
  <2>1. Posted("discovered", g) \in Posts
    BY Zenon, <1>0, PostsTyped DEF ConnectionTypes
  <2> QED
    BY Zenon, <1>13, <1>p, <1>k, <2>1 DEF Discovered, sockets
<1>14. ASSUME NEW s \in SocketIds, Opened(s) \/ Dies(s) PROVE IdentityKept'
  <2>1. /\ UNCHANGED <<registration, identity>>
        /\ Waiting("identity", "ready") => Waiting("identity", "ready")'
    BY Zenon, <1>14, <1>p, PostsTyped DEF Opened, Dies
  <2>2. \A r \in SocketIds : conn'[r] = "open" => conn[r] = "open" \/ r = s
    BY Zenon, <1>0, <1>14 DEF Opened, Dies, ConnectionTypes
  <2>3. conn'[s] = "open" => conn[s] = "connecting"
    BY Zenon, <1>0, <1>14 DEF Opened, Dies, ConnectionTypes
  <2>4. registration.socket # Nothing =>
            /\ registration.socket \in SocketIds
            /\ conn[registration.socket] \in {"open", "dead"}
    BY Zenon, <1>0 DEF SocketsSound
  <2>5. registration.socket # Nothing /\ conn'[registration.socket] = "open"
        => conn[registration.socket] = "open"
    BY Zenon, <2>2, <2>3, <2>4
  <2> QED
    BY Zenon, <1>0, <1>t, <2>1, <2>5 DEF IdentityKept
<1>15. ASSUME NEW id \in Identities, Publish(id) PROVE IdentityKept'
  <2>1. identity' = id /\ UNCHANGED <<registration, conn>>
    BY Zenon, <1>15 DEF Publish, sockets
  <2>2. CASE registration.socket = Nothing
    BY Zenon, <1>r, <2>1, <2>2
  <2>3. CASE registration.socket # Nothing
    <3>1. running
      BY Zenon, <1>0, <2>3 DEF SocketsSound, AttemptSound
    <3>2. \A a : Waiting("identity", a)' <=> Waiting("identity", a) \/ a = id
      BY Zenon, <1>0, <1>15, <3>1, PostsTyped, PostWaiting DEF Publish
    <3> QED
      BY Zenon, <2>1, <3>2 DEF IdentityKept
  <2> QED
    BY Zenon, <2>2, <2>3
<1> QED
  BY Zenon, <1>1, <1>2, <1>3, <1>4, <1>5, <1>6, <1>7, <1>8, <1>9, <1>10, <1>11,
     <1>12, <1>13, <1>14, <1>15
  DEF ConnectionNext, Looper, LookupCompletes, LookupAgain, Identities

\* The manager starts without network, socket and timers.
LEMMA ConnectionStarts == ConnectionInit => ConnectionInv
<1> SUFFICES ASSUME ConnectionInit PROVE ConnectionInv
  BY Zenon
<1>1. queue \in Seq(Posts) /\ identity \in Identities
  <2>1. identity \in Identities /\ Posted("identity", identity) \in Posts
    BY Zenon, PostsTyped DEF ConnectionInit, Identities
  <2> QED
    BY <2>1 DEF ConnectionInit, Posted
<1>2. \A i, t, a : At(i, t, a) => t = "identity"
  BY DEF At, ConnectionInit
<1>3. \A t, a : Waiting(t, a) => t = "identity"
  BY Zenon, <1>2 DEF Waiting
<1>4. ConnectionTypes
  BY Zenon, <1>1 DEF ConnectionInit, ConnectionTypes, Unregistered, Nothing
<1>5. SocketsSound /\ IdentityKept
  BY <1>3 DEF ConnectionInit, SocketsSound, IdentityKept, Unregistered, Nothing
<1>6. DiscoverySound /\ AttemptSound
  BY Zenon, <1>2, <1>3
  DEF ConnectionInit, DiscoverySound, AttemptSound, AnswersOnce, Sought,
      Nothing
<1>7. ReportsOrdered /\ NetworkSound
  BY Zenon, <1>2, <1>3
  DEF ConnectionInit, ReportsOrdered, NetworkSound, Nothing
<1> QED
  BY Zenon, <1>4, <1>5, <1>6, <1>7 DEF ConnectionInv, ConnectionInit

\* The connection's inductive invariant holds in every reachable state:
\* whatever order networks come and go, windows expire, sockets die and late
\* answers are handled in.
THEOREM ConnectionInvariance == ConnectionSpec => []ConnectionInv
<1>1. ConnectionInv /\ [ConnectionNext]_connectionVars => ConnectionInv'
  <2> SUFFICES ASSUME ConnectionInv, [ConnectionNext]_connectionVars
               PROVE  ConnectionInv'
    BY Zenon
  <2>1. CASE ConnectionNext
    <3>1. ConnectionTypes' /\ SocketsSound' /\ Attempts'
      BY Zenon, <2>1, ConnectionTyped, SocketsKept, AttemptsKept
      DEF ConnectionInv
    <3>2. Followed' /\ Believed' /\ IdentityKept'
      BY Zenon, <2>1, NetworksKept, IdentityStays
    <3> QED
      BY Zenon, <3>1, <3>2 DEF ConnectionInv, Attempts, Followed, Believed
  <2>2. CASE UNCHANGED connectionVars
    <3>1. /\ UNCHANGED <<running, queue, scheduler, retry, expiry, target,
                         generation, searching, registration, activeNetwork>>
          /\ UNCHANGED <<identity, webSocket, conn, cancelled, made, network,
                         networks, owed>>
      BY Zenon, <2>2 DEF connectionVars, timers, attempt, sockets, system
    <3>2. /\ \A i, t, a : At(i, t, a)' <=> At(i, t, a)
          /\ \A t, a : Waiting(t, a)' <=> Waiting(t, a)
      BY Zenon, <3>1, QueueKept
    <3>3. ConnectionTypes'
      BY Zenon, <3>1 DEF ConnectionInv, ConnectionTypes
    <3>4. SocketsSound'
      BY Zenon, <3>1, <3>2, StillSockets DEF ConnectionInv
    <3>5. Attempts'
      <4>1. AnswersOnce'
        BY Zenon, <3>2 DEF ConnectionInv, DiscoverySound, AnswersOnce
      <4> QED
        BY Zenon, <3>1, <3>2, <4>1, StillAttempts
        DEF ConnectionInv, Attempts, AttemptSound
    <3>6. Followed'
      BY Zenon, <3>1, <3>2, StillOrdered, StillFollowed
      DEF ConnectionInv, Followed
    <3>7. Believed' /\ IdentityKept'
      BY Zenon, <3>1, <3>2 DEF ConnectionInv, Believed, IdentityKept, Nothing
    <3> QED
      BY Zenon, <3>3, <3>4, <3>5, <3>6, <3>7
      DEF ConnectionInv, Attempts, Followed, Believed
  <2> QED
    BY Zenon, <2>1, <2>2
<1> QED
  BY <1>1, ConnectionStarts, PTL DEF ConnectionSpec

\* What waits, as the properties say it.
LEMMA WaitingIsQueued ==
    ASSUME ConnectionTypes, NEW types
    PROVE  /\ \A t \in types : \A a :
                  Waiting(t, a) => Posted(t, a) \in Queued(types)
           /\ \A m \in Queued(types) : m.type \in types /\ Waiting(m.type, m.about)
<1>1. \A i \in 1 .. Len(queue) : queue[i] \in Posts
  BY DEF ConnectionTypes
<1>2. \A m \in Posts : m = [type |-> m.type, about |-> m.about]
  BY DEF Posts
<1>3. Len(queue) \in Nat
  BY DEF ConnectionTypes
<1> QED
  BY <1>1, <1>2, <1>3 DEF Waiting, At, Queued, Posted

\* In every reachable state there is one attempt to connect at a time: no
\* socket stays open behind the current one, and an open window has exactly one
\* of a discovery, a retry timer and a socket, and its own end
\* (ConnectionScheduler.kt, WebSocketManager.cancelAttempt and onSocketGone).
THEOREM SingleAttempt == ConnectionSpec => []OneAttempt
<1>1. ConnectionInv => OneAttempt
  <2> SUFFICES ASSUME ConnectionInv PROVE OneAttempt
    BY Zenon
  <2>1. ConnectionTypes /\ AttemptSound /\ DiscoverySound
    BY Zenon DEF ConnectionInv
  <2>2. Sought => \/ generation \in searching
                  \/ \E m \in Queued({"discovered"}) : m.about = generation
    <3>1. Waiting("discovered", generation) =>
              Posted("discovered", generation) \in Queued({"discovered"})
      BY Zenon, <2>1, WaitingIsQueued
    <3> QED
      BY Zenon, <3>1 DEF Sought, Posted
  <2>3. Searching => Sought
    <3>1. \A m \in Queued({"discovered"}) : Waiting("discovered", m.about)
      BY <2>1, WaitingIsQueued
    <3> QED
      BY Zenon, <3>1 DEF Searching, Sought
  <2>4. scheduler = "window" /\ Sought => Searching
    BY Zenon, <2>2 DEF Searching
  <2> QED
    BY Zenon, <2>1, <2>3, <2>4 DEF AttemptSound, DiscoverySound, OneAttempt
<1> QED
  BY <1>1, ConnectionInvariance, PTL

\* In every reachable state in which all reports are handled the manager
\* believes in the system's network, and is idle only without one, however
\* late the loss of a replaced network is reported
\* (WebSocketManager.networkCallback).
THEOREM NetworkFollowed == ConnectionSpec => []NetworkIsFollowed
<1>1. ConnectionInv => NetworkIsFollowed
  <2> SUFFICES ASSUME ConnectionInv, running,
                      Queued({"available", "lost"}) = {}
               PROVE  activeNetwork = network
                      /\ (scheduler = "idle" <=> network = Nothing)
    BY Zenon DEF NetworkIsFollowed
  <2>1. ConnectionTypes /\ NetworkSound
        /\ (scheduler = "idle" <=> activeNetwork = Nothing)
    BY Zenon DEF ConnectionInv
  <2>2. ~Waiting("available", networks) /\ ~Waiting("lost", networks)
    BY Zenon, <2>1, WaitingIsQueued
  <2>3. activeNetwork = network
    BY Zenon, <2>1, <2>2 DEF NetworkSound, Nothing
  <2> QED
    BY Zenon, <2>1, <2>3
<1> QED
  BY <1>1, ConnectionInvariance, PTL

\* In every reachable state an identity that is ready has been sent on the
\* open socket or is still posted to it, whichever of the socket's opening and
\* the identity's lookup comes first (ConnectionRegistration.kt and
\* WebSocketManager.identityListener).
THEOREM IdentityNotMissed == ConnectionSpec => []IdentityIsSent
<1>1. ConnectionInv => IdentityIsSent
  BY Zenon, WaitingIsQueued DEF ConnectionInv, IdentityKept, IdentityIsSent
<1> QED
  BY <1>1, ConnectionInvariance, PTL

=============================================================================
