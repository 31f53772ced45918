-------------------------- MODULE ClientConnection --------------------------
(***************************************************************************)
(* The client's connection to the server (WebSocketManager.kt with         *)
(* ConnectionScheduler.kt, ConnectionAttemptPolicy.kt and                  *)
(* ConnectionRegistration.kt) and the identity it registers with           *)
(* (DeviceIdentityResolver.kt).  Nearly all of it runs on the main looper: *)
(* the network callbacks, the discovery thread and OkHttp's threads only   *)
(* post to its queue, so an answer may be handled after what it answers    *)
(* was cancelled.  A message of the queue is handled in one step.  The     *)
(* acknowledgement of REGISTER, and the battery updates it starts, are     *)
(* left out.                                                               *)
(***************************************************************************)
EXTENDS Naturals, Sequences, FiniteSets

CONSTANTS
    MaxNetworks,    \* bound: default networks; a Network object is not reused
    MaxDrops,       \* bound: open connections that are lost
    MaxRetries,     \* bound: attempts a window repeats
    MaxLookups,     \* bound: identity lookups that are repeated
    MaxQueue        \* bound: messages posted and not handled

ASSUME BoundsAssumption ==
    /\ MaxNetworks \in Nat /\ MaxDrops \in Nat /\ MaxRetries \in Nat
    /\ MaxLookups \in Nat /\ MaxQueue \in Nat

\* Every socket comes from an event that is bounded.
SocketIds == 1 .. MaxNetworks + MaxDrops + MaxRetries
Networks == 1 .. MaxNetworks
Nothing == 0

VARIABLES
    running,        \* isRunning
    queue,          \* what was posted to the main looper
    scheduler,      \* ConnectionScheduler.state
    retry,          \* the retry timer is armed
    expiry,         \* the window's timer: "off", "armed" or "due"
    target,         \* ConnectionAttemptPolicy.target
    generation,     \* attemptGeneration
    searching,      \* the generations of running discovery threads
    webSocket,      \* the current socket, or Nothing
    registration,   \* ConnectionRegistration
    activeNetwork,  \* the network the manager believes in, or Nothing
    identity,       \* DeviceIdentityResolver.visibleState
    lookups,
    conn,           \* what OkHttp knows of each socket
    cancelled,      \* sockets the client has given up and OkHttp has not
    made,           \* how many sockets were created
    network,        \* the default network of the system, or Nothing
    networks,       \* how many there have been
    owed,           \* replaced networks whose loss is not reported yet
    drops, retries

timers == <<retry, expiry>>
attempt == <<target, generation, searching>>
sockets == <<webSocket, conn, cancelled, made>>
system == <<network, networks, owed>>
bounds == <<drops, retries, lookups>>
connectionVars == <<running, queue, scheduler, timers, attempt, sockets,
                    registration, activeNetwork, identity, system, bounds>>

Unregistered == [socket |-> Nothing, sent |-> FALSE]

\* connect: the listener is told the identity at once, the callback reports a
\* network as soon as there is one.
ConnectionInit ==
    /\ running = TRUE
    /\ identity \in {"resolving", "ready", "unavailable"}
    /\ queue = <<[type |-> "identity", about |-> identity]>>
    /\ scheduler = "idle" /\ retry = FALSE /\ expiry = "off"
    /\ target = "auto" /\ generation = 0 /\ searching = {}
    /\ webSocket = Nothing /\ made = 0 /\ cancelled = {}
    /\ conn = [s \in SocketIds |-> "none"]
    /\ registration = Unregistered
    /\ activeNetwork = Nothing
    /\ network = Nothing /\ networks = 0 /\ owed = {}
    /\ drops = 0 /\ retries = 0 /\ lookups = 0

Posted(type, about) == [type |-> type, about |-> about]
Post(type, about) ==
    Len(queue) < MaxQueue /\ queue' = Append(queue, Posted(type, about))
Take(type) ==
    queue # <<>> /\ Head(queue).type = type /\ queue' = Tail(queue)
About == Head(queue).about

-----------------------------------------------------------------------------
(* The actions of ConnectionScheduler, as WebSocketManager carries them    *)
(* out.                                                                    *)

CancelTimers == retry' = FALSE /\ expiry' = "off"

\* cancelAttempt without the assignment to webSocket and the generation.
Abandon ==
    /\ cancelled' = cancelled \cup
                     {s \in {webSocket} \ {Nothing} : conn[s] # "dead"}
    /\ registration' = Unregistered

\* doConnect.
doConnect ==
    /\ made' = made + 1
    /\ webSocket' = made + 1
    /\ conn' = [conn EXCEPT ![made + 1] = "connecting"]

\* startAttempt when attemptGeneration is g and there is no socket.
StartAttempt(mode, g) ==
    IF mode = "manual"
      THEN doConnect /\ generation' = g /\ UNCHANGED searching
      ELSE /\ generation' = g + 1
           /\ searching' = searching \cup {g + 1}
           /\ webSocket' = Nothing
           /\ UNCHANGED <<conn, made>>

\* openWindow: the mode is read anew from the settings.
OpenWindow(g) ==
    /\ scheduler' = "window"
    /\ retry' = FALSE /\ expiry' = "armed"
    /\ \E mode \in {"manual", "auto"} : target' = mode /\ StartAttempt(mode, g)

\* goSilent and onNetworkLost: CancelTimers and CancelAttempt.
GoTo(rest) ==
    /\ scheduler' = rest
    /\ CancelTimers
    /\ Abandon
    /\ webSocket' = Nothing
    /\ generation' = generation + 1
    /\ UNCHANGED <<target, searching, conn, made>>

-----------------------------------------------------------------------------
(* The network.                                                            *)

\* A network becomes the default; the loss of the one it replaces may be
\* reported later.
NetworkUp ==
    /\ running /\ networks < MaxNetworks
    /\ networks' = networks + 1
    /\ network' = networks + 1
    /\ owed' = owed \cup ({network} \ {Nothing})
    /\ Post("available", networks + 1)
    /\ UNCHANGED <<running, scheduler, timers, attempt, sockets, registration,
                   activeNetwork, identity, bounds>>

NetworkLost(n) ==
    /\ running
    /\ n \in owed \cup ({network} \ {Nothing})
    /\ owed' = owed \ {n}
    /\ network' = IF n = network THEN Nothing ELSE network
    /\ Post("lost", n)
    /\ UNCHANGED <<running, scheduler, timers, attempt, sockets, registration,
                   activeNetwork, identity, networks, bounds>>

\* Mutant: the new network's window leaves the old attempt alone.
OnAvailableKeeping ==
    /\ Take("available")
    /\ running
    /\ activeNetwork' = About
    /\ IF scheduler = "connected"
         THEN UNCHANGED <<scheduler, timers, attempt, sockets, registration>>
         ELSE /\ OpenWindow(generation)
              /\ UNCHANGED <<cancelled, registration>>
    /\ UNCHANGED <<running, identity, system, bounds>>

\* onAvailable and onNetworkAvailable: a new network restarts a window, and
\* leaves a connection as it is.
OnAvailable ==
    /\ Take("available")
    /\ running
    /\ activeNetwork' = About
    /\ CASE scheduler \in {"idle", "silent"} ->
              OpenWindow(generation) /\ UNCHANGED <<cancelled, registration>>
         [] scheduler = "window" -> OpenWindow(generation + 1) /\ Abandon
         [] scheduler = "connected" ->
              UNCHANGED <<scheduler, timers, attempt, sockets, registration>>
    /\ UNCHANGED <<running, identity, system, bounds>>

\* Mutant: the loss of any network counts.
OnLostAny ==
    /\ Take("lost")
    /\ running
    /\ activeNetwork' = Nothing
    /\ GoTo("idle")
    /\ UNCHANGED <<running, identity, system, bounds>>

\* onLost and onNetworkLost: only the network believed in counts.
OnLost ==
    /\ Take("lost")
    /\ running
    /\ IF About # activeNetwork
         THEN UNCHANGED <<scheduler, timers, attempt, sockets, registration,
                          activeNetwork>>
         ELSE /\ activeNetwork' = Nothing
              /\ IF scheduler = "idle"
                   THEN UNCHANGED <<scheduler, timers, attempt, sockets,
                                    registration>>
                   ELSE GoTo("idle")
    /\ UNCHANGED <<running, identity, system, bounds>>

-----------------------------------------------------------------------------
(* The window.                                                             *)

\* connectWindowMs have passed.
Deadline ==
    /\ expiry = "armed"
    /\ expiry' = "due"
    /\ UNCHANGED <<running, queue, scheduler, retry, attempt, sockets,
                   registration, activeNetwork, identity, system, bounds>>

\* Mutant: an attempt in flight is waited for.
OnWindowExpiredIdle ==
    /\ expiry = "due"
    /\ webSocket = Nothing
    /\ GoTo("silent")
    /\ UNCHANGED <<running, queue, activeNetwork, identity, system, bounds>>

OnWindowExpired ==
    /\ expiry = "due"
    /\ GoTo("silent")
    /\ UNCHANGED <<running, queue, activeNetwork, identity, system, bounds>>

OnRetryElapsed ==
    /\ retry /\ retries < MaxRetries
    /\ retries' = retries + 1
    /\ retry' = FALSE
    /\ StartAttempt(target, generation)
    /\ UNCHANGED <<running, queue, scheduler, expiry, target, cancelled,
                   registration, activeNetwork, identity, system, drops,
                   lookups>>

\* The discovery thread of generation g ends, with a server or without.
Discovered(g) ==
    /\ searching' = searching \ {g}
    /\ Post("discovered", g)
    /\ UNCHANGED <<running, scheduler, timers, target, generation, sockets,
                   registration, activeNetwork, identity, system, bounds>>

\* Its result, dropped when the attempt is no longer wanted.  Without a
\* discovered server the cached or default address is tried, so both results
\* lead to a connection.
OnDiscovered ==
    /\ Take("discovered")
    /\ IF running /\ About = generation /\ scheduler = "window"
         THEN doConnect
         ELSE UNCHANGED <<webSocket, conn, made>>
    /\ UNCHANGED <<running, scheduler, timers, attempt, cancelled,
                   registration, activeNetwork, identity, system, bounds>>

-----------------------------------------------------------------------------
(* Registration.                                                           *)

\* sendRegistration on socket s with the state r of the registration: a
\* canonical REGISTER is sent once, and its flag taken back when the send
\* fails.
sendRegistration(r, s, id) ==
    registration' =
        [r EXCEPT !.sent = \/ r.sent
                           \/ /\ id = "ready" /\ conn[s] = "open"
                              /\ s \notin cancelled]

\* OkHttp: the handshake succeeds, also while a cancel is on its way.
Opened(s) ==
    /\ conn[s] = "connecting"
    /\ conn' = [conn EXCEPT ![s] = "open"]
    /\ Post("open", s)
    /\ UNCHANGED <<running, scheduler, timers, attempt, webSocket, cancelled,
                   made, registration, activeNetwork, identity, system,
                   bounds>>

\* onOpen and onConnected.
OnOpen ==
    /\ Take("open")
    /\ IF webSocket = About
         THEN /\ scheduler' = "connected"
              /\ CancelTimers
              /\ sendRegistration([Unregistered EXCEPT !.socket = About],
                                  About, identity)
         ELSE UNCHANGED <<scheduler, timers, registration>>
    /\ UNCHANGED <<running, attempt, sockets, activeNetwork, identity, system,
                   bounds>>

-----------------------------------------------------------------------------
(* The end of a socket.                                                    *)

\* onClosed or onFailure, once per socket.
Dies(s) ==
    /\ conn[s] \in {"connecting", "open"}
    /\ LET drop == conn[s] = "open" /\ s \notin cancelled
       IN  /\ drop => drops < MaxDrops
           /\ drops' = IF drop THEN drops + 1 ELSE drops
    /\ conn' = [conn EXCEPT ![s] = "dead"]
    /\ cancelled' = cancelled \ {s}
    /\ Post("gone", s)
    /\ UNCHANGED <<running, scheduler, timers, attempt, webSocket, made,
                   registration, activeNetwork, identity, system, retries,
                   lookups>>

\* onSocketDisconnected.
SocketDisconnected ==
    CASE scheduler = "connected" -> OpenWindow(generation)
      [] scheduler = "window" /\ expiry = "due" ->
           /\ scheduler' = "silent"
           /\ CancelTimers
           /\ webSocket' = Nothing
           /\ generation' = generation + 1
           /\ UNCHANGED <<target, searching, conn, made>>
      [] scheduler = "window" /\ expiry # "due" ->
           /\ retry' = TRUE
           /\ webSocket' = Nothing
           /\ UNCHANGED <<scheduler, expiry, attempt, conn, made>>
      [] OTHER ->
           /\ webSocket' = Nothing
           /\ UNCHANGED <<scheduler, timers, attempt, conn, made>>

\* onSocketGone: a socket that was replaced changes nothing else.
OnSocketGone ==
    /\ Take("gone")
    /\ IF webSocket = About
         THEN /\ registration' = Unregistered
              /\ SocketDisconnected
         ELSE UNCHANGED <<scheduler, timers, attempt, webSocket, conn, made,
                          registration>>
    /\ UNCHANGED <<running, cancelled, activeNetwork, identity, system,
                   bounds>>

\* disconnect, when the service is destroyed.
Disconnect ==
    /\ running
    /\ running' = FALSE
    /\ queue' = <<>>
    /\ CancelTimers
    /\ Abandon
    /\ webSocket' = Nothing
    /\ UNCHANGED <<scheduler, attempt, conn, made, activeNetwork, identity,
                   system, bounds>>

-----------------------------------------------------------------------------
(* The identity.                                                           *)

Publish(id) ==
    /\ identity' = id
    /\ IF running THEN Post("identity", id) ELSE UNCHANGED queue
    /\ UNCHANGED <<running, scheduler, timers, attempt, sockets, registration,
                   activeNetwork, system, drops, retries>>

LookupCompletes ==
    /\ identity = "resolving"
    /\ \E id \in {"ready", "unavailable"} : Publish(id)
    /\ UNCHANGED lookups

\* retryAfterPermissionGranted.
LookupAgain ==
    /\ identity = "unavailable" /\ lookups < MaxLookups
    /\ lookups' = lookups + 1
    /\ Publish("resolving")

\* Mutant: a new identity is kept for the next connection.
OnIdentityLater ==
    /\ Take("identity")
    /\ UNCHANGED <<running, scheduler, timers, attempt, sockets, registration,
                   activeNetwork, identity, system, bounds>>

\* identityListener: an open socket registers with the new identity, unless
\* it has registered already.
OnIdentity ==
    /\ Take("identity")
    /\ IF running /\ registration.socket # Nothing
         THEN sendRegistration(registration, webSocket, About)
         ELSE UNCHANGED registration
    /\ UNCHANGED <<running, scheduler, timers, attempt, sockets, activeNetwork,
                   identity, system, bounds>>

-----------------------------------------------------------------------------

Looper ==
    \/ OnAvailable \/ OnLost \/ OnOpen \/ OnSocketGone \/ OnIdentity
    \/ OnDiscovered

ConnectionNext ==
    \/ Looper
    \/ OnWindowExpired \/ OnRetryElapsed \/ Disconnect
    \/ Deadline
    \/ NetworkUp \/ \E n \in Networks : NetworkLost(n)
    \/ \E g \in searching : Discovered(g)
    \/ \E s \in SocketIds : Opened(s) \/ Dies(s)
    \/ LookupCompletes \/ LookupAgain

ConnectionSpec == ConnectionInit /\ [][ConnectionNext]_connectionVars

\* The looper handles what was posted and its timers fire.
FairConnectionSpec ==
    /\ ConnectionSpec
    /\ WF_connectionVars(Looper)
    /\ WF_connectionVars(Deadline)
    /\ WF_connectionVars(OnWindowExpired)

-----------------------------------------------------------------------------

Queued(types) ==
    {queue[i] : i \in {i \in 1..Len(queue) : queue[i].type \in types}}

\* A discovery whose result will still be used.
Searching ==
    /\ scheduler = "window"
    /\ \/ generation \in searching
       \/ \E m \in Queued({"discovered"}) : m.about = generation

\* One attempt at a time, in whatever order networks change, windows expire and
\* late answers arrive: no socket is left open behind the current one, and an
\* open window has exactly one of a discovery, a retry timer and a socket, and
\* its own end.
OneAttempt ==
    /\ \A s \in SocketIds \ cancelled :
           conn[s] \in {"connecting", "open"} => webSocket = s
    /\ ~(retry /\ webSocket # Nothing)
    /\ ~(Searching /\ (retry \/ webSocket # Nothing))
    /\ running /\ scheduler = "window" =>
           expiry # "off" /\ (retry \/ webSocket # Nothing \/ Searching)

\* When the posted changes are handled the manager has the system's network,
\* although the loss of a replaced network is reported late, and is idle only
\* without one.
NetworkIsFollowed ==
    running /\ Queued({"available", "lost"}) = {} =>
        activeNetwork = network /\ (scheduler = "idle" <=> network = Nothing)

\* An identity that is ready is not missed: an open socket has sent the
\* canonical REGISTER, or the identity is still posted to it.
IdentityIsSent ==
    /\ registration.socket # Nothing /\ identity = "ready"
    /\ conn[registration.socket] = "open"
    => \/ registration.sent
       \/ Posted("identity", "ready") \in Queued({"identity"})

\* A window does not stay open: it ends with a connection, without a network
\* or in silence, once the network stops changing.
WindowEnds ==
    (running /\ scheduler = "window") ~> ~(running /\ scheduler = "window")

=============================================================================
