---------------------------- MODULE Publication ----------------------------
(***************************************************************************)
(* How the browser console follows the push jobs: the coalescing           *)
(* publication worker of push_runtime.py, the fan-out and the admin        *)
(* WebSocket handler of server.py, and the console's own merge of the      *)
(* initial snapshot with the updates (static/push-jobs-v1.js).  A job's    *)
(* snapshot is its revision; revision 0 is a job that does not exist yet.  *)
(***************************************************************************)
EXTENDS Integers, Sequences, FiniteSets

CONSTANTS
    Jobs,
    Consoles,       \* browser pages
    MaxRevision,    \* bound on the revisions of a job
    MaxSockets,     \* bound on the connections of a page
    MaxRestarts     \* bound on the server's restarts

ASSUME BoundsAssumption ==
    MaxRevision \in Nat /\ MaxSockets \in Nat \ {0} /\ MaxRestarts \in Nat

Sockets == Consoles \X (1 .. MaxSockets)
Revisions == [Jobs -> Nat]
Nothing == [j \in Jobs |-> 0]

VARIABLES
    revision,       \* the committed revision of each job
    claimed,        \* jobs that claim_next revised and a dispatch task owns
    committed,      \* committed snapshots whose publish() is still to come
    published,      \* publication_revisions
    pending,        \* pending_publications, 0 for none
    wake,           \* publication_wake
    awake,          \* the worker is in its inner loop
    worker,         \* the update being fanned out, its sockets still to go
    admins,         \* admin_connections
    handler,        \* where each admin_ws_handler is
    read,           \* the snapshot each handler has read from the store
    channel,        \* the frames on their way to the browser
    page,           \* each page's latest socket, 0 before the first
    open,           \* the pages whose latest socket is still open
    awaiting,       \* awaitingInitialSnapshot
    buffered,       \* bufferedUpdates
    shown,          \* pushJobs: what the page shows
    restarts

server == <<revision, claimed, committed, published, pending, wake,
            awake, worker>>
console == <<page, open, awaiting, buffered, shown>>
vars == <<server, admins, handler, read, channel, console, restarts>>

Update(j, r) == [type |-> "update", job |-> j, revision |-> r]
Snapshot(f) == [type |-> "snapshot", jobs |-> f]
CloseFrame == [type |-> "close"]

Idle == [job |-> {}, revision |-> 0, to |-> {}]
Current(c) == <<c, page[c]>>
Connected(s) == open[s[1]] /\ s = Current(s[1])

\* A frame sent on a connection that the page has lost goes nowhere.
Enqueue(s, frame) ==
    channel' = [channel EXCEPT ![s] =
                  IF Connected(s) THEN Append(@, frame) ELSE @]

Init ==
    /\ revision = Nothing
    /\ claimed = {}
    /\ committed = {}
    /\ published = Nothing
    /\ pending = Nothing
    /\ wake = FALSE
    /\ awake = FALSE
    /\ worker = Idle
    /\ admins = {}
    /\ handler = [s \in Sockets |-> "none"]
    /\ read = [s \in Sockets |-> Nothing]
    /\ channel = [s \in Sockets |-> <<>>]
    /\ page = [c \in Consoles |-> 0]
    /\ open = [c \in Consoles |-> FALSE]
    /\ awaiting = [c \in Consoles |-> FALSE]
    /\ buffered = [c \in Consoles |-> Nothing]
    /\ shown = [c \in Consoles |-> Nothing]
    /\ restarts = 0

-----------------------------------------------------------------------------
(* The store and its callers.                                              *)

\* A mutation commits and returns its snapshot; the caller may have other
\* awaits to pass before it publishes it.  A job that a dispatch task owns
\* is always revised again by that task.
Commit(j) ==
    /\ revision[j] < MaxRevision
    /\ revision' = [revision EXCEPT ![j] = @ + 1]
    /\ committed' = committed \cup {<<j, revision[j] + 1>>}
    /\ claimed' = claimed \ {j}
    /\ UNCHANGED <<published, pending, wake, awake, worker, admins, handler,
                   read, channel, console, restarts>>

\* The scheduler's claim_next revises the job and publishes nothing.
ClaimNext(j) ==
    /\ revision[j] \in 1 .. MaxRevision - 2
    /\ j \notin claimed
    /\ revision' = [revision EXCEPT ![j] = @ + 1]
    /\ claimed' = claimed \cup {j}
    /\ UNCHANGED <<committed, published, pending, wake, awake, worker, admins,
                   handler, read, channel, console, restarts>>

\* publish: a snapshot that is not newer than the newest is dropped, and a
\* newer one replaces the one that waits.
Publish(j, r) ==
    /\ <<j, r>> \in committed
    /\ committed' = committed \ {<<j, r>>}
    /\ IF r <= published[j]
         THEN UNCHANGED <<published, pending, wake>>
         ELSE /\ published' = [published EXCEPT ![j] = r]
              /\ pending' = [pending EXCEPT ![j] = r]
              /\ wake' = TRUE
    /\ UNCHANGED <<revision, claimed, awake, worker, admins, handler, read,
                   channel, console, restarts>>

-----------------------------------------------------------------------------
(* The publication worker and _broadcast_admin_message.                    *)

Waiting == {j \in Jobs : pending[j] # 0}

\* The worker wakes, or has finished an update, and takes the next one to
\* every admin connected now.
Take(j) ==
    /\ worker = Idle
    /\ awake \/ wake
    /\ j \in Waiting
    /\ awake' = TRUE
    /\ wake' = (awake /\ wake)
    /\ pending' = [pending EXCEPT ![j] = 0]
    /\ worker' = IF admins = {} THEN Idle
                 ELSE [job |-> {j}, revision |-> pending[j], to |-> admins]
    /\ UNCHANGED <<revision, claimed, committed, published, admins, handler,
                   read, channel, console, restarts>>

\* Mutant: the wake is cleared after an update, whatever came meanwhile.
SleepClearing ==
    /\ worker = Idle
    /\ awake
    /\ awake' = FALSE
    /\ wake' = FALSE
    /\ UNCHANGED <<revision, claimed, committed, published, pending, worker,
                   admins, handler, read, channel, console, restarts>>

\* Nothing waits any more: a wake set in the meantime is spent on nothing.
Sleep ==
    /\ worker = Idle
    /\ awake
    /\ Waiting = {}
    /\ awake' = FALSE
    /\ wake' = FALSE
    /\ UNCHANGED <<revision, claimed, committed, published, pending, worker,
                   admins, handler, read, channel, console, restarts>>

\* gather ends with the last send.
Sent(s) ==
    worker' = IF worker.to = {s} THEN Idle
              ELSE [worker EXCEPT !.to = @ \ {s}]

\* send_one: a connection that has gone in the meantime is skipped.
SendOne(s) ==
    /\ s \in worker.to
    /\ Sent(s)
    /\ IF s \in admins
         THEN \E j \in worker.job : Enqueue(s, Update(j, worker.revision))
         ELSE UNCHANGED channel
    /\ UNCHANGED <<revision, claimed, committed, published, pending, wake,
                   awake, admins, handler, read, console, restarts>>

\* Mutant: the failed socket is forgotten without being closed.
GiveUpOpen(s) ==
    /\ admins' = admins \ {s}
    /\ handler' = [handler EXCEPT ![s] = "done"]
    /\ UNCHANGED channel

\* The server gives a connection up: it is discarded and closed, and its
\* handler's receive loop ends.
GiveUp(s) ==
    /\ admins' = admins \ {s}
    /\ handler' = [handler EXCEPT ![s] = "done"]
    /\ Enqueue(s, CloseFrame)

\* A page can always connect once more after a failure (a bound).
MayFail(s) == s[2] < MaxSockets

SendFailed(s) ==
    /\ s \in worker.to \cap admins
    /\ MayFail(s)
    /\ Sent(s)
    /\ GiveUp(s)
    /\ UNCHANGED <<revision, claimed, committed, published, pending, wake,
                   awake, read, console, restarts>>

-----------------------------------------------------------------------------
(* admin_ws_handler.                                                       *)

\* The handler adds the connection before it sends the first frames.
Accept(s) ==
    /\ handler[s] = "connecting"
    /\ admins' = admins \cup {s}
    /\ handler' = [handler EXCEPT ![s] = "greeting"]
    /\ UNCHANGED <<server, read, channel, console, restarts>>

\* The first __anext__: send_initial_snapshot reads the store ...
ReadSnapshot(s) ==
    /\ handler[s] = "greeting"
    /\ handler' = [handler EXCEPT ![s] = "snapshot"]
    /\ read' = [read EXCEPT ![s] = revision]
    /\ UNCHANGED <<server, admins, channel, console, restarts>>

\* ... and sends what it read, while the worker may be sending updates.
SendSnapshot(s) ==
    /\ handler[s] = "snapshot"
    /\ handler' = [handler EXCEPT ![s] = "receiving"]
    /\ Enqueue(s, Snapshot(read[s]))
    /\ read' = [read EXCEPT ![s] = Nothing]
    /\ UNCHANGED <<server, admins, console, restarts>>

\* A first frame or the snapshot cannot be sent, a direct reply fails, or
\* the browser has gone and the receive loop ends.
Serving == {"greeting", "snapshot", "receiving"}

HandlerEnds(s) ==
    /\ handler[s] \in Serving
    /\ MayFail(s) \/ ~Connected(s)
    /\ GiveUp(s)
    /\ read' = [read EXCEPT ![s] = Nothing]
    /\ UNCHANGED <<server, console, restarts>>

-----------------------------------------------------------------------------
(* The browser.                                                            *)

\* connect(), at load or three seconds after a close, through
\* PatchedWebSocket: the page keeps what it shows until the snapshot.
Connect(c) ==
    /\ ~open[c]
    /\ page[c] < MaxSockets
    /\ page' = [page EXCEPT ![c] = @ + 1]
    /\ open' = [open EXCEPT ![c] = TRUE]
    /\ awaiting' = [awaiting EXCEPT ![c] = TRUE]
    /\ buffered' = [buffered EXCEPT ![c] = Nothing]
    /\ handler' = [handler EXCEPT ![<<c, page[c] + 1>>] = "connecting"]
    /\ UNCHANGED <<server, admins, read, channel, shown, restarts>>

\* The network drops the connection under the page; the server may notice
\* late, and frames on their way are lost.
Lost(c) ==
    /\ open[c]
    /\ MayFail(Current(c))
    /\ open' = [open EXCEPT ![c] = FALSE]
    /\ channel' = [channel EXCEPT ![Current(c)] = <<>>]
    /\ handler' = [handler EXCEPT ![Current(c)] =
                     IF @ = "connecting" THEN "done" ELSE @]
    /\ UNCHANGED <<server, admins, read, page, awaiting, buffered, shown,
                   restarts>>

Newer(f, g) == [j \in Jobs |-> IF f[j] < g[j] THEN g[j] ELSE f[j]]

\* Mutant: the buffered updates are dropped.
ReplaceJobsOnly(c, jobs) ==
    /\ shown' = [shown EXCEPT ![c] = jobs]
    /\ buffered' = [buffered EXCEPT ![c] = Nothing]
    /\ awaiting' = [awaiting EXCEPT ![c] = FALSE]
    /\ UNCHANGED open

\* replaceJobs: a full replacement, merged with the buffered updates.
ReplaceJobs(c, jobs) ==
    /\ shown' = [shown EXCEPT ![c] = Newer(jobs, buffered[c])]
    /\ buffered' = [buffered EXCEPT ![c] = Nothing]
    /\ awaiting' = [awaiting EXCEPT ![c] = FALSE]
    /\ UNCHANGED open

\* bufferJob before the snapshot, applyJob after it.
BufferJob(c, j, r) ==
    /\ buffered' = [buffered EXCEPT ![c][j] = IF @ < r THEN r ELSE @]
    /\ UNCHANGED <<open, awaiting, shown>>

\* Mutant: revisions are not compared.
ApplyJobAny(c, j, r) ==
    /\ shown' = [shown EXCEPT ![c][j] = r]
    /\ UNCHANGED <<open, awaiting, buffered>>

ApplyJob(c, j, r) ==
    /\ shown' = [shown EXCEPT ![c][j] = IF @ >= r THEN @ ELSE r]
    /\ UNCHANGED <<open, awaiting, buffered>>

OnClose(c) ==
    /\ open' = [open EXCEPT ![c] = FALSE]
    /\ UNCHANGED <<awaiting, buffered, shown>>

\* observeMessage on the current socket.
Receive(c) ==
    /\ open[c]
    /\ channel[Current(c)] # <<>>
    /\ channel' = [channel EXCEPT ![Current(c)] = Tail(@)]
    /\ LET frame == Head(channel[Current(c)])
       IN  CASE frame.type = "snapshot" -> ReplaceJobs(c, frame.jobs)
             [] frame.type = "close" -> OnClose(c)
             [] frame.type = "update" /\ awaiting[c] ->
                    BufferJob(c, frame.job, frame.revision)
             [] OTHER -> ApplyJob(c, frame.job, frame.revision)
    /\ UNCHANGED <<server, admins, handler, read, page, restarts>>

-----------------------------------------------------------------------------

\* The server restarts: recovery takes claimed assignments back, which is a
\* revision of its own, and every volatile table is lost.
Restart ==
    /\ restarts < MaxRestarts
    /\ \A c \in Consoles : MayFail(Current(c))
    /\ restarts' = restarts + 1
    /\ revision' = [j \in Jobs |-> revision[j] + IF j \in claimed THEN 1 ELSE 0]
    /\ claimed' = {}
    /\ committed' = {}
    /\ published' = Nothing
    /\ pending' = Nothing
    /\ wake' = FALSE
    /\ awake' = FALSE
    /\ worker' = Idle
    /\ admins' = {}
    /\ handler' = [s \in Sockets |-> IF handler[s] = "none" THEN "none" ELSE "done"]
    /\ read' = [s \in Sockets |-> Nothing]
    /\ channel' = [s \in Sockets |->
                     IF Connected(s) /\ handler[s] # "done"
                       THEN Append(channel[s], CloseFrame) ELSE channel[s]]
    /\ UNCHANGED console

Worker ==
    \/ \E j \in Jobs : Take(j)
    \/ \E s \in Sockets : SendOne(s)
    \/ Sleep
Handler(s) == Accept(s) \/ ReadSnapshot(s) \/ SendSnapshot(s)

Next ==
    \/ \E j \in Jobs : Commit(j) \/ ClaimNext(j)
    \/ \E j \in Jobs, r \in 1 .. MaxRevision : Publish(j, r)
    \/ Worker
    \/ \E s \in Sockets : SendFailed(s) \/ Handler(s) \/ HandlerEnds(s)
    \/ \E c \in Consoles : Connect(c) \/ Lost(c) \/ Receive(c)
    \/ Restart

Spec == Init /\ [][Next]_vars

\* The event loop runs every ready task, sends are bounded by timeouts, the
\* network delivers what an open connection carries, the page reconnects
\* whenever its socket is closed, and a dispatch task always ends.
FairSpec ==
    /\ Spec
    /\ WF_vars(Worker)
    /\ \A j \in Jobs :
          /\ WF_vars(j \in claimed /\ Commit(j))
          /\ \A r \in 1 .. MaxRevision : WF_vars(Publish(j, r))
    /\ \A s \in Sockets : WF_vars(Handler(s))
    /\ \A c \in Consoles : WF_vars(Connect(c)) /\ WF_vars(Receive(c))

-----------------------------------------------------------------------------

Frames ==
    [type : {"update"}, job : Jobs, revision : Nat]
        \cup [type : {"snapshot"}, jobs : Revisions] \cup {CloseFrame}

TypeOK ==
    /\ revision \in Revisions
    /\ claimed \subseteq Jobs
    /\ committed \subseteq Jobs \X Nat
    /\ published \in Revisions
    /\ pending \in Revisions
    /\ wake \in BOOLEAN
    /\ awake \in BOOLEAN
    /\ worker \in [job : SUBSET Jobs, revision : Nat, to : SUBSET Sockets]
    /\ admins \subseteq Sockets
    /\ handler \in [Sockets -> {"none", "connecting", "done"} \cup Serving]
    /\ read \in [Sockets -> Revisions]
    /\ channel \in [Sockets -> Seq(Frames)]
    /\ page \in [Consoles -> 0 .. MaxSockets]
    /\ open \in [Consoles -> BOOLEAN]
    /\ awaiting \in [Consoles -> BOOLEAN]
    /\ buffered \in [Consoles -> Revisions]
    /\ shown \in [Consoles -> Revisions]
    /\ restarts \in 0 .. MaxRestarts

\* Something still carries the newest revision of a job to a page.
Carries(s, j) ==
    \E i \in DOMAIN channel[s] :
        LET frame == channel[s][i]
        IN  \/ frame.type = "update" /\ frame.job = j
               /\ frame.revision = revision[j]
            \/ frame.type = "snapshot" /\ frame.jobs[j] = revision[j]

OnItsWay(c, j) ==
    LET s == Current(c)
    IN  \/ <<j, revision[j]>> \in committed
        \/ pending[j] = revision[j]
        \/ j \in worker.job /\ worker.revision = revision[j] /\ s \in worker.to
        \/ handler[s] = "snapshot" /\ read[s][j] = revision[j]
        \/ Carries(s, j)
        \/ buffered[c][j] = revision[j]
        \/ shown[c][j] = revision[j]

\* No update is lost between the initial snapshot and the stream: once a
\* page's connection has read its snapshot, and until it is closed, the
\* newest revision of every job is shown or on its way, unless the job's
\* dispatch task is about to revise it again.
NothingLost ==
    \A c \in Consoles, j \in Jobs :
        /\ open[c]
        /\ handler[Current(c)] \in {"snapshot", "receiving"}
        /\ j \notin claimed
        => OnItsWay(c, j)

\* The worker never sleeps on work: while an update waits, the worker is in
\* its loop or its wake is set.
WorkerAwake == Waiting # {} => awake \/ wake

\* What a page shows of a job never goes back, neither when updates arrive
\* before the snapshot they are newer than, nor over a reconnection or a
\* restart of the server.
NeverBack ==
    [][\A c \in Consoles, j \in Jobs : shown'[c][j] >= shown[c][j]]_vars

\* Every page ends up showing the newest revision of every job, whatever
\* connections failed on the way.
Converges == <>[](\A c \in Consoles : shown[c] = revision)

=============================================================================
