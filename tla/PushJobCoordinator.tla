------------------------- MODULE PushJobCoordinator -------------------------
(***************************************************************************)
(* The Push/Sync executor of the Android client: PushJobCoordinator.kt,    *)
(* PushExecutionGate.kt and PushJobStore.kt, with the callbacks of         *)
(* PushFilesWorker.kt.                                                     *)
(*                                                                         *)
(* One actor thread runs every handler, one worker thread runs executions  *)
(* and clean-ups in the order they were submitted.  The server may send    *)
(* any command, acknowledgement or reconcile request at any time, also     *)
(* twice or late; the process may die at any time; a save may fail.  A     *)
(* message that is sent may be lost, so a death between the save and the   *)
(* send of one handler is a death after the handler.                       *)
(***************************************************************************)
EXTENDS Integers, Sequences, FiniteSets, Functions

CONSTANTS
    Ids,            \* job-v1 job ids (the attempt is always 1)
    Legacy,         \* the identity of every command without a job id
    Bodies,         \* artifact, URL, destination and mode of a command
    Sockets,        \* WebSocket transports
    None,           \* Kotlin null
    Corrupt,        \* a state file that does not parse
    MaxReceipts,    \* length limit of the outbox and of the receipts
    SavesMayFail,   \* whether PushJobStore.save may throw
    FilesMayRot,    \* whether the state file may become unreadable
    MaxStarts, MaxCrashes, MaxAged
        \* bounds on the executions of one job, on process deaths and on the
        \* number of jobs whose receipts grow too old

ASSUME ReceiptsAssumption == MaxReceipts \in Nat \ {0}
ASSUME IdentityAssumption == Legacy \notin Ids

VARIABLES
    up,         \* whether the process is alive
    disk,       \* state.json
    state,      \* state, and visibleState that registrationFields reads
    durable,    \* durabilityAvailable
    gate,       \* PushExecutionGate.active
    socket,     \* transportToken
    tasks,      \* queue of the worker thread
    stage,      \* progress of the execution at its head
    inbox,      \* callbacks the worker posted to the actor
    sent,       \* messages the last step handed to the transport
    starts,     \* how often an execution of each job was submitted
    settled,    \* jobs whose result the server acknowledged for good
    forgotten,  \* jobs whose last receipt the retention limits have removed
    expired,    \* jobs whose receipts are older than the retention time
    crashes     \* process deaths so far

vars == <<up, disk, state, durable, gate, socket, tasks, stage, inbox, sent,
          starts, settled, forgotten, expired, crashes>>
process == <<up, socket>>
work == <<tasks, stage, inbox>>
history == <<settled, expired, crashes>>

Command == [id : Ids \cup {Legacy}, body : Bodies]
ASSUME NullAssumption == None \notin Command

Phases == {"downloading", "validating", "applying"}
Receipt == [cmd : Command, status : {"success", "fail"}]
NoActive == [cmd |-> None, phase |-> None]
EmptyState == [active |-> NoActive, pending |-> <<>>, completed |-> <<>>]
State == [active : [cmd : Command, phase : Phases] \cup {NoActive},
          pending : Seq(Receipt), completed : Seq(Receipt)]
ASSUME FileAssumption == Corrupt \notin State

isJobV1(c) == c.id # Legacy
TakeLast(s) == SubSeq(s, Len(s) - MaxReceipts + 1, Len(s))

Bounded(s) == IF Len(s) > MaxReceipts THEN TakeLast(s) ELSE s

\* filterNot: the receipts in s of other jobs than ids, in their order.
Without(s, ids) ==
    LET F[i \in 0 .. Len(s)] ==
            IF i = 0 THEN <<>>
            ELSE IF s[i].cmd.id \in ids THEN F[i - 1] ELSE Append(F[i - 1], s[i])
    IN  F[Len(s)]

\* normalizePushState: the outbox is bounded by length, the receipts by age too.
normalizePushState(s) ==
    [s EXCEPT !.pending = Bounded(@), !.completed = Bounded(Without(@, expired))]

ReceiptsOf(s) == Range(s.pending) \cup Range(s.completed)
KnownIds(s) == {r.cmd.id : r \in ReceiptsOf(s)}

-----------------------------------------------------------------------------
(* Saving and sending.                                                     *)

\* History: the jobs whose last receipt goes when s is saved, because it is too
\* old or because the outbox or the receipts are full.
Evicted(s) ==
    {id \in (IF disk = Corrupt THEN {} ELSE KnownIds(disk)) \ KnownIds(normalizePushState(s)) :
         \/ id \in expired
         \/ Len(s.pending) >= MaxReceipts \/ Len(s.completed) >= MaxReceipts}

\* persist: a failed save leaves the state as it was and closes the gate for
\* new work.
persist(s, ok) ==
    /\ ok \/ SavesMayFail
    /\ durable' = ok
    /\ disk' = IF ok THEN normalizePushState(s) ELSE disk
    /\ state' = IF ok THEN normalizePushState(s) ELSE state
    /\ forgotten' = IF ok THEN forgotten \cup Evicted(s) ELSE forgotten

Keep == UNCHANGED <<disk, state, durable, forgotten>>

send(messages) == sent' = IF socket = None THEN {} ELSE messages

Msg(type, c, info) == [type |-> type, id |-> c.id, info |-> info]
ResultMsg(r) == Msg("result", r.cmd, r.status)

-----------------------------------------------------------------------------
(* Process start and death.                                                *)

Init ==
    /\ up = FALSE /\ disk = EmptyState /\ state = EmptyState /\ durable = FALSE
    /\ gate = None /\ socket = None /\ tasks = <<>> /\ stage = 0 /\ inbox = <<>>
    /\ sent = {} /\ starts = [i \in Ids |-> 0] /\ settled = {} /\ forgotten = {}
    /\ expired = {} /\ crashes = 0

load == IF disk = Corrupt THEN EmptyState ELSE normalizePushState(disk)

\* Mutant: the interrupted execution leaves no receipt.
recover_silently(s) == [s EXCEPT !.active = NoActive]

\* recover: an execution that was active when the process died has failed.
recover(s) ==
    IF s.active = NoActive THEN s
    ELSE LET r == [cmd |-> s.active.cmd, status |-> "fail"]
         IN  [active |-> NoActive,
              pending |-> IF isJobV1(r.cmd) THEN Append(s.pending, r) ELSE s.pending,
              completed |-> Bounded(Append(s.completed, r))]

\* The init block, the first task of the actor.  When the recovered state
\* cannot be saved the memory stays empty and every new command is refused.
Start(ok) ==
    /\ ~up /\ up' = TRUE
    /\ persist(recover(load), ok)
    /\ tasks' = IF ok /\ load.active # NoActive
                THEN <<[kind |-> "clean", cmd |-> load.active.cmd]>> ELSE <<>>
    /\ sent' = {}
    /\ UNCHANGED <<gate, socket, stage, inbox, starts, history>>

Crash ==
    /\ up /\ crashes < MaxCrashes /\ crashes' = crashes + 1
    /\ up' = FALSE /\ state' = EmptyState /\ durable' = FALSE /\ gate' = None
    /\ socket' = None /\ tasks' = <<>> /\ stage' = 0 /\ inbox' = <<>> /\ sent' = {}
    /\ UNCHANGED <<disk, starts, settled, forgotten, expired>>

-----------------------------------------------------------------------------
(* Transport.                                                              *)

attachTransport(t) ==
    /\ up /\ socket' = t /\ sent' = {}
    /\ Keep /\ UNCHANGED <<up, gate, work, starts, history>>

detachTransport(t) ==
    /\ up /\ socket = t /\ socket' = None /\ sent' = {}
    /\ Keep /\ UNCHANGED <<up, gate, work, starts, history>>

\* A handler that only answers.
Answer(messages) ==
    /\ up /\ send(messages)
    /\ Keep /\ UNCHANGED <<process, gate, work, starts, history>>

\* REGISTERED on the current socket: replayPendingResults.
onRegistered(t) == socket = t /\ Answer({ResultMsg(r) : r \in Range(state.pending)})

-----------------------------------------------------------------------------
(* Commands.                                                               *)

\* The receipt that answers command c, if one is kept.
Finished(c) == {r \in ReceiptsOf(state) : isJobV1(c) /\ r.cmd.id = c.id}

AnswerFinished(c) ==
    /\ Finished(c) # {}
    /\ \E r \in Finished(c) :
           Answer({IF r.cmd = c THEN ResultMsg(r)
                   ELSE Msg("rejected", c, "artifact_identity_mismatch")})

RefuseUndurable(c) ==
    /\ Finished(c) = {} /\ ~durable
    /\ Answer({Msg("rejected", c, "client_persistence_unavailable")})

\* gate.offer, then accept: durability before acceptance and before the worker.
accept(c, ok) ==
    /\ up /\ Finished(c) = {} /\ durable /\ gate = None
    /\ persist([state EXCEPT !.active = [cmd |-> c, phase |-> "downloading"]], ok)
    /\ IF ok
       THEN /\ gate' = c /\ tasks' = Append(tasks, [kind |-> "run", cmd |-> c])
            /\ starts' = [i \in Ids |-> starts[i] + (IF c.id = i THEN 1 ELSE 0)]
            /\ settled' = settled \ {c.id} /\ expired' = expired \ {c.id}
            /\ send(IF isJobV1(c) THEN {Msg("accepted", c, "downloading")} ELSE {})
       ELSE /\ send({Msg("rejected", c, "client_persistence_unavailable")})
            /\ UNCHANGED <<gate, tasks, starts, settled, expired>>
    /\ UNCHANGED <<process, stage, inbox, crashes>>

\* The gate is held: the same command again, or another one.
OfferHeld(c) ==
    /\ Finished(c) = {} /\ durable /\ gate # None
    /\ LET same == isJobV1(c) /\ gate.id = c.id
       IN  Answer({IF ~same THEN Msg("rejected", c, "device_busy")
                   ELSE IF gate # c
                        THEN Msg("rejected", c, "artifact_identity_mismatch")
                        ELSE Msg("accepted", c, state.active.phase)})

handleCommand(c) ==
    \/ AnswerFinished(c) \/ RefuseUndurable(c) \/ OfferHeld(c)
    \/ /\ isJobV1(c) => starts[c.id] < MaxStarts
       /\ \E ok \in BOOLEAN : accept(c, ok)

-----------------------------------------------------------------------------
(* The worker thread.                                                      *)

Callback(kind, c, outcome) == [kind |-> kind, cmd |-> c, status |-> outcome]
Running == up /\ tasks # <<>> /\ Head(tasks).kind = "run"
Steps == <<"transferred", "validated", "applying">>

\* execute reports its progress: the download, the extraction, the apply.
WorkerAdvance ==
    /\ Running /\ stage < Len(Steps) /\ stage' = stage + 1
    /\ inbox' = Append(inbox, Callback(Steps[stage + 1], Head(tasks).cmd, None))
    /\ sent' = {}
    /\ Keep /\ UNCHANGED <<process, gate, tasks, starts, history>>

\* execute returns: every step may fail, success comes after all of them.
WorkerFinish(outcome) ==
    /\ Running /\ (outcome = "success" => stage = Len(Steps)) /\ stage' = 0
    /\ inbox' = Append(inbox, Callback("terminal", Head(tasks).cmd, outcome))
    /\ tasks' = Tail(tasks) /\ sent' = {}
    /\ Keep /\ UNCHANGED <<process, gate, starts, history>>

WorkerClean ==
    /\ up /\ tasks # <<>> /\ Head(tasks).kind = "clean" /\ tasks' = Tail(tasks)
    /\ sent' = {}
    /\ Keep /\ UNCHANGED <<process, gate, stage, inbox, starts, history>>

-----------------------------------------------------------------------------
(* Callbacks of the worker on the actor thread.                            *)

\* The callback at the head of the actor's queue; isCurrent compares identities.
Receive(kind) == up /\ inbox # <<>> /\ Head(inbox).kind = kind /\ inbox' = Tail(inbox)
isCurrent(c) == state.active # NoActive /\ state.active.cmd.id = c.id

\* Mutant: the phase is reported whether or not it was saved.
setPhase_unsaved(kind, phase, ok) ==
    LET c == Head(inbox).cmd
    IN  /\ Receive(kind) /\ isCurrent(c)
        /\ persist([state EXCEPT !.active.phase = phase], ok)
        /\ send({Msg("phase", c, phase)})
        /\ UNCHANGED <<process, gate, tasks, stage, starts, history>>

\* setPhase saves the phase, and only then is it reported.
setPhase(kind, phase, ok) ==
    LET c == Head(inbox).cmd
    IN  /\ Receive(kind)
        /\ IF isCurrent(c)
           THEN /\ persist([state EXCEPT !.active.phase = phase], ok)
                /\ send(IF ok /\ (isJobV1(c) \/ kind = "transferred")
                        THEN {Msg("phase", c, phase)} ELSE {})
           ELSE Keep /\ sent' = {}
        /\ UNCHANGED <<process, gate, tasks, stage, starts, history>>

onTransferComplete(ok) == setPhase("transferred", "validating", ok)
onApplying(ok) == setPhase("applying", "applying", ok)

onValidated ==
    LET c == Head(inbox).cmd
    IN  /\ Receive("validated")
        /\ send(IF isCurrent(c) /\ state.active.phase = "validating" /\ isJobV1(c)
                THEN {Msg("phase", c, "validating")} ELSE {})
        /\ Keep /\ UNCHANGED <<process, gate, tasks, stage, starts, history>>

\* The state with the receipt of the active execution filed.
Filed(r) ==
    [active |-> NoActive,
     pending |-> IF isJobV1(r.cmd) THEN Append(state.pending, r) ELSE state.pending,
     completed |-> Bounded(Append(state.completed, r))]

\* Mutant: the lease is released even when the receipt was not saved.
onTerminal_releasing(ok) ==
    LET c == Head(inbox).cmd
        r == [cmd |-> c, status |-> Head(inbox).status]
    IN  /\ Receive("terminal") /\ isCurrent(c)
        /\ persist(Filed(r), ok)
        /\ gate' = None
        /\ tasks' = Append(tasks, [kind |-> "clean", cmd |-> c])
        /\ send(IF ok THEN {ResultMsg(r)} ELSE {})
        /\ UNCHANGED <<process, stage, starts, history>>

\* Mutant: the end of an execution waits for a connection.
onTerminal_connected(ok) ==
    LET c == Head(inbox).cmd
        r == [cmd |-> c, status |-> Head(inbox).status]
    IN  /\ socket # None
        /\ Receive("terminal") /\ isCurrent(c)
        /\ persist(Filed(r), ok)
        /\ gate' = None
        /\ tasks' = Append(tasks, [kind |-> "clean", cmd |-> c])
        /\ send({ResultMsg(r)})
        /\ UNCHANGED <<process, stage, starts, history>>

\* The receipt is saved before the lease is released, the files are removed
\* and the result is sent.  When the save fails the lease stays taken.
onTerminal(ok) ==
    LET c == Head(inbox).cmd
        r == [cmd |-> c, status |-> Head(inbox).status]
        clean == Append(tasks, [kind |-> "clean", cmd |-> c])
    IN  /\ Receive("terminal")
        /\ IF isCurrent(c)
           THEN /\ persist(Filed(r), ok)
                /\ gate' = IF ok /\ gate # None /\ gate.id = c.id THEN None ELSE gate
                /\ tasks' = IF ok THEN clean ELSE tasks
                /\ send(IF ok THEN {ResultMsg(r)} ELSE {})
           ELSE /\ tasks' = clean /\ sent' = {}
                /\ Keep /\ UNCHANGED gate
        /\ UNCHANGED <<process, stage, starts, history>>

-----------------------------------------------------------------------------
(* Acknowledgements and reconciliation.                                    *)

PendingOf(id) == {i \in DOMAIN state.pending : state.pending[i].cmd.id = id}

\* Mutant: the acknowledged receipt is dropped instead of kept for dedupe.
applyPushResultAck_dropping(id) ==
    [state EXCEPT !.pending = Without(@, {id}), !.completed = Without(@, {id})]

applyPushResultAck(id) ==
    LET last == CHOOSE i \in PendingOf(id) : \A j \in PendingOf(id) : j <= i
    IN  [state EXCEPT !.pending = Without(@, {id}),
                      !.completed = Bounded(Append(Without(@, {id}), state.pending[last]))]

\* An acceptance or a permanent rejection of the result of a pending job; a
\* retryable rejection, or one for another job, changes nothing.
handleResultAck(id, ok) ==
    /\ up /\ PendingOf(id) # {}
    /\ persist(applyPushResultAck(id), ok)
    /\ settled' = settled \cup {id} /\ sent' = {}
    /\ UNCHANGED <<process, gate, work, starts, expired, crashes>>

\* Mutant: only receipts are looked up, not the active execution.
handleReconcileRequest_finished(id) ==
    Answer(LET known == {r \in ReceiptsOf(state) : r.cmd.id = id}
           IN  IF known # {} THEN {ResultMsg(CHOOSE r \in known : TRUE)}
               ELSE {[type |-> "absent", id |-> id, info |-> None]})

\* One job of PUSH_RECONCILE_REQUEST.
handleReconcileRequest(id) ==
    Answer(LET known == {r \in ReceiptsOf(state) : r.cmd.id = id}
           IN  IF state.active # NoActive /\ state.active.cmd.id = id
               THEN {Msg("active", state.active.cmd, state.active.phase)}
               ELSE IF known # {} THEN {ResultMsg(CHOOSE r \in known : TRUE)}
               ELSE {[type |-> "absent", id |-> id, info |-> None]})

\* REGISTER reports the active job-v1 execution.
registrationFields ==
    /\ state.active # NoActive /\ isJobV1(state.active.cmd)
    /\ Answer({Msg("active", state.active.cmd, state.active.phase)})

-----------------------------------------------------------------------------
(* The clock and the file system.                                          *)

\* The receipts of a job pass the retention time.
Age(id) ==
    /\ Cardinality(expired) < MaxAged
    /\ disk # Corrupt /\ id \in KnownIds(disk) \ expired
    /\ expired' = expired \cup {id} /\ sent' = {}
    /\ Keep /\ UNCHANGED <<process, gate, work, starts, settled, crashes>>

\* The state file becomes unreadable while the process is down.
Rot ==
    /\ FilesMayRot /\ ~up /\ disk # Corrupt
    /\ disk' = Corrupt /\ forgotten' = Ids /\ sent' = {}
    /\ UNCHANGED <<state, durable, process, gate, work, starts, history>>

-----------------------------------------------------------------------------
Actor(ok) ==
    \/ onTransferComplete(ok) \/ onApplying(ok) \/ onValidated \/ onTerminal(ok)

Worker ==
    \/ WorkerAdvance \/ WorkerClean
    \/ \E outcome \in {"success", "fail"} : WorkerFinish(outcome)

Server ==
    \/ \E t \in Sockets : attachTransport(t) \/ detachTransport(t) \/ onRegistered(t)
    \/ \E c \in Command : handleCommand(c)
    \/ \E id \in Ids : handleReconcileRequest(id) \/ \E ok \in BOOLEAN : handleResultAck(id, ok)
    \/ registrationFields

Next ==
    \/ Server \/ Worker \/ Crash \/ Rot
    \/ \E ok \in BOOLEAN : Start(ok) \/ Actor(ok)
    \/ \E id \in Ids : Age(id)

Spec == Init /\ [][Next]_vars

\* Android restarts the foreground service, and both executors run what is
\* queued; a download that stalls ends with its read timeout.
Fairness ==
    /\ WF_vars(\E ok \in BOOLEAN : Start(ok))
    /\ WF_vars(\E ok \in BOOLEAN : Actor(ok))
    /\ WF_vars(Worker)

FairSpec == Spec /\ Fairness

-----------------------------------------------------------------------------
(* Properties.                                                             *)

Runs == {i \in 1..Len(tasks) : tasks[i].kind = "run"}
Ends == {i \in 1..Len(inbox) : inbox[i].kind = "terminal"}

\* At most one execution is between its submission and the handling of its
\* end, whatever commands, failed saves and restarts come in between.  It and
\* every callback of it belong to the command that holds PushExecutionGate,
\* and that command is the active one of the saved state.  No clean-up is
\* queued behind it, which would delete the work directory of its successor.
SingleExecution ==
    /\ Runs = {} \/ Ends = {}
    /\ \A i, j \in Ends : i = j
    /\ \A i \in Runs : tasks[i].cmd = gate /\ i = Len(tasks)
    /\ \A i \in 1..Len(inbox) : inbox[i].cmd = gate
    /\ gate = state.active.cmd
    /\ gate # None => disk = state

\* At-least-once reporting: the result of a job whose execution was submitted
\* stays in state.json, as the active record or in the outbox, until the
\* server has settled it, across failed saves and process deaths.  (The outbox
\* is large enough for the jobs, and no unreadable file forgot the job.)
UnsettledIsKept ==
    IsFiniteSet(Ids) /\ Cardinality(Ids) <= MaxReceipts =>
        \A id \in Ids \ forgotten : (starts[id] > 0 /\ id \notin settled) =>
            \/ disk.active.cmd # None /\ disk.active.cmd.id = id
            \/ \E r \in Range(disk.pending) : r.cmd.id = id

\* At-most-once execution: a job is executed a second time only when the
\* retention limits, or a lost state file, removed every receipt of the first.
RerunOnlyForgotten == \A id \in Ids : starts[id] > 1 => id \in forgotten

\* What the file says of the job a message is about.
Backed(m, d) ==
    CASE m.type = "result" ->
             \E r \in ReceiptsOf(d) : r.cmd.id = m.id /\ r.status = m.info
      [] m.type \in {"accepted", "active"} \/ (m.type = "phase" /\ m.id # Legacy) ->
             d.active.cmd # None /\ d.active.cmd.id = m.id /\ d.active.phase = m.info
      [] OTHER -> TRUE

\* Save before publish: no message tells the server of an acceptance, a phase,
\* an active execution or a result that the state file does not hold.
SentIsSaved == [][\A m \in sent' : Backed(m, disk')]_vars

\* A job is reported absent only when the device holds nothing of it, unless
\* its state could not be saved at process start.
AbsentIsUnknown ==
    [][\A m \in sent' : (m.type = "absent" /\ durable') =>
           /\ m.id \notin KnownIds(disk')
           /\ disk'.active # NoActive => disk'.active.cmd.id # m.id
           /\ \A i \in Runs : tasks[i].cmd.id # m.id]_vars

\* When saves succeed, an accepted execution always reaches a receipt on disk,
\* if the file stays readable: the worker finishes, or the next process start
\* records the interruption.
AcceptedIsSettled ==
    \A id \in Ids :
        (disk # Corrupt /\ disk.active.cmd # None /\ disk.active.cmd.id = id)
            ~> (disk = Corrupt \/ id \in KnownIds(disk))
=============================================================================
