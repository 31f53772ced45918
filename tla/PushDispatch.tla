---------------------------- MODULE PushDispatch ----------------------------
(***************************************************************************)
(* How one assignment (one job on one device) is carried by dispatch tasks *)
(* (push_scheduler.py) while the device's sockets come and go              *)
(* (push_runtime.py).  PushJobStore models the transactions on every row   *)
(* with the most general caller; here the callers are modelled: the tasks  *)
(* with the awaits they are suspended at, the two waiters they register,   *)
(* and the per-device lock, an asyncio.Lock and therefore a FIFO queue,    *)
(* that serializes REGISTER, disconnect, incoming frames and command sends.*)
(* A claim handed back while its task still waits for a transfer slot lets *)
(* the scheduler start a second task for the same key: the attempt number  *)
(* is always 1.  A database call and the code up to the next await form    *)
(* one step, because the store answers its callers in order.  The device   *)
(* speaks job-v1 and has no other job: PushJobStore's OneActivePerDevice   *)
(* and JobFenceSound exclude the answers that name another active one.     *)
(***************************************************************************)
EXTENDS Naturals, Sequences

CONSTANTS
    Tasks,          \* dispatch tasks, each used once
    None,
    MaxSessions     \* bound: registrations of the device

ASSUME NoneAssumption == None \notin Tasks

ASSUME BoundAssumption == MaxSessions \in Nat

VARIABLES
    row,        \* the assignment's row in the store
    session,    \* the live session in sessions[device_id], 0 when there is none
    opened,     \* registrations so far; the number of a session
    looked,     \* the runner computed its online keys and found the device
    queue,      \* the device lock: its holder and those waiting, in order
    closing,    \* the state the lock holder read before its transaction
    pc,         \* the await of each dispatch task
    on,         \* the session each task holds a reference to
    seen,       \* the state a task read before its transaction
    transfer,   \* each task's transfer future: none, pending, done
    accept,     \* each task's acceptance future, or the answer it holds
    registry,   \* the task registered under the transfer key
    waiter,     \* the task registered in _accept_waiters
    sent        \* history: EXECUTE_PUSH_FILES frames sent

connection == <<session, opened, queue, closing>>
tasks == <<pc, on, seen, transfer, accept, registry, waiter>>
vars == <<row, connection, looked, tasks, sent>>

Phases == {"dispatching", "downloading", "validating", "applying"}
Unanswered == {"dispatching", "reconciling"}
Settled == {"succeeded", "failed", "interrupted", "unconfirmed"}
States == {"queued", "waiting_transfer", "reconciling"} \cup Phases \cup Settled

Steps == {"idle", "slot", "prepare", "send", "accept", "probe", "transfer",
          "mark", "recover", "done"}

Init ==
    /\ row = [state |-> "queued", accepted |-> FALSE, token |-> None,
              reason |-> "none", replays |-> 0]
    /\ session = 0 /\ opened = 0 /\ looked = FALSE
    /\ queue = <<>> /\ closing = "no"
    /\ pc = [t \in Tasks |-> "idle"]
    /\ on = [t \in Tasks |-> 0]
    /\ seen = [t \in Tasks |-> "no"]
    /\ transfer = [t \in Tasks |-> "none"]
    /\ accept = [t \in Tasks |-> "none"]
    /\ registry = None /\ waiter = None
    /\ sent = 0

\* The fields a transition resets.
Moved(state) == [row EXCEPT !.state = state, !.token = None, !.reason = "none"]

\* mark_reconciling.
Uncertain(reason) ==
    [row EXCEPT !.state = "reconciling", !.token = None, !.reason = reason]

\* Mutant: only an assignment that was sent is failed.
FailSent(expected) ==
    row' = IF row.state \in expected \cap Phases THEN Moved("failed") ELSE row

\* _fail_current: a state that moved on meanwhile is a StoreConflict, ignored.
FailFrom(expected) ==
    row' = IF row.state \in expected THEN Moved("failed") ELSE row

-----------------------------------------------------------------------------
(* The waiters.                                                            *)

\* release_exact(key): whichever task is registered under the key.
Released == [t \in Tasks |-> IF registry = t THEN "done" ELSE transfer[t]]

\* Mutant: register replaces whatever is registered.
OccupiedNever == FALSE

Occupied == registry # None /\ transfer[registry] = "pending"

\* _clear_dispatch_waiters: a task removes only its own registrations.
Clear(t, futures) ==
    /\ transfer' = [futures EXCEPT ![t] = "done"]
    /\ registry' = IF registry = t THEN None ELSE registry
    /\ waiter' = IF waiter = t THEN None ELSE waiter
    /\ accept' = IF waiter = t THEN [accept EXCEPT ![t] = "done"] ELSE accept

\* A task goes on to its next await.  Registering its waiters it takes hold of
\* the session; ended, it refers to none.
Goto(t, step) ==
    /\ pc' = [pc EXCEPT ![t] = step]
    /\ on' = [on EXCEPT ![t] = IF step = "done" THEN 0
                               ELSE IF step = "prepare" THEN session ELSE @]

KeepWaiters == UNCHANGED <<transfer, accept, registry, waiter>>

-----------------------------------------------------------------------------
(* The lock.                                                               *)

Entry(kind, by) == [kind |-> kind, by |-> by]

Holds(kind, by) == queue # <<>> /\ Head(queue) = Entry(kind, by)

InQueue(kind) == \E i \in DOMAIN queue : queue[i].kind = kind

\* _dispatch_sessions hides a device while another socket is registering.
Visible == session # 0 /\ ~InQueue("join")

-----------------------------------------------------------------------------
(* The scheduler's runner.                                                 *)

\* self.sessions().keys(), evaluated before the claim is awaited.
Look ==
    /\ ~looked /\ Visible
    /\ looked' = TRUE
    /\ UNCHANGED <<row, connection, tasks, sent>>

\* claim_next, and the dispatch task for what it returns.
Claim(t) ==
    /\ looked
    /\ looked' = FALSE
    /\ row.state = "queued"
    /\ pc[t] = "idle"
    /\ row' = [row EXCEPT !.state = "waiting_transfer"]
    /\ Goto(t, "slot")
    /\ KeepWaiters
    /\ UNCHANGED <<connection, seen, sent>>

\* claim_next has nothing for this device.
ClaimNothing ==
    /\ looked
    /\ looked' = FALSE
    /\ row.state # "queued"
    /\ UNCHANGED <<row, connection, tasks, sent>>

-----------------------------------------------------------------------------
(* A dispatch task.                                                        *)

\* The transfer slot is acquired.  Without a session the claim fails; with a
\* live waiter under the key TransferRegistry.register raises; otherwise both
\* waiters are registered before the row is committed as dispatching.
GotSlot(t) ==
    /\ pc[t] = "slot"
    /\ \/ /\ ~Visible
          /\ Goto(t, "done")
          /\ FailFrom({"waiting_transfer"})
          /\ KeepWaiters
       \/ /\ Visible
          /\ Occupied
          /\ Goto(t, "recover")
          /\ KeepWaiters
          /\ UNCHANGED row
       \/ /\ Visible
          /\ ~Occupied
          /\ Goto(t, "prepare")
          /\ transfer' = [transfer EXCEPT ![t] = "pending"]
          /\ accept' = [accept EXCEPT ![t] = "pending"]
          /\ registry' = t /\ waiter' = t
          /\ UNCHANGED row
    /\ UNCHANGED <<connection, looked, seen, sent>>

\* prepare_dispatch; the accept deadline it stores is the dispatch token.  A
\* conflict is raised to the recovery of unexpected failures.
Prepare(t) ==
    /\ pc[t] = "prepare"
    /\ IF row.state = "waiting_transfer"
         THEN /\ row' = [row EXCEPT !.state = "dispatching", !.token = t]
              /\ Goto(t, "send")
              /\ queue' = Append(queue, Entry("task", t))
              /\ KeepWaiters
         ELSE /\ Goto(t, "recover")
              /\ Clear(t, transfer)
              /\ UNCHANGED <<row, queue>>
    /\ UNCHANGED <<session, opened, closing, looked, seen, sent>>

\* The owner check and the send, with the lock held.  The socket changed: the
\* claim is given back.
SendRace(t) ==
    /\ pc[t] = "send" /\ Holds("task", t)
    /\ queue' = Tail(queue)
    /\ session # on[t]
    /\ Goto(t, "done")
    /\ Clear(t, Released)
    /\ row' = IF row.state = "dispatching" THEN Moved("queued") ELSE row
    /\ UNCHANGED <<session, opened, closing, looked, seen, sent>>

Send(t) ==
    /\ pc[t] = "send" /\ Holds("task", t)
    /\ queue' = Tail(queue)
    /\ session = on[t]
    /\ Goto(t, "accept")
    /\ sent' = sent + 1
    /\ KeepWaiters
    /\ UNCHANGED <<row, session, opened, closing, looked, seen>>

\* The send raised; the frame may have left all the same.
SendFailed(t) ==
    /\ pc[t] = "send" /\ Holds("task", t)
    /\ queue' = Tail(queue)
    /\ session = on[t]
    /\ Goto(t, "done")
    /\ sent' \in {sent, sent + 1}
    /\ Clear(t, Released)
    /\ FailFrom({"dispatching"})
    /\ UNCHANGED <<session, opened, closing, looked, seen>>

\* _await_acceptance with an answer.  An answer that names this very job as
\* the active one counts as accepted, but only on a row that still waits.
Answered(t) ==
    /\ pc[t] = "accept"
    /\ \/ /\ \/ accept[t] = "accepted"
             \/ accept[t] = "same" /\ row.state \in Unanswered
          /\ Goto(t, "transfer")
          /\ row' = IF row.state \in Unanswered
                      THEN [Moved("downloading") EXCEPT !.accepted = TRUE]
                      ELSE row
          /\ KeepWaiters
       \/ /\ accept[t] = "same" /\ row.state \notin Unanswered
          /\ Goto(t, "done")
          /\ Clear(t, Released)
          /\ UNCHANGED row
       \/ /\ accept[t] = "refused"
          /\ Goto(t, "done")
          /\ Clear(t, Released)
          /\ FailFrom(Unanswered)
    /\ UNCHANGED <<connection, looked, seen, sent>>

\* No answer in time: mark_acceptance_reconciling compares the token, so the
\* timeout of an older dispatch is a conflict and ends the task.
AcceptTimeout(t) ==
    /\ pc[t] = "accept" /\ accept[t] = "pending"
    /\ IF /\ row.token = t /\ ~row.accepted
          /\ \/ row.state = "dispatching"
             \/ /\ row.state = "reconciling"
                /\ row.reason = "command_accept_timeout"
         THEN /\ row' = [row EXCEPT !.state = "reconciling",
                                    !.reason = "command_accept_timeout"]
              /\ Goto(t, "probe")
              /\ queue' = Append(queue, Entry("task", t))
              /\ accept' = [accept EXCEPT ![t] = "done"]
              /\ UNCHANGED <<transfer, registry, waiter>>
         ELSE /\ Goto(t, "done")
              /\ Clear(t, transfer)
              /\ UNCHANGED <<row, queue>>
    /\ UNCHANGED <<session, opened, closing, looked, seen, sent>>

\* send_reconcile: delivered, the task keeps its slot; otherwise it ends.
Probe(t) ==
    /\ pc[t] = "probe" /\ Holds("task", t)
    /\ queue' = Tail(queue)
    /\ \/ session = on[t] /\ Goto(t, "transfer") /\ KeepWaiters
       \/ Goto(t, "done") /\ Clear(t, transfer)
    /\ UNCHANGED <<row, session, opened, closing, looked, seen, sent>>

TransferReleased(t) ==
    /\ pc[t] = "transfer" /\ transfer[t] = "done"
    /\ Goto(t, "done")
    /\ Clear(t, transfer)
    /\ UNCHANGED <<row, connection, looked, seen, sent>>

\* wait_for gives up; the assignment is read and, if it is still executing,
\* moved to reconciling from the state that was read.
TransferTimeout(t) ==
    /\ pc[t] = "transfer" /\ transfer[t] = "pending"
    /\ IF row.state \in Phases
         THEN /\ Goto(t, "mark")
              /\ seen' = [seen EXCEPT ![t] = row.state]
              /\ transfer' = [transfer EXCEPT ![t] = "done"]
              /\ UNCHANGED <<accept, registry, waiter>>
         ELSE /\ Goto(t, "done")
              /\ Clear(t, transfer)
              /\ UNCHANGED seen
    /\ UNCHANGED <<row, connection, looked, sent>>

MarkReconciling(t) ==
    /\ pc[t] = "mark"
    /\ Goto(t, "done")
    /\ seen' = [seen EXCEPT ![t] = "no"]
    /\ Clear(t, transfer)
    /\ row' = IF row.state = seen[t] THEN Uncertain("transfer_timeout") ELSE row
    /\ UNCHANGED <<connection, looked, sent>>

\* _recover_unexpected_dispatch_failure.
Recover(t) ==
    /\ pc[t] = "recover"
    /\ Goto(t, "done")
    /\ row' = IF row.state = "waiting_transfer" THEN Moved("queued")
              ELSE IF row.state \in Phases
                THEN Uncertain("unexpected_dispatch_failure")
                ELSE row
    /\ KeepWaiters
    /\ UNCHANGED <<connection, looked, seen, sent>>

-----------------------------------------------------------------------------
(* The device's sockets.                                                   *)

Wait(kind, by) ==
    /\ queue' = Append(queue, Entry(kind, by))
    /\ UNCHANGED <<row, session, opened, closing, looked, tasks, sent>>

\* A socket reads one thing at a time: a frame or its end.
Idle == session # 0 /\ ~InQueue("frame") /\ ~InQueue("leave")

FrameArrives == Idle /\ Wait("frame", session)

SocketCloses == Idle /\ Wait("leave", session)

SocketRegisters ==
    /\ ~InQueue("join")
    /\ opened < MaxSessions
    /\ opened' = opened + 1
    /\ queue' = Append(queue, Entry("join", opened + 1))
    /\ UNCHANGED <<row, session, closing, looked, tasks, sent>>

\* The first half of disconnect_device, and of register_device for the
\* session it replaces: the session is dropped, the active assignment read
\* and its transfer waiter released.
DropSession ==
    /\ closing = "no"
    /\ \/ session # 0 /\ Holds("leave", session)
       \/ session # 0 /\ Holds("join", opened)
    /\ session' = 0
    /\ closing' = row.state
    /\ transfer' = IF row.state \in Phases \cup {"waiting_transfer", "reconciling"}
                     THEN Released ELSE transfer
    /\ UNCHANGED <<row, opened, queue, looked, pc, on, seen, accept, registry,
                   waiter, sent>>

\* Its second half: the transaction on the state that was read.
GiveBack ==
    IF row.state # closing THEN row
    ELSE IF closing = "waiting_transfer" THEN Moved("queued")
    ELSE IF closing \in Phases
      THEN Uncertain(IF closing = "dispatching" /\ ~row.accepted
                       THEN "disconnect_before_accept" ELSE "device_disconnect")
      ELSE row

FinishDrop ==
    /\ closing # "no"
    /\ closing' = "no"
    /\ row' = GiveBack
    /\ queue' = IF Head(queue).kind = "leave" THEN Tail(queue) ELSE queue
    /\ UNCHANGED <<session, opened, looked, tasks, sent>>

\* register_device installs the new session.
Join ==
    /\ session = 0 /\ closing = "no"
    /\ Holds("join", opened)
    /\ session' = opened
    /\ queue' = Tail(queue)
    /\ UNCHANGED <<row, opened, closing, looked, tasks, sent>>

\* disconnect_device or handle_device_message of a replaced socket.
Stale ==
    /\ closing = "no"
    /\ \E n \in 1 .. MaxSessions :
          (Holds("leave", n) \/ Holds("frame", n)) /\ session # n
    /\ queue' = Tail(queue)
    /\ UNCHANGED <<row, session, opened, closing, looked, tasks, sent>>

-----------------------------------------------------------------------------
(* A frame of the live session, handled with the lock held.  The device    *)
(* may send anything.                                                      *)

Handling == session # 0 /\ Holds("frame", session)

HandlerKeeps == UNCHANGED <<session, opened, closing, looked, pc, on, seen,
                            registry, waiter, sent>>

AckWaits == waiter # None /\ accept[waiter] = "pending"

\* PUSH_JOB_ACCEPTED, PUSH_JOB_REJECTED: command_response hands the answer to
\* the waiting task.
CommandResponse(answer) ==
    /\ AckWaits
    /\ accept' = [accept EXCEPT ![waiter] = answer]
    /\ UNCHANGED <<row, transfer>>

\* Without a waiter the answer is late and only a reconciling row takes it.
LateAnswer(answer, phase) ==
    /\ ~AckWaits /\ row.state = "reconciling"
    /\ row' = CASE answer = "accepted" -> [Moved(phase) EXCEPT !.accepted = TRUE]
                [] answer = "same" -> [Moved("downloading") EXCEPT !.accepted = TRUE]
                [] answer = "refused" -> Moved("failed")
    /\ transfer' = IF \/ answer = "refused"
                      \/ answer = "accepted" /\ phase # "downloading"
                     THEN Released ELSE transfer
    /\ UNCHANGED accept

TransferComplete ==
    /\ row.state = "downloading"
    /\ row' = Moved("validating")
    /\ transfer' = Released
    /\ UNCHANGED accept

PhaseApplying ==
    /\ row.state \in {"validating", "reconciling"}
    /\ row' = [row EXCEPT !.state = "applying", !.reason = "none"]
    /\ UNCHANGED <<transfer, accept>>

Result(status) ==
    /\ row.state \in Phases \cup {"reconciling"}
    /\ row' = Moved(status)
    /\ transfer' = Released
    /\ UNCHANGED accept

\* PUSH_RECONCILE_REPORT: active in some phase, or gone.
ReportActive(phase) ==
    /\ row.state = "reconciling"
    /\ row' = [Moved(phase) EXCEPT !.accepted = TRUE]
    /\ transfer' = IF phase = "downloading" THEN transfer ELSE Released
    /\ UNCHANGED accept

\* Mutant: the replay is not counted.
ReportAbsentUncounted ==
    /\ row.state = "reconciling"
    /\ row' = IF /\ ~row.accepted /\ row.replays < 1
                 /\ row.reason \in {"command_accept_timeout",
                                    "disconnect_before_accept"}
                THEN Moved("queued") ELSE Moved("interrupted")
    /\ transfer' = Released
    /\ UNCHANGED accept

ReportAbsent ==
    /\ row.state = "reconciling"
    /\ row' = IF /\ ~row.accepted /\ row.replays < 1
                 /\ row.reason \in {"command_accept_timeout",
                                    "disconnect_before_accept"}
                THEN [Moved("queued") EXCEPT !.replays = @ + 1]
                ELSE Moved("interrupted")
    /\ transfer' = Released
    /\ UNCHANGED accept

Ignored == UNCHANGED <<row, transfer, accept>>

HandleFrame ==
    /\ Handling
    /\ queue' = Tail(queue)
    /\ \/ \E a \in {"accepted", "same", "refused"} : CommandResponse(a)
       \/ \E a \in {"accepted", "same", "refused"},
             p \in {"downloading", "validating", "applying"} : LateAnswer(a, p)
       \/ TransferComplete
       \/ PhaseApplying
       \/ \E s \in {"succeeded", "failed"} : Result(s)
       \/ \E p \in {"downloading", "validating", "applying"} : ReportActive(p)
       \/ ReportAbsent
       \/ Ignored
    /\ HandlerKeeps

-----------------------------------------------------------------------------
(* _reconciliation_housekeeping.                                           *)

\* has_live_acceptance_waiter: the local task still owns the wait.
ExpireAcceptance ==
    /\ row.state = "dispatching" /\ ~row.accepted
    /\ row.token # None
    /\ ~AckWaits
    /\ row' = [row EXCEPT !.state = "reconciling",
                          !.reason = "command_accept_timeout"]
    /\ UNCHANGED <<connection, looked, tasks, sent>>

\* Mutant: only a connected device's reconciliation expires.
ExpireReconciliationOnline ==
    /\ row.state = "reconciling"
    /\ session # 0
    /\ row' = Moved("unconfirmed")
    /\ transfer' = Released
    /\ UNCHANGED <<connection, looked, pc, on, seen, accept, registry, waiter,
                   sent>>

ExpireReconciliation ==
    /\ row.state = "reconciling"
    /\ row' = Moved("unconfirmed")
    /\ transfer' = Released
    /\ UNCHANGED <<connection, looked, pc, on, seen, accept, registry, waiter,
                   sent>>

-----------------------------------------------------------------------------

TaskStep(t) ==
    \/ GotSlot(t) \/ Prepare(t) \/ SendRace(t) \/ Send(t) \/ SendFailed(t)
    \/ Answered(t) \/ AcceptTimeout(t) \/ Probe(t)
    \/ TransferReleased(t) \/ TransferTimeout(t)
    \/ MarkReconciling(t) \/ Recover(t)

Runner == Look \/ ClaimNothing \/ \E t \in Tasks : Claim(t)

LockStep == DropSession \/ FinishDrop \/ Join \/ Stale \/ HandleFrame

Housekeeping == ExpireAcceptance \/ ExpireReconciliation

Next ==
    \/ Runner \/ LockStep \/ Housekeeping
    \/ \E t \in Tasks : TaskStep(t)
    \/ FrameArrives \/ SocketCloses \/ SocketRegisters

Spec == Init /\ [][Next]_vars

\* Every await of a task and of a lock holder is bounded by a timeout, and
\* the housekeeping loop polls the deadlines.
FairSpec ==
    /\ Spec
    /\ WF_vars(LockStep) /\ WF_vars(Housekeeping)
    /\ \A t \in Tasks : WF_vars(TaskStep(t))

-----------------------------------------------------------------------------

Reasons == {"none", "command_accept_timeout", "disconnect_before_accept",
            "device_disconnect", "transfer_timeout",
            "unexpected_dispatch_failure"}

Rows == [state : States, accepted : BOOLEAN, token : Tasks \cup {None},
         reason : Reasons, replays : 0 .. 1]

Entries == [kind : {"task", "frame", "leave", "join"},
            by : Tasks \cup (0 .. MaxSessions)]

TypeOK ==
    /\ row \in Rows
    /\ session \in 0 .. MaxSessions /\ opened \in 0 .. MaxSessions
    /\ looked \in BOOLEAN
    /\ queue \in Seq(Entries)
    /\ closing \in States \cup {"no"}
    /\ pc \in [Tasks -> Steps]
    /\ on \in [Tasks -> 0 .. MaxSessions]
    /\ seen \in [Tasks -> Phases \cup {"no"}]
    /\ transfer \in [Tasks -> {"none", "pending", "done"}]
    /\ accept \in [Tasks -> {"none", "pending", "accepted", "same", "refused",
                             "done"}]
    /\ registry \in Tasks \cup {None} /\ waiter \in Tasks \cup {None}
    /\ sent \in Nat

\* A transfer future that is still waited for can be released: a second task
\* for the same key never takes a live registration away.
LiveWaiterRegistered ==
    \A t \in Tasks :
        transfer[t] = "pending" => registry = t

\* Every claim has a task that will carry it on: the row never sits in
\* waiting_transfer, blocking the device's queue, without one.
ClaimHasTask ==
    row.state = "waiting_transfer" =>
        \E t \in Tasks : pc[t] \in {"slot", "prepare", "recover"}

\* The command is sent once, and once more only when the device reported
\* before accepting it that it does not have the job.
CommandsBounded == sent <= 1 + row.replays

\* No claim, dispatch or reconciliation is pending for ever.
NothingStuck ==
    \A s \in {"waiting_transfer", "dispatching", "reconciling"} :
        row.state = s ~> row.state # s

=============================================================================
