---------------------------- MODULE PushJobStore ----------------------------
(***************************************************************************)
(* The canonical Push/Sync job store of the MDM server: push_jobs.py       *)
(* (states and transition tables), push_job_store.py and                   *)
(* push_job_manager.py (the SQLite transactions), with the field updates   *)
(* the scheduler and the runtime pass to transition_device.                *)
(*                                                                         *)
(* One worker thread runs every transaction, so each one is an atomic      *)
(* step.  The callers are asyncio tasks that interleave at every await;    *)
(* here they are the most general caller: any transaction may be called    *)
(* at any time, with arguments read from an older state.                   *)
(***************************************************************************)
EXTENDS Integers, FiniteSets

CONSTANTS
    Jobs,               \* client_request_ids; create_job makes one job for each
    Devices,            \* device ids, numbered in the order canonicalize sorts them
    Processes,          \* process_instance_id values of job-v1 clients
    Foreign,            \* job ids that other servers gave to a client
    Unidentified,       \* an opaque identity no exact report can match
    None,               \* SQL NULL for a process id or a fence identity
    CreateTimeout, AcceptTimeout, AcceptReconTimeout, ReconTimeout,
    MaxNow              \* bound on the clock

ASSUME DevicesAssumption == Devices \subseteq Nat
ASSUME TimeAssumption ==
    /\ CreateTimeout \in Nat /\ AcceptTimeout \in Nat
    /\ AcceptReconTimeout \in Nat /\ ReconTimeout \in Nat
    /\ MaxNow \in Nat
ASSUME IdentityAssumption ==
    None \notin Processes /\ None \notin Jobs /\ Foreign \cap Jobs = {}

VARIABLES
    job,        \* push_jobs: state, dispatch gate, create deadline, queue position
    row,        \* push_job_devices, one row for each job and target device
    fence,      \* push_device_fences, at most one for each device
    nextSeq,    \* next value of the enqueue_seq counter
    now,        \* wall clock
    revised     \* jobs whose revision the last transaction incremented

vars == <<job, row, fence, nextSeq, now, revised>>

-----------------------------------------------------------------------------
(* States and transition tables.                                           *)

PreDispatch == {"created", "uploading", "packaging", "ready"}
Dispatched == {"running", "reconciling"}
TERMINAL_JOB_STATES ==
    {"succeeded", "completed_with_errors", "failed", "interrupted"}
NonTerminalJob == PreDispatch \cup Dispatched

TERMINAL_DEVICE_STATES == {"succeeded", "failed", "interrupted", "unconfirmed"}
ACTIVE_DEVICE_STATES == {"waiting_transfer", "dispatching", "downloading",
                         "validating", "applying", "reconciling"}
DeviceState == {"queued"} \cup ACTIVE_DEVICE_STATES \cup TERMINAL_DEVICE_STATES

\* A job or row that create_job has not inserted.
Missing == "missing"

DEVICE_TRANSITIONS ==
    [s \in DeviceState |->
        CASE s = "queued" -> {"waiting_transfer", "failed", "interrupted"}
          [] s = "waiting_transfer" ->
                {"queued", "dispatching", "failed", "interrupted"}
          [] s = "dispatching" ->
                {"queued", "downloading", "reconciling", "failed"}
          [] s = "downloading" -> {"validating", "reconciling", "failed"}
          [] s = "validating" -> {"applying", "reconciling", "failed"}
          [] s = "applying" -> {"succeeded", "reconciling", "failed"}
          [] s = "reconciling" ->
                {"downloading", "validating", "applying", "queued"}
                    \cup TERMINAL_DEVICE_STATES
          [] OTHER -> {}]

\* validate_device_transition: a self-loop passes, a terminal state has no exit.
ValidDeviceTransition(s, t) ==
    s \in DeviceState /\ (s = t \/ t \in DEVICE_TRANSITIONS[s])

\* derive_dispatched_job_state, from the set of the states of a job's rows.
derive_dispatched_job_state(S) ==
    IF "reconciling" \in S THEN "reconciling"
    ELSE IF \E s \in S : s \notin TERMINAL_DEVICE_STATES THEN "running"
    ELSE IF S \subseteq {"succeeded"} THEN "succeeded"
    ELSE IF "unconfirmed" \in S \/ "succeeded" \in S THEN "completed_with_errors"
    ELSE "failed"

-----------------------------------------------------------------------------
(* Columns.  A NULL time is 0: the clock starts at 1.                      *)

NoTime == 0
NoReason == "none"
ReplayableReasons == {"command_accept_timeout", "disconnect_before_accept"}
\* "uncertain" stands for device_disconnect, transfer_timeout and
\* unexpected_dispatch_failure, which no transaction tells apart.
Reasons == ReplayableReasons \cup {"uncertain", "server_restart", NoReason}

JobRecord == [state : NonTerminalJob \cup TERMINAL_JOB_STATES \cup {Missing},
              enabled : BOOLEAN, expires : Nat, seq : Nat]

RowRecord == [state : DeviceState \cup {Missing},
              accepted : BOOLEAN,       \* accepted_at IS NOT NULL
              acceptBy : Nat,           \* accept_deadline
              reason : Reasons,         \* reconciliation_reason
              reconBy : Nat,            \* reconciliation_deadline
              replays : 0..1]           \* accept_replay_count

FenceRecord == [kind : {"none", "job", "opaque"},
                id : Jobs \cup Foreign \cup {Unidentified, None},
                process : Processes \cup {None}]

NoFence == [kind |-> "none", id |-> None, process |-> None]
EmptyRow == [state |-> Missing, accepted |-> FALSE, acceptBy |-> NoTime,
             reason |-> NoReason, reconBy |-> NoTime, replays |-> 0]

TypeOK ==
    /\ job \in [Jobs -> JobRecord]
    /\ row \in [Jobs -> [Devices -> RowRecord]]
    /\ fence \in [Devices -> FenceRecord]
    /\ nextSeq \in Nat /\ now \in Nat
    /\ revised \subseteq Jobs

Active(j, d) == row[j][d].state \in ACTIVE_DEVICE_STATES
RowStates(rs) == {rs[d].state : d \in Devices} \ {Missing}
Fenced(d) == fence[d].kind # "none"
ExactFence(d, j) == fence[d].kind = "job" /\ fence[d].id = j

Init ==
    /\ job = [j \in Jobs |-> [state |-> Missing, enabled |-> FALSE,
                              expires |-> NoTime, seq |-> 0]]
    /\ row = [j \in Jobs |-> [d \in Devices |-> EmptyRow]]
    /\ fence = [d \in Devices |-> NoFence]
    /\ nextSeq = 1 /\ now = 1 /\ revised = {}

-----------------------------------------------------------------------------
(* Helpers shared by the transactions.                                     *)

\* Mutant: a reconciling job is not rederived.
RederivedNotReconciling(s, rs) ==
    IF s \in PreDispatch \cup {"interrupted", "failed", "reconciling"}
    THEN s ELSE derive_dispatched_job_state(RowStates(rs))

\* _rederive_job: the state column after the rows of a job became rs.
Rederived(s, rs) ==
    IF s \in PreDispatch \cup {"interrupted", "failed"}
    THEN s ELSE derive_dispatched_job_state(RowStates(rs))

\* Update one row, increment the job's revision and rederive its state.
PutRow(j, d, r) ==
    LET rs == [row[j] EXCEPT ![d] = r]
    IN  /\ row' = [row EXCEPT ![j] = rs]
        /\ job' = [job EXCEPT ![j].state = Rederived(@, rs)]
        /\ revised' = {j}
        /\ UNCHANGED <<nextSeq, now>>

\* transition_device: the expected-state check, the table, then r is written.
transition_device(j, d, expected, r) ==
    /\ row[j][d].state \in expected
    /\ ValidDeviceTransition(row[j][d].state, r.state)
    /\ PutRow(j, d, r)
    /\ UNCHANGED fence

\* r moved to state s with every acceptance and reconciliation deadline cleared.
Cleared(r, s) ==
    [r EXCEPT !.state = s, !.acceptBy = NoTime,
              !.reason = NoReason, !.reconBy = NoTime]

\* The job with the highest enqueue_seq among those that target d.
Latest(d) == {j \in Jobs : row[j][d].state # Missing /\
                 \A k \in Jobs : row[k][d].state # Missing => job[k].seq <= job[j].seq}

\* _visible_job_ids, given the fence in place when it runs.
VisibleJobs(d, f, blocking) ==
    {j \in Jobs : row[j][d].state # Missing /\ job[j].state \in NonTerminalJob}
      \cup (blocking \cap {j \in Jobs : job[j].state # Missing})
      \cup (IF f.kind = "opaque" THEN Latest(d) ELSE {})

-----------------------------------------------------------------------------
(* The life of a job up to its dispatch gate.                              *)

\* create_job.  A repeated client_request_id returns the stored job unchanged.
create_job(j, targets) ==
    /\ job[j].state = Missing
    /\ targets # {}
    /\ job' = [job EXCEPT ![j] = [state |-> "created", enabled |-> FALSE,
                                  expires |-> now + CreateTimeout, seq |-> nextSeq]]
    /\ row' = [row EXCEPT ![j] = [d \in Devices |->
                  IF d \in targets THEN [EmptyRow EXCEPT !.state = "queued"]
                                   ELSE EmptyRow]]
    /\ nextSeq' = nextSeq + 1
    /\ revised' = {j}
    /\ UNCHANGED <<fence, now>>

MoveJob(j, s) ==
    /\ job' = [job EXCEPT ![j].state = s]
    /\ revised' = {j}
    /\ UNCHANGED <<row, fence, nextSeq, now>>

\* start_upload: too late, it commits the expiry and then raises.
start_upload(j) ==
    /\ job[j].state = "created"
    /\ MoveJob(j, IF now >= job[j].expires THEN "interrupted" ELSE "uploading")

mark_packaging(j) == job[j].state = "uploading" /\ MoveJob(j, "packaging")

publish_artifact(j) == job[j].state = "packaging" /\ MoveJob(j, "ready")

\* fail_pre_dispatch, for the two outcomes upload_handler records.
fail_pre_dispatch(j) ==
    \/ /\ job[j].state \in {"created", "uploading", "packaging"}
       /\ MoveJob(j, "interrupted")
    \/ /\ job[j].state = "packaging"
       /\ MoveJob(j, "failed")

\* expire_created, called by the deadline loop with the deadline it read.
expire_created(j, deadline) ==
    /\ job[j].state = "created"
    /\ job[j].expires = deadline
    /\ now >= job[j].expires
    /\ MoveJob(j, "interrupted")

enable_dispatch(j) ==
    /\ job[j].state \in {"ready"} \cup Dispatched
    /\ ~job[j].enabled
    /\ job' = [job EXCEPT ![j].enabled = TRUE,
                          ![j].state = IF @ = "ready" THEN "running" ELSE @]
    /\ revised' = {j}
    /\ UNCHANGED <<row, fence, nextSeq, now>>

-----------------------------------------------------------------------------
(* Dispatch of one assignment.                                             *)

\* Mutant: an older job that is not dispatched yet does not hold the queue.
HeadOfDispatchedQueue(j, d) ==
    \A k \in Jobs : row[k][d].state = "queued" /\ job[k].state \in Dispatched
                        => job[j].seq <= job[k].seq

\* j's row has the least enqueue_seq of d's queued rows in non-terminal jobs.
HeadOfQueue(j, d) ==
    \A k \in Jobs : row[k][d].state = "queued" /\ job[k].state \in NonTerminalJob
                        => job[j].seq <= job[k].seq

\* Mutant: the device may already have an active row.
ClaimableWhileActive(j, d) ==
    /\ row[j][d].state = "queued"
    /\ job[j].enabled /\ job[j].state \in Dispatched
    /\ ~Fenced(d)
    /\ HeadOfQueue(j, d)

\* Mutant: the device may be fenced.
ClaimableThroughFence(j, d) ==
    /\ row[j][d].state = "queued"
    /\ job[j].enabled /\ job[j].state \in Dispatched
    /\ \A k \in Jobs : ~Active(k, d)
    /\ HeadOfQueue(j, d)

Claimable(j, d) ==
    /\ row[j][d].state = "queued"
    /\ job[j].enabled /\ job[j].state \in Dispatched
    /\ ~Fenced(d)
    /\ \A k \in Jobs : ~Active(k, d)
    /\ HeadOfQueue(j, d)

\* claim_next(online): the claimable row with the least enqueue_seq; the rows
\* of one job are numbered in device order.
claim_next(online, j, d) ==
    /\ d \in online
    /\ Claimable(j, d)
    /\ \A k \in Jobs, e \in online : Claimable(k, e) =>
           job[j].seq < job[k].seq \/ (j = k /\ d <= e)
    /\ PutRow(j, d, [row[j][d] EXCEPT !.state = "waiting_transfer"])
    /\ UNCHANGED fence

\* prepare_dispatch: only a job-v1 command has an accept deadline.
prepare_dispatch(j, d, v1) ==
    /\ row[j][d].state = "waiting_transfer"
    /\ PutRow(j, d, [row[j][d] EXCEPT !.state = "dispatching",
                        !.acceptBy = IF v1 THEN now + AcceptTimeout ELSE NoTime])
    /\ UNCHANGED fence

\* waiting_transfer -> queued: disconnect_device, register_device and
\* _recover_unexpected_dispatch_failure give the claim back.
RequeueWaiting(j, d) ==
    transition_device(j, d, {"waiting_transfer"},
                      [row[j][d] EXCEPT !.state = "queued"])

\* Mutant: what the device has taken on is queued again as if it were new.
requeue_after_acceptance(j, d) ==
    transition_device(j, d, {"dispatching", "reconciling"},
                      [Cleared(row[j][d], "queued") EXCEPT !.accepted = FALSE])

\* _requeue_after_send_race: the socket changed owner before the send.
requeue_after_send_race(j, d) ==
    transition_device(j, d, {"dispatching"},
                      [row[j][d] EXCEPT !.state = "queued", !.acceptBy = NoTime])

\* An ACCEPTED answer, or a legacy command whose send returned.
CommandAccepted(j, d) ==
    transition_device(j, d, {"dispatching", "reconciling"},
                      [Cleared(row[j][d], "downloading") EXCEPT !.accepted = TRUE])

\* _handle_busy when the device names this very job: the reconciliation
\* columns are left as they are.
BusyWithSameJob(j, d) ==
    transition_device(j, d, {"dispatching", "reconciling"},
                      [row[j][d] EXCEPT !.state = "downloading",
                           !.accepted = TRUE, !.acceptBy = NoTime])

\* _fail_current: offline before dispatch, send failure, rejection, busy with
\* an unknown job.
fail_current(j, d) ==
    transition_device(j, d, {"waiting_transfer", "dispatching", "reconciling"},
                      Cleared(row[j][d], "failed"))

-----------------------------------------------------------------------------
(* Reports of the device.                                                  *)

transfer_complete(j, d) ==
    transition_device(j, d, {"downloading"}, Cleared(row[j][d], "validating"))

\* Only the validation timestamp and the revision change.
validation_complete(j, d) ==
    transition_device(j, d, {"validating"}, row[j][d])

handle_phase(j, d) ==
    transition_device(j, d, {"validating", "reconciling"},
                      [row[j][d] EXCEPT !.state = "applying",
                           !.reason = NoReason, !.reconBy = NoTime])

\* Mutant: a late result also settles an unconfirmed row.
settle_result_late(j, d, status) ==
    /\ row[j][d].state \in
           (ACTIVE_DEVICE_STATES \ {"waiting_transfer"}) \cup {"unconfirmed"}
    /\ PutRow(j, d, Cleared(row[j][d], status))
    /\ fence' = [fence EXCEPT ![d] = IF ExactFence(d, j) THEN NoFence ELSE @]

\* settle_result: any dispatched phase takes the exact terminal result.  A
\* terminal row keeps its result; an equal result is only acknowledged again.
settle_result(j, d, status) ==
    /\ row[j][d].state \in ACTIVE_DEVICE_STATES \ {"waiting_transfer"}
    /\ PutRow(j, d, Cleared(row[j][d], status))
    /\ fence' = [fence EXCEPT ![d] = IF ExactFence(d, j) THEN NoFence ELSE @]

-----------------------------------------------------------------------------
(* Uncertain work.                                                         *)

Reconciling(r, reason, timeout) ==
    [r EXCEPT !.state = "reconciling", !.reason = reason,
              !.reconBy = now + timeout]

\* mark_acceptance_reconciling: the accept deadline is the dispatch token, and
\* it is kept.  The caller read the deadline in an earlier transaction.
mark_acceptance_reconciling(j, d, deadline) ==
    /\ row[j][d].state = "dispatching" /\ ~row[j][d].accepted
    /\ row[j][d].acceptBy = deadline /\ deadline <= now
    /\ PutRow(j, d, Reconciling(row[j][d], "command_accept_timeout",
                                AcceptReconTimeout))
    /\ UNCHANGED fence

mark_reconciling(j, d, expected, reason, timeout) ==
    transition_device(j, d, expected,
        [Reconciling(row[j][d], reason, timeout) EXCEPT !.acceptBy = NoTime])

DispatchedPhases == {"dispatching", "downloading", "validating", "applying"}

\* disconnect_device and register_device on the connection's active row.
DeviceDisconnected(j, d) ==
    IF row[j][d].state = "dispatching" /\ ~row[j][d].accepted
    THEN mark_reconciling(j, d, {"dispatching"}, "disconnect_before_accept",
                          AcceptReconTimeout)
    ELSE mark_reconciling(j, d, DispatchedPhases, "uncertain", ReconTimeout)

\* The transfer wait of the dispatch task ran out, or the task itself failed.
DispatchUncertain(j, d, timeout) ==
    mark_reconciling(j, d, DispatchedPhases, "uncertain", timeout)

\* reconcile_report, status "active".
ReconcileActive(j, d, phase) ==
    /\ row[j][d].state = "reconciling"
    /\ PutRow(j, d, [Cleared(row[j][d], phase) EXCEPT !.accepted = TRUE])
    /\ UNCHANGED fence

\* Mutant: any reconciliation reason allows a replay.
ReplayableForAnyReason(j, d) ==
    ~row[j][d].accepted /\ row[j][d].replays < 1 /\ job[j].enabled

Replayable(j, d) ==
    /\ ~row[j][d].accepted
    /\ row[j][d].reason \in ReplayableReasons
    /\ row[j][d].replays < 1
    /\ job[j].enabled

\* reconcile_report, status "absent" or "interrupted".
ReconcileGone(j, d, absent) ==
    /\ row[j][d].state = "reconciling"
    /\ PutRow(j, d, IF absent /\ Replayable(j, d)
                    THEN [Cleared(row[j][d], "queued") EXCEPT !.replays = @ + 1]
                    ELSE Cleared(row[j][d], "interrupted"))
    /\ UNCHANGED fence

\* mark_unconfirmed: p is the process of the live session, NULL when offline;
\* deadline was read by expired_reconciliations.  The job fence replaces
\* whatever fence the device had.
mark_unconfirmed(j, d, deadline, p) ==
    LET rs == [row[j] EXCEPT ![d] = Cleared(row[j][d], "unconfirmed")]
        f == [kind |-> "job", id |-> j, process |-> p]
        visible == VisibleJobs(d, f, {j})
    IN  /\ row[j][d].state = "reconciling"
        /\ row[j][d].reconBy = deadline /\ now >= deadline
        /\ row' = [row EXCEPT ![j] = rs]
        /\ fence' = [fence EXCEPT ![d] = f]
        /\ job' = [k \in Jobs |-> IF k \in visible
                     THEN [job[k] EXCEPT !.state =
                             Rederived(@, IF k = j THEN rs ELSE row[k])]
                     ELSE job[k]]
        /\ revised' = visible
        /\ UNCHANGED <<nextSeq, now>>

-----------------------------------------------------------------------------
(* Device fences.                                                          *)

ReplaceFence(d, f, visible) ==
    /\ fence' = [fence EXCEPT ![d] = f]
    /\ revised' = visible
    /\ UNCHANGED <<job, row, nextSeq, now>>

\* add_opaque_fence: an identical fence is left alone, any other replaced.
add_opaque_fence(d, id, p) ==
    LET f == [kind |-> "opaque", id |-> id, process |-> p]
    IN  fence[d] # f /\ ReplaceFence(d, f, VisibleJobs(d, f, {}))

\* A job-v1 REGISTER of process p that reports no active execution.
clear_fence_on_process_replacement(d, p) ==
    /\ Fenced(d) /\ fence[d].process # p
    /\ ReplaceFence(d, NoFence, VisibleJobs(d, fence[d], {j \in Jobs : ExactFence(d, j)}))

\* Mutant: only the blocking job is revised.
clear_matching_fence_quietly(j, d) ==
    ExactFence(d, j) /\ ReplaceFence(d, NoFence, {j})

\* clear_matching_fence, and the two ways reconcile_report and
\* settle_late_fenced_result delete the fence of an unconfirmed row.
clear_matching_fence(j, d) ==
    /\ ExactFence(d, j)
    /\ ReplaceFence(d, NoFence, VisibleJobs(d, NoFence, {j}))

\* An exact result or report for the opaque job id.
clear_matching_opaque_fence(d, id) ==
    /\ fence[d].kind = "opaque" /\ fence[d].id = id /\ id # Unidentified
    /\ ReplaceFence(d, NoFence, VisibleJobs(d, fence[d], {}))

\* REGISTER names a job of this server with another artifact: after the opaque
\* fence, the row fails.  A client reports only jobs it was sent.
RegisterArtifactMismatch(j, d) ==
    /\ job[j].state \in Dispatched
    /\ fence[d].kind = "opaque" /\ fence[d].id = j
    /\ transition_device(j, d, DeviceState \ TERMINAL_DEVICE_STATES,
                         Cleared(row[j][d], "failed"))

-----------------------------------------------------------------------------
(* Server start: recover_startup_sync, then reconcile_missing_artifacts_sync *)
(* for the jobs whose artifact file is gone.  Both run before the event loop. *)

RecoveredRow(r) ==
    CASE r.state = "waiting_transfer" -> [r EXCEPT !.state = "queued"]
      [] r.state = "dispatching" \/ (r.state = "reconciling" /\ ~r.accepted) ->
            [Reconciling(r, "server_restart", AcceptReconTimeout)
                EXCEPT !.acceptBy = NoTime]
      [] r.state \in {"downloading", "validating", "applying"}
            \/ (r.state = "reconciling" /\ r.accepted) ->
            [Reconciling(r, "server_restart", ReconTimeout)
                EXCEPT !.acceptBy = NoTime]
      [] OTHER -> r

RecoveredJob(jb, rs) ==
    CASE \/ jb.state = "created" /\ now >= jb.expires
         \/ jb.state \in {"uploading", "packaging"} ->
            [jb EXCEPT !.state = "interrupted"]
      [] jb.state \in Dispatched ->
            [jb EXCEPT !.state = Rederived(@, rs), !.enabled = FALSE]
      [] OTHER -> jb

RowWithoutArtifact(r) ==
    IF r.state \in {"queued", "waiting_transfer", "dispatching", "downloading"}
    THEN [r EXCEPT !.state = "failed"] ELSE r

Restart(gone) ==
    LET row1 == [j \in Jobs |-> [d \in Devices |-> RecoveredRow(row[j][d])]]
        job1 == [j \in Jobs |-> RecoveredJob(job[j], row1[j])]
        row2 == [j \in Jobs |-> IF j \in gone /\ job1[j].state \in Dispatched
                   THEN [d \in Devices |-> RowWithoutArtifact(row1[j][d])]
                   ELSE row1[j]]
    IN  /\ gone \subseteq {j \in Jobs : job[j].state \in {"ready"} \cup Dispatched}
        /\ row' = row2
        /\ job' = [j \in Jobs |->
              CASE j \in gone /\ job1[j].state = "ready" ->
                      [job1[j] EXCEPT !.state = "failed", !.enabled = FALSE]
                [] j \in gone /\ job1[j].state \in Dispatched ->
                      [job1[j] EXCEPT !.state = Rederived(@, row2[j])]
                [] OTHER -> job1[j]]
        /\ revised' = gone \cup
              {j \in Jobs : \/ job[j].state \in {"uploading", "packaging"} \cup Dispatched
                            \/ job[j].state = "created" /\ now >= job[j].expires}
        /\ UNCHANGED <<fence, nextSeq, now>>

Tick == now < MaxNow /\ now' = now + 1 /\ UNCHANGED <<job, row, fence, nextSeq, revised>>

-----------------------------------------------------------------------------
JobStep(j) ==
    \/ \E targets \in SUBSET Devices : create_job(j, targets)
    \/ start_upload(j) \/ mark_packaging(j) \/ publish_artifact(j)
    \/ fail_pre_dispatch(j) \/ enable_dispatch(j)
    \/ \E t \in 1..now : expire_created(j, t)

RowStep(j, d) ==
    \/ \E online \in SUBSET Devices : claim_next(online, j, d)
    \/ \E v1 \in BOOLEAN : prepare_dispatch(j, d, v1)
    \/ RequeueWaiting(j, d) \/ requeue_after_send_race(j, d)
    \/ CommandAccepted(j, d) \/ BusyWithSameJob(j, d) \/ fail_current(j, d)
    \/ transfer_complete(j, d) \/ validation_complete(j, d) \/ handle_phase(j, d)
    \/ \E s \in {"succeeded", "failed"} : settle_result(j, d, s)
    \/ \E t \in 1..now : mark_acceptance_reconciling(j, d, t)
    \/ DeviceDisconnected(j, d)
    \/ \E t \in {AcceptReconTimeout, ReconTimeout} : DispatchUncertain(j, d, t)
    \/ \E phase \in {"downloading", "validating", "applying"} :
            ReconcileActive(j, d, phase)
    \/ \E absent \in BOOLEAN : ReconcileGone(j, d, absent)
    \/ \E t \in 1..now, p \in Processes \cup {None} : mark_unconfirmed(j, d, t, p)
    \/ clear_matching_fence(j, d)
    \/ RegisterArtifactMismatch(j, d)

FenceStep(d) ==
    \/ \E id \in Jobs \cup Foreign \cup {Unidentified}, p \in Processes \cup {None} :
            add_opaque_fence(d, id, p)
    \/ \E p \in Processes : clear_fence_on_process_replacement(d, p)
    \/ \E id \in Jobs \cup Foreign : clear_matching_opaque_fence(d, id)

Next ==
    \/ \E j \in Jobs : JobStep(j)
    \/ \E j \in Jobs, d \in Devices : RowStep(j, d)
    \/ \E d \in Devices : FenceStep(d)
    \/ \E gone \in SUBSET Jobs : Restart(gone)
    \/ Tick

Spec == Init /\ [][Next]_vars

-----------------------------------------------------------------------------
(* Properties.                                                             *)

\* A device never has two active assignments, so the unique index
\* ux_push_job_device_active never has to reject a write.
OneActivePerDevice ==
    \A d \in Devices, j, k \in Jobs : Active(j, d) /\ Active(k, d) => j = k

\* While an assignment holds its device, no older assignment of a
\* non-terminal job is still queued there: nothing jumps the device queue,
\* whether the older job is uploading, paused, or was requeued.
NoOvertaking ==
    \A d \in Devices, j, k \in Jobs :
        /\ Active(j, d)
        /\ row[k][d].state = "queued" /\ job[k].state \in NonTerminalJob
        => job[j].seq < job[k].seq

\* A job fence names a row that is unconfirmed, and while it stands no
\* assignment holds the device.
JobFenceSound ==
    \A d \in Devices : fence[d].kind = "job" =>
        /\ \A j \in Jobs : fence[d].id = j => row[j][d].state = "unconfirmed"
        /\ \A j \in Jobs : ~Active(j, d)

StateMatches(s, rs) ==
    /\ s \in PreDispatch => RowStates(rs) = {"queued"}
    /\ s \in Dispatched \cup {"succeeded", "completed_with_errors"} =>
           s = derive_dispatched_job_state(RowStates(rs))
    /\ s \in {Missing, "failed", "interrupted"} =>
           \A d \in Devices : rs[d].state \notin ACTIVE_DEVICE_STATES

\* The state column of a job agrees with its rows: before dispatch every row
\* is queued; from dispatch on it is the derived state; a job that failed or
\* was interrupted has no active row.
JobStateMatchesRows == \A j \in Jobs : StateMatches(job[j].state, row[j])

\* A finished assignment or job keeps its outcome whatever message, sweep or
\* restart comes later.
TerminalIsFinal ==
    [][\A j \in Jobs :
          /\ job[j].state \in TERMINAL_JOB_STATES => job'[j].state = job[j].state
          /\ \A d \in Devices : row[j][d].state \in TERMINAL_DEVICE_STATES =>
                 row'[j][d].state = row[j][d].state]_vars

\* Every committed change of a job or of its rows, restart included, and every
\* fence change of a device some non-terminal job targets, increments the
\* revision of that job, so the console cannot drop it as already seen.
ChangesAreRevised ==
    [][\A j \in Jobs :
          \/ j \in revised'
          \/ /\ job'[j] = job[j] /\ row'[j] = row[j]
             /\ \A d \in Devices :
                    /\ job[j].state \in NonTerminalJob
                    /\ row[j][d].state # Missing
                    => fence'[d] = fence[d]]_vars

Started(j, d) == row[j][d].state \in {"downloading", "validating", "applying"}

\* Once the device was seen executing an assignment, the assignment is never
\* put back in the queue: no replay, send race or restart sends it again.
StartedNeverRequeued ==
    \A j \in Jobs, d \in Devices :
        [](Started(j, d) => [](row[j][d].state # "queued"))
=============================================================================
