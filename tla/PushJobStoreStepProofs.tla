----------------------- MODULE PushJobStoreStepProofs -----------------------
(***************************************************************************)
(* What the steps of PushJobStore do, for every set of jobs, devices and   *)
(* processes and every choice of the timeouts: each is a step of           *)
(* AssignmentLedger, and none changes the past.  Outcomes are final, an    *)
(* execution that was seen is not repeated, and no change goes without a   *)
(* revision.                                                               *)
(***************************************************************************)
EXTENDS PushJobStoreProofs, PushJobStoreRefinement

Unsent == {"queued", "waiting_transfer", "dispatching"}

\* What a transaction that writes one row does to it: it is claimed, refused,
\* settled, moved on without forgetting an acceptance, or given back while it
\* is not known to be accepted.
RowMove(j, d, r) ==
    /\ r \in RowRecord /\ job[j].state \in Dispatched /\ WritesRow(j, d, r)
    /\ \/ Claimable(j, d) /\ r.state = "waiting_transfer" /\ ~r.accepted
       \/ row[j][d].state = "queued" /\ r.state = "failed"
       \/ Active(j, d) /\ r.state \in TERMINAL_DEVICE_STATES
       \/ /\ Active(j, d) /\ r.state \in ACTIVE_DEVICE_STATES
          /\ row[j][d].accepted => r.accepted
          /\ r.state \in Unsent => ~r.accepted
       \/ Active(j, d) /\ r.state = "queued" /\ ~row[j][d].accepted /\ ~r.accepted

USE DEF Missing, NoTime, NoReason, PreDispatch, Dispatched, TERMINAL_JOB_STATES,
        NonTerminalJob, TERMINAL_DEVICE_STATES, ACTIVE_DEVICE_STATES, DeviceState,
        ReplayableReasons, Reasons

\* An active row that is written moves.
LEMMA ActiveMove ==
    ASSUME IInv, NEW j \in Jobs, NEW d \in Devices, NEW r \in RowRecord,
           Active(j, d), WritesRow(j, d, r),
           \/ r.state \in TERMINAL_DEVICE_STATES
           \/ /\ r.state \in ACTIVE_DEVICE_STATES
              /\ row[j][d].accepted => r.accepted
              /\ r.state \in Unsent => ~r.accepted
           \/ r.state = "queued" /\ ~row[j][d].accepted /\ ~r.accepted
    PROVE  RowMove(j, d, r)
<1>1. job[j].state \in Dispatched
  BY Zenon, ActiveIsDispatched DEF IInv
<1> QED
  BY Zenon, <1>1 DEF RowMove

\* The same for transition_device.
LEMMA TransitionMove ==
    ASSUME IInv, NEW j \in Jobs, NEW d \in Devices, NEW r \in RowRecord,
           NEW expected \in SUBSET ACTIVE_DEVICE_STATES,
           transition_device(j, d, expected, r),
           \/ r.state \in TERMINAL_DEVICE_STATES
           \/ /\ r.state \in ACTIVE_DEVICE_STATES
              /\ row[j][d].accepted => r.accepted
              /\ r.state \in Unsent => ~r.accepted
           \/ r.state = "queued" /\ ~row[j][d].accepted /\ ~r.accepted
    PROVE  RowMove(j, d, r)
<1>1. Active(j, d) /\ WritesRow(j, d, r)
  BY Zenon DEF transition_device, Active, PutRow, WritesRow
<1> QED
  BY Zenon, <1>1, ActiveMove

\* A row put into another state keeps what is known of its acceptance.
LEMMA StateChange ==
    ASSUME NEW r \in RowRecord, NEW s \in DeviceState
    PROVE  /\ [r EXCEPT !.state = s] \in RowRecord
           /\ [r EXCEPT !.state = s].state = s
           /\ [r EXCEPT !.state = s].accepted = r.accepted
BY Zenon DEF RowRecord

\* A row whose acceptance is recorded.
LEMMA AcceptedChange ==
    ASSUME NEW r \in RowRecord, NEW s \in DeviceState
    PROVE  /\ [Cleared(r, s) EXCEPT !.accepted = TRUE] \in RowRecord
           /\ [Cleared(r, s) EXCEPT !.accepted = TRUE].state = s
           /\ [Cleared(r, s) EXCEPT !.accepted = TRUE].accepted
<1>1. \A q \in RowRecord :
          /\ [q EXCEPT !.accepted = TRUE] \in RowRecord
          /\ [q EXCEPT !.accepted = TRUE].state = q.state
          /\ [q EXCEPT !.accepted = TRUE].accepted
  BY Zenon DEF RowRecord
<1> QED
  BY <1>1, ClearedType

\* Every step on an assignment changes a fence only, or moves one row.
LEMMA RowStepShape ==
    ASSUME IInv, UnsentNotAccepted, NEW j \in Jobs, NEW d \in Devices, RowStep(j, d)
    PROVE  UNCHANGED <<job, row, nextSeq>> \/ \E r \in RowRecord : RowMove(j, d, r)
<1> DEFINE r == row[j][d]
           Moved == \E q \in RowRecord : RowMove(j, d, q)
<1> r \in RowRecord /\ now \in Nat
  BY Zenon DEF IInv, TypeOK
<1>0. r.state \in Unsent => ~r.accepted
  BY Zenon DEF UnsentNotAccepted, Unsent
<1>1. CASE \E online \in SUBSET Devices : claim_next(online, j, d)
  <2> DEFINE q == [r EXCEPT !.state = "waiting_transfer"]
  <2>1. /\ Claimable(j, d) /\ PutRow(j, d, q)
        /\ r.state = "queued" /\ job[j].state \in Dispatched
    BY Zenon, <1>1 DEF claim_next, Claimable
  <2>2. q \in RowRecord /\ q.state = "waiting_transfer" /\ ~q.accepted
    BY Zenon, <1>0, <2>1, StateChange DEF Unsent
  <2> HIDE DEF q, r
  <2>3. WritesRow(j, d, q)
    BY Zenon, <2>1 DEF PutRow, WritesRow
  <2> QED
    BY Zenon, <2>1, <2>2, <2>3 DEF RowMove
<1>2. CASE \E v1 \in BOOLEAN : prepare_dispatch(j, d, v1)
  <2> PICK v1 \in BOOLEAN : prepare_dispatch(j, d, v1)
    BY Zenon, <1>2
  <2> DEFINE t == IF v1 THEN now + AcceptTimeout ELSE NoTime
             q == [r EXCEPT !.state = "dispatching", !.acceptBy = t]
  <2>1. t \in Nat
    BY <1>0, TimeAssumption
  <2>2. Active(j, d) /\ r.state = "waiting_transfer" /\ PutRow(j, d, q)
    BY Zenon DEF prepare_dispatch, Active
  <2>3. q \in RowRecord /\ q.state = "dispatching" /\ ~q.accepted
    <3> HIDE DEF t, r
    <3>1. ~r.accepted
      BY Zenon, <1>0, <2>2 DEF Unsent
    <3>2. "dispatching" \in DeviceState
      BY Zenon
    <3>3. /\ q \in RowRecord /\ q.state = "dispatching"
          /\ q.accepted = r.accepted
      <4> HIDE DEF DeviceState
      <4> QED
        BY <2>1, <3>2, Zenon DEF RowRecord
    <3> QED
      BY Zenon, <3>1, <3>3
  <2>4. ~r.accepted
    BY Zenon, <1>0, <2>2 DEF Unsent
  <2> HIDE DEF q
  <2>5. WritesRow(j, d, q)
    BY Zenon, <2>2 DEF PutRow, WritesRow
  <2> QED
    BY Zenon, <2>2, <2>3, <2>4, <2>5, ActiveMove
<1>3. CASE RequeueWaiting(j, d)
  <2> DEFINE q == [r EXCEPT !.state = "queued"]
  <2>1. transition_device(j, d, {"waiting_transfer"}, q) /\ r.state = "waiting_transfer"
    BY Zenon, <1>3 DEF RequeueWaiting, transition_device
  <2>2. q \in RowRecord /\ q.state = "queued" /\ ~q.accepted /\ ~r.accepted
    BY Zenon, <1>0, <2>1, StateChange DEF Unsent
  <2> HIDE DEF q
  <2> QED
    BY Zenon, <2>1, <2>2, TransitionMove
<1>4. CASE requeue_after_send_race(j, d)
  <2> DEFINE q == [r EXCEPT !.state = "queued", !.acceptBy = NoTime]
  <2>1. transition_device(j, d, {"dispatching"}, q) /\ r.state = "dispatching"
    BY Zenon, <1>4 DEF requeue_after_send_race, transition_device
  <2>2. q \in RowRecord /\ q.state = "queued" /\ ~q.accepted /\ ~r.accepted
    <3>1. q \in RowRecord /\ q.state = "queued" /\ q.accepted = r.accepted
      <4> HIDE DEF r
      <4> QED
        BY Zenon DEF RowRecord
    <3> HIDE DEF q
    <3> QED
      BY Zenon, <1>0, <2>1, <3>1 DEF Unsent
  <2> HIDE DEF q
  <2> QED
    BY Zenon, <2>1, <2>2, TransitionMove
<1>5. CASE CommandAccepted(j, d)
  <2> DEFINE q == [Cleared(r, "downloading") EXCEPT !.accepted = TRUE]
  <2>1. transition_device(j, d, {"dispatching", "reconciling"}, q)
    BY Zenon, <1>5 DEF CommandAccepted
  <2>2. q \in RowRecord /\ q.state = "downloading" /\ q.accepted
    BY Zenon, AcceptedChange
  <2> HIDE DEF q
  <2> QED
    BY Zenon, <2>1, <2>2, TransitionMove DEF Unsent
<1>6. CASE BusyWithSameJob(j, d)
  <2> DEFINE q == [r EXCEPT !.state = "downloading", !.accepted = TRUE,
                            !.acceptBy = NoTime]
  <2>1. transition_device(j, d, {"dispatching", "reconciling"}, q)
    BY Zenon, <1>6 DEF BusyWithSameJob
  <2>2. q \in RowRecord /\ q.state = "downloading" /\ q.accepted
    BY Zenon DEF RowRecord
  <2> HIDE DEF q
  <2> QED
    BY Zenon, <2>1, <2>2, TransitionMove DEF Unsent
<1>7. CASE fail_current(j, d)
  <2>1. Cleared(r, "failed") \in RowRecord /\ Cleared(r, "failed").state = "failed"
    BY Zenon, ClearedType
  <2> QED
    BY Zenon, <1>7, <2>1, TransitionMove DEF fail_current
<1>8. CASE transfer_complete(j, d)
  <2> DEFINE q == Cleared(r, "validating")
  <2>1. q \in RowRecord /\ q.state = "validating" /\ q.accepted = r.accepted
    BY Zenon, ClearedType
  <2>2. transition_device(j, d, {"downloading"}, q)
    BY Zenon, <1>8 DEF transfer_complete
  <2> HIDE DEF q
  <2> QED
    BY Zenon, <2>1, <2>2, TransitionMove DEF Unsent
<1>9. CASE validation_complete(j, d)
  <2>1. transition_device(j, d, {"validating"}, r) /\ r.state = "validating"
    BY Zenon, <1>9 DEF validation_complete, transition_device
  <2> QED
    BY Zenon, <1>0, <2>1, TransitionMove DEF Unsent
<1>10. CASE handle_phase(j, d)
  <2> DEFINE q == [r EXCEPT !.state = "applying", !.reason = NoReason,
                            !.reconBy = NoTime]
  <2>1. q \in RowRecord /\ q.state = "applying" /\ q.accepted = r.accepted
    BY Zenon DEF RowRecord
  <2>2. transition_device(j, d, {"validating", "reconciling"}, q)
    BY Zenon, <1>10 DEF handle_phase
  <2> HIDE DEF q
  <2> QED
    BY Zenon, <2>1, <2>2, TransitionMove DEF Unsent
<1>11. CASE \E s \in {"succeeded", "failed"} : settle_result(j, d, s)
  <2> PICK s \in {"succeeded", "failed"} : settle_result(j, d, s)
    BY Zenon, <1>11
  <2>1. Cleared(r, s) \in RowRecord /\ Cleared(r, s).state = s
    BY Zenon, ClearedType
  <2>2. Active(j, d) /\ WritesRow(j, d, Cleared(r, s))
    BY Zenon DEF settle_result, Active, PutRow, WritesRow
  <2> QED
    BY Zenon, <2>1, <2>2, ActiveMove
<1>12. CASE \E t \in 1..now : mark_acceptance_reconciling(j, d, t)
  <2> DEFINE q == Reconciling(r, "command_accept_timeout", AcceptReconTimeout)
  <2>1. Active(j, d) /\ PutRow(j, d, q)
    BY Zenon, <1>12 DEF mark_acceptance_reconciling, Active
  <2>2. AcceptReconTimeout \in Nat
    BY Zenon, TimeAssumption
  <2>3. q \in RowRecord /\ q.state = "reconciling" /\ q.accepted = r.accepted
    <3>1. \A reason \in Reasons :
              /\ Reconciling(r, reason, AcceptReconTimeout) \in RowRecord
              /\ Reconciling(r, reason, AcceptReconTimeout).state = "reconciling"
              /\ Reconciling(r, reason, AcceptReconTimeout).accepted = r.accepted
      <4> HIDE DEF r
      <4> QED
        BY Zenon, <2>2, ReconcilingType
    <3> QED
      BY Zenon, <3>1
  <2> HIDE DEF q
  <2>4. WritesRow(j, d, q)
    BY Zenon, <2>1 DEF PutRow, WritesRow
  <2> QED
    BY Zenon, <2>1, <2>3, <2>4, ActiveMove DEF Unsent
<1>13. ASSUME NEW reason \in Reasons, NEW t \in Nat,
              NEW expected \in SUBSET ACTIVE_DEVICE_STATES,
              mark_reconciling(j, d, expected, reason, t)
       PROVE  Moved
  <2> DEFINE c == Reconciling(r, reason, t)
             q == [c EXCEPT !.acceptBy = NoTime]
  <2>1. c \in RowRecord /\ c.state = "reconciling" /\ c.accepted = r.accepted
    <3> HIDE DEF r
    <3> QED
      BY Zenon, ReconcilingType
  <2>2. transition_device(j, d, expected, q)
    BY Zenon, <1>13 DEF mark_reconciling
  <2> HIDE DEF c
  <2>3. q \in RowRecord /\ q.state = "reconciling" /\ q.accepted = r.accepted
    BY Zenon, <2>1 DEF RowRecord
  <2> HIDE DEF q
  <2> QED
    BY Zenon, <2>2, <2>3, TransitionMove DEF Unsent
<1>14. CASE DeviceDisconnected(j, d)
  BY Zenon, <1>13, <1>14, TimeAssumption
  DEF DeviceDisconnected, DispatchedPhases
<1>15. CASE \E t \in {AcceptReconTimeout, ReconTimeout} : DispatchUncertain(j, d, t)
  BY Zenon, <1>13, <1>15, TimeAssumption
  DEF DispatchUncertain, DispatchedPhases
<1>16. CASE \E phase \in {"downloading", "validating", "applying"} :
                ReconcileActive(j, d, phase)
  <2> PICK phase \in {"downloading", "validating", "applying"} :
           ReconcileActive(j, d, phase)
    BY Zenon, <1>16
  <2> DEFINE q == [Cleared(r, phase) EXCEPT !.accepted = TRUE]
  <2>1. q \in RowRecord /\ q.state = phase /\ q.accepted
    BY Zenon, AcceptedChange
  <2>2. Active(j, d) /\ PutRow(j, d, q)
    BY Zenon DEF ReconcileActive, Active
  <2> HIDE DEF q
  <2>3. WritesRow(j, d, q)
    BY Zenon, <2>2 DEF PutRow, WritesRow
  <2> QED
    BY Zenon, <2>1, <2>2, <2>3, ActiveMove DEF Unsent
<1>17. CASE \E absent \in BOOLEAN : ReconcileGone(j, d, absent)
  <2> DEFINE c == Cleared(r, "queued")
             q == [c EXCEPT !.replays = c.replays + 1]
             i == Cleared(r, "interrupted")
  <2>1. /\ c \in RowRecord /\ c.state = "queued"
        /\ c.replays = r.replays /\ c.accepted = r.accepted
    BY Zenon, ClearedType
  <2>2. i \in RowRecord /\ i.state = "interrupted"
    BY Zenon, ClearedType
  <2>3. /\ Active(j, d)
        /\ \/ Replayable(j, d) /\ PutRow(j, d, q)
           \/ PutRow(j, d, i)
    BY Zenon, <1>17 DEF ReconcileGone, Active
  <2>4. ASSUME Replayable(j, d), PutRow(j, d, q)
        PROVE  Moved
    <3>1. ~r.accepted /\ c.replays + 1 \in 0..1
      BY <1>0, <2>1, <2>4 DEF Replayable, RowRecord
    <3>2. \A n \in 0..1 : /\ [c EXCEPT !.replays = n] \in RowRecord
                          /\ [c EXCEPT !.replays = n].state = "queued"
                          /\ [c EXCEPT !.replays = n].accepted = r.accepted
      <4> HIDE DEF c
      <4> QED
        BY Zenon, <2>1 DEF RowRecord
    <3>3. q \in RowRecord /\ q.state = "queued" /\ ~q.accepted
      BY Zenon, <3>1, <3>2
    <3> HIDE DEF q, i
    <3>4. WritesRow(j, d, q)
      BY Zenon, <2>4 DEF PutRow, WritesRow
    <3> QED
      BY Zenon, <2>3, <3>1, <3>3, <3>4, ActiveMove
  <2>5. ASSUME PutRow(j, d, i)
        PROVE  Moved
    <3> HIDE DEF i, q
    <3>1. WritesRow(j, d, i)
      BY Zenon, <2>5 DEF PutRow, WritesRow
    <3> QED
      BY Zenon, <2>2, <2>3, <3>1, ActiveMove
  <2> QED
    BY Zenon, <2>3, <2>4, <2>5
<1>18. CASE \E t \in 1..now, p \in Processes \cup {None} : mark_unconfirmed(j, d, t, p)
  <2> DEFINE q == Cleared(r, "unconfirmed")
  <2>1. q \in RowRecord /\ q.state = "unconfirmed"
    BY Zenon, ClearedType
  <2>2. Active(j, d) /\ WritesRow(j, d, q)
    BY Zenon, <1>18, UnconfirmedWrites DEF mark_unconfirmed, Active
  <2> HIDE DEF q
  <2> QED
    BY Zenon, <2>1, <2>2, ActiveMove
<1>19. CASE clear_matching_fence(j, d)
  BY Zenon, <1>19 DEF clear_matching_fence, ReplaceFence
<1>20. CASE RegisterArtifactMismatch(j, d)
  <2> DEFINE q == Cleared(r, "failed")
  <2>1. /\ job[j].state \in Dispatched /\ r.state \in DeviceState \ TERMINAL_DEVICE_STATES
        /\ PutRow(j, d, q)
    BY Zenon, <1>20 DEF RegisterArtifactMismatch, transition_device
  <2>2. q \in RowRecord /\ q.state = "failed"
    BY Zenon, ClearedType
  <2> HIDE DEF q
  <2>3. WritesRow(j, d, q)
    BY Zenon, <2>1 DEF PutRow, WritesRow
  <2> QED
    BY Zenon, <2>1, <2>2, <2>3 DEF RowMove, Active
<1> QED
  BY Zenon, <1>1, <1>2, <1>3, <1>4, <1>5, <1>6, <1>7, <1>8, <1>9, <1>10, <1>11,
      <1>12,
     <1>14, <1>15, <1>16, <1>17, <1>18, <1>19, <1>20 DEF RowStep

-----------------------------------------------------------------------------
(* The ledger's view of a step.                                            *)

\* The status of an assignment at once, and after a step.
LEMMA StatusAt ==
    ASSUME NEW j \in Jobs, NEW d \in Devices
    PROVE  /\ Status[j][d] = StatusOf(job[j].state, row[j][d])
           /\ Status'[j][d] = StatusOf(job'[j].state, row'[j][d])
BY Zenon DEF Status

\* Only a queued row looks at its job, and only at whether it has ended.
LEMMA StatusOfFacts ==
    ASSUME NEW r \in RowRecord, NEW s, NEW t
    PROVE  /\ StatusOf(s, r) \in Ledger!Statuses
           /\ r.state # "queued" => StatusOf(s, r) = StatusOf(t, r)
           /\ s \in NonTerminalJob /\ t \in NonTerminalJob =>
                  StatusOf(s, r) = StatusOf(t, r)
           /\ StatusOf(s, r) = "waiting" => r.state = "queued" /\ s \in NonTerminalJob
           /\ StatusOf(s, r) \in Ledger!Held => r.state \in ACTIVE_DEVICE_STATES
BY Zenon DEF StatusOf, RowRecord, Ledger!Statuses, Ledger!Outcomes, Ledger!Held

\* A step that keeps every status and every queue position is invisible.
LEMMA Invisible ==
    ASSUME UNCHANGED nextSeq,
           \A j \in Jobs : job'[j].seq = job[j].seq,
           \A j \in Jobs, d \in Devices :
               StatusOf(job'[j].state, row'[j][d]) = StatusOf(job[j].state, row[j][d])
    PROVE  UNCHANGED Ledger!vars
<1>1. Status' = Status
  BY Zenon DEF Status
<1>2. Ticket' = Ticket
  BY Zenon DEF Ticket
<1> QED
  BY Zenon, <1>1, <1>2 DEF Ledger!vars

\* What the ledger sees of a moved row: one status changes.
LEMMA MoveStatus ==
    ASSUME IInv, NEW j \in Jobs, NEW d \in Devices, NEW r \in RowRecord,
           r.state \in DeviceState, RowMove(j, d, r)
    PROVE  Ledger!Becomes(j, d, StatusOf("running", r))
<1> DEFINE v == StatusOf("running", r)
<1>1. /\ row' \in [Jobs -> [Devices -> RowRecord]]
      /\ \A k \in Jobs, e \in Devices :
             row'[k][e] = IF k = j /\ e = d THEN r ELSE row[k][e]
      /\ \A k \in Jobs : k # j => job'[k] = job[k]
      /\ \A k \in Jobs : job'[k].seq = job[k].seq
      /\ job[j].state \in Dispatched
  <2>1. WritesRow(j, d, r) /\ job[j].state \in Dispatched
    BY Zenon DEF RowMove
  <2> QED
    BY <2>1, PutRowEffect DEF IInv
<1>2. nextSeq' = nextSeq
  BY Zenon DEF RowMove, WritesRow
<1>3. job'[j].state = derive_dispatched_job_state(RowStates(row'[j]))
  <2>1. job' = [job EXCEPT ![j].state = Rederived(@, [row[j] EXCEPT ![d] = r])]
    BY Zenon DEF RowMove, WritesRow
  <2>2. row' = [row EXCEPT ![j] = [row[j] EXCEPT ![d] = r]]
    BY Zenon DEF RowMove, WritesRow
  <2>3. row'[j] = [row[j] EXCEPT ![d] = r]
    BY Zenon, <2>2 DEF IInv, TypeOK
  <2>4. job'[j].state = Rederived(job[j].state, row'[j])
    BY <2>1, <2>3 DEF IInv, TypeOK, JobRecord
  <2> QED
    BY Zenon, <1>1, <2>4 DEF Rederived
<1>4. ASSUME NEW e \in Devices, row'[j][e].state = "queued"
      PROVE  job'[j].state \in NonTerminalJob
  <2>1. "queued" \in RowStates(row'[j])
    BY Zenon, <1>4 DEF RowStates
  <2> QED
    BY <1>3, <2>1, DeriveRange
<1>5. ASSUME NEW k \in Jobs, NEW e \in Devices
      PROVE  Status'[k][e] = IF k = j /\ e = d THEN v ELSE Status[k][e]
  <2>1. CASE k # j
    BY <1>1, <2>1, StatusAt
  <2>2. CASE k = j /\ e # d
    <3>1. row'[k][e] = row[k][e] /\ row[k][e] \in RowRecord
      BY Zenon, <1>1, <2>2 DEF IInv, TypeOK
    <3>2. StatusOf(job'[k].state, row[k][e]) = StatusOf(job[k].state, row[k][e])
      BY <1>1, <1>4, <2>2, <3>1, StatusOfFacts
    <3> QED
      BY <2>2, <3>1, <3>2, StatusAt
  <2>3. CASE k = j /\ e = d
    <3>1. row'[k][e] = r
      BY Zenon, <1>1, <2>3
    <3>2. StatusOf(job'[k].state, r) = v
      BY <1>4, <2>3, <3>1, StatusOfFacts
    <3> QED
      BY Zenon, <2>3, <3>1, <3>2, StatusAt
  <2> QED
    BY Zenon, <2>1, <2>2, <2>3
<1>6. Status' = [Status EXCEPT ![j][d] = v]
  <2>1. /\ Status \in [Jobs -> [Devices -> Ledger!Statuses]]
        /\ Status' = [k \in Jobs |-> [e \in Devices |-> Status'[k][e]]]
    <3>1. \A k \in Jobs, e \in Devices :
              StatusOf(job[k].state, row[k][e]) \in Ledger!Statuses
      BY StatusOfFacts DEF IInv, TypeOK
    <3> QED
      BY Zenon, <3>1 DEF Status
  <2> HIDE DEF v
  <2> QED
    BY <1>5, <2>1
<1>7. Ticket' = Ticket
  BY Zenon, <1>1 DEF Ticket
<1> QED
  BY Zenon, <1>2, <1>6, <1>7 DEF Ledger!Becomes

\* A moved row is a step of the ledger, or invisible.
LEMMA MoveSimulates ==
    ASSUME IInv, NEW j \in Jobs, NEW d \in Devices, NEW r \in RowRecord, RowMove(j, d, r)
    PROVE  Ledger!Next \/ UNCHANGED Ledger!vars
<1> DEFINE q == row[j][d]
<1>1. r.state \in DeviceState /\ q \in RowRecord /\ job[j].state \in Dispatched
  BY Zenon DEF RowMove, IInv, TypeOK
<1>2. Ledger!Becomes(j, d, StatusOf("running", r))
  BY Zenon, <1>1, MoveStatus
<1>3. Status[j][d] = StatusOf("running", q)
  BY <1>1, StatusAt, StatusOfFacts
<1>4. CASE Claimable(j, d) /\ r.state = "waiting_transfer" /\ ~r.accepted
  <2>1. Status[j][d] = "waiting" /\ StatusOf("running", r) = "claimed"
    BY Zenon, <1>3, <1>4 DEF Claimable, StatusOf
  <2>2. ASSUME NEW k \in Jobs
        PROVE  /\ Status[k][d] \notin Ledger!Held
               /\ Status[k][d] = "waiting" => Ticket[j] <= Ticket[k]
    <3>1. row[k][d] \in RowRecord /\ ~Active(k, d)
      BY Zenon, <1>4 DEF Claimable, IInv, TypeOK
    <3>2. Status[k][d] \notin Ledger!Held
      BY <3>1, StatusAt, StatusOfFacts DEF Active
    <3>3. Status[k][d] = "waiting" =>
              row[k][d].state = "queued" /\ job[k].state \in NonTerminalJob
      BY <3>1, StatusAt, StatusOfFacts
    <3>4. Ticket[j] = job[j].seq /\ Ticket[k] = job[k].seq
      BY Zenon DEF Ticket
    <3> QED
      BY Zenon, <1>4, <3>2, <3>3, <3>4 DEF Claimable, HeadOfQueue
  <2>3. Ledger!Take(j, d)
    BY Zenon, <1>2, <2>1, <2>2 DEF Ledger!Take
  <2> QED
    BY Zenon, <2>3 DEF Ledger!Next
<1>5. CASE q.state = "queued" /\ r.state = "failed"
  <2>1. Status[j][d] = "waiting" /\ StatusOf("running", r) = "failed"
    BY Zenon, <1>3, <1>5 DEF StatusOf
  <2>2. Ledger!Refuse(j, d)
    BY Zenon, <1>2, <2>1 DEF Ledger!Refuse
  <2> QED
    BY Zenon, <2>2 DEF Ledger!Next
<1>6. ASSUME Active(j, d)
      PROVE  Status[j][d] = IF q.accepted THEN "executing" ELSE "claimed"
  BY Zenon, <1>3, <1>6 DEF StatusOf, Active
<1>7. CASE Active(j, d) /\ r.state \in TERMINAL_DEVICE_STATES
  <2>1. StatusOf("running", r) = r.state
    BY Zenon, <1>7 DEF StatusOf
  <2>2. Ledger!Settle(j, d, r.state)
    BY Zenon, <1>2, <1>6, <1>7, <2>1 DEF Ledger!Settle, Ledger!Held
  <2>3. r.state \in Ledger!Outcomes
    BY Zenon, <1>7 DEF Ledger!Outcomes
  <2> QED
    BY Zenon, <2>2, <2>3 DEF Ledger!Next
<1>8. CASE /\ Active(j, d) /\ r.state \in ACTIVE_DEVICE_STATES
           /\ q.accepted => r.accepted
  <2>1. StatusOf("running", r) = IF r.accepted THEN "executing" ELSE "claimed"
    BY Zenon, <1>8 DEF StatusOf
  <2>2. CASE StatusOf("running", r) = Status[j][d]
    <3>1. Status' = Status
      <4>1. Status = [k \in Jobs |-> [e \in Devices |-> Status[k][e]]]
        BY Zenon DEF Status
      <4>2. Status' = [Status EXCEPT ![j][d] = Status[j][d]]
        BY Zenon, <1>2, <2>2 DEF Ledger!Becomes
      <4> QED
        BY Zenon, <4>1, <4>2
    <3> QED
      BY Zenon, <1>2, <3>1 DEF Ledger!Becomes, Ledger!vars
  <2>3. CASE StatusOf("running", r) # Status[j][d]
    <3>1. Status[j][d] = "claimed" /\ StatusOf("running", r) = "executing"
      BY Zenon, <1>6, <1>8, <2>1, <2>3
    <3>2. Ledger!Start(j, d)
      BY Zenon, <1>2, <3>1 DEF Ledger!Start
    <3> QED
      BY Zenon, <3>2 DEF Ledger!Next
  <2> QED
    BY Zenon, <2>2, <2>3
<1>9. CASE Active(j, d) /\ r.state = "queued" /\ ~q.accepted
  <2>1. Status[j][d] = "claimed" /\ StatusOf("running", r) = "waiting"
    BY Zenon, <1>6, <1>9 DEF StatusOf
  <2>2. Ledger!Requeue(j, d)
    BY Zenon, <1>2, <2>1 DEF Ledger!Requeue
  <2> QED
    BY Zenon, <2>2 DEF Ledger!Next
<1> QED
  BY Zenon, <1>4, <1>5, <1>7, <1>8, <1>9 DEF RowMove

\* A job that moves before its dispatch: its rows all wait, so it is withdrawn
\* when it ends and invisible otherwise.
LEMMA MoveJobSimulates ==
    ASSUME IInv, NEW j \in Jobs, job[j].state \in PreDispatch,
           NEW s \in PreDispatch \cup {"interrupted", "failed"}, MoveJob(j, s)
    PROVE  Ledger!Next \/ UNCHANGED Ledger!vars
<1>1. /\ job \in [Jobs -> JobRecord] /\ row \in [Jobs -> [Devices -> RowRecord]]
      /\ job' = [job EXCEPT ![j].state = s] /\ row' = row /\ nextSeq' = nextSeq
  BY Zenon DEF IInv, TypeOK, MoveJob
<1>2. /\ job'[j].state = s
      /\ \A k \in Jobs : job'[k].seq = job[k].seq
      /\ \A k \in Jobs : k # j => job'[k] = job[k]
  BY Zenon, <1>1 DEF JobRecord
<1>3. \A d \in Devices : row[j][d].state \in {"queued", Missing}
  BY Zenon DEF IInv, JobStateMatchesRows, StateMatches, RowStates
<1>4. CASE s \in PreDispatch
  <2>1. ASSUME NEW k \in Jobs, NEW d \in Devices
        PROVE  StatusOf(job'[k].state, row'[k][d]) = StatusOf(job[k].state, row[k][d])
    BY <1>1, <1>2, <1>4, StatusOfFacts
  <2> QED
    BY Zenon, <1>1, <1>2, <2>1, Invisible
<1>5. CASE s \in {"interrupted", "failed"}
  <2>1. ASSUME NEW d \in Devices
        PROVE  /\ Status[j][d] \in {"none", "waiting"}
               /\ Status'[j][d] = IF Status[j][d] = "waiting" THEN "withdrawn" ELSE "none"
    BY <1>1, <1>2, <1>3, <1>5, StatusAt DEF StatusOf
  <2>2. ASSUME NEW k \in Jobs, k # j, NEW d \in Devices
        PROVE  Status'[k][d] = Status[k][d]
    BY <1>1, <1>2, <2>2, StatusAt
  <2>3. Status' = [Status EXCEPT ![j] = [d \in Devices |->
                      IF Status[j][d] = "waiting" THEN "withdrawn" ELSE "none"]]
    <3>1. /\ Status = [k \in Jobs |-> [d \in Devices |-> Status[k][d]]]
          /\ Status' = [k \in Jobs |-> [d \in Devices |-> Status'[k][d]]]
      BY Zenon DEF Status
    <3> QED
      BY <2>1, <2>2, <3>1
  <2>4. Ticket' = Ticket
    BY Zenon, <1>2 DEF Ticket
  <2>5. Ledger!Withdraw(j)
    BY Zenon, <1>1, <2>1, <2>3, <2>4 DEF Ledger!Withdraw
  <2> QED
    BY Zenon, <2>5 DEF Ledger!Next
<1> QED
  BY Zenon, <1>4, <1>5

\* create_job is the ledger's Submit: the job had no row, and its rows wait.
LEMMA CreateSimulates ==
    ASSUME IInv, NEW j \in Jobs, NEW targets \in SUBSET Devices, create_job(j, targets)
    PROVE  Ledger!Next
<1> DEFINE jb == [state |-> "created", enabled |-> FALSE,
                  expires |-> now + CreateTimeout, seq |-> nextSeq]
           rs == [d \in Devices |-> IF d \in targets
                    THEN [EmptyRow EXCEPT !.state = "queued"] ELSE EmptyRow]
<1>1. /\ job \in [Jobs -> JobRecord] /\ row \in [Jobs -> [Devices -> RowRecord]]
      /\ job' = [job EXCEPT ![j] = jb] /\ row' = [row EXCEPT ![j] = rs]
      /\ nextSeq' = nextSeq + 1 /\ job[j].state = Missing
  BY Zenon DEF IInv, TypeOK, create_job
<1>2. jb.state = "created" /\ jb.seq = nextSeq
  BY Zenon
<1>3. \A d \in Devices : rs[d].state = IF d \in targets THEN "queued" ELSE Missing
  BY Zenon DEF EmptyRow
<1> HIDE DEF jb, rs
<1>4. \A d \in Devices : Status[j][d] = "none"
  BY Zenon, <1>1, StatusAt DEF IInv, QueueOrder, StatusOf
<1>5. \A d \in Devices : Status'[j][d] = IF d \in targets THEN "waiting" ELSE "none"
  BY Zenon, <1>1, <1>2, <1>3, StatusAt DEF StatusOf
<1>6. ASSUME NEW k \in Jobs, k # j, NEW d \in Devices
      PROVE  Status'[k][d] = Status[k][d]
  BY <1>1, <1>6, StatusAt
<1>7. Status' = [Status EXCEPT ![j] = [d \in Devices |->
                    IF d \in targets THEN "waiting" ELSE "none"]]
  <2>1. /\ Status = [k \in Jobs |-> [d \in Devices |-> Status[k][d]]]
        /\ Status' = [k \in Jobs |-> [d \in Devices |-> Status'[k][d]]]
    BY Zenon DEF Status
  <2> QED
    BY <1>5, <1>6, <2>1
<1>8. Ticket' = [Ticket EXCEPT ![j] = nextSeq]
  BY Zenon, <1>1, <1>2 DEF Ticket
<1>9. Ledger!Submit(j, targets)
  BY Zenon, <1>1, <1>4, <1>7, <1>8 DEF Ledger!Submit
<1> QED
  BY Zenon, <1>9 DEF Ledger!Next

\* The steps of a job up to its dispatch.
LEMMA JobStepSimulates ==
    ASSUME IInv, NEW j \in Jobs, JobStep(j)
    PROVE  Ledger!Next \/ UNCHANGED Ledger!vars
<1>1. CASE \E targets \in SUBSET Devices : create_job(j, targets)
  BY Zenon, <1>1, CreateSimulates
<1>2. CASE start_upload(j)
  BY Zenon, <1>2, MoveJobSimulates DEF start_upload
<1>3. CASE mark_packaging(j) \/ publish_artifact(j)
  BY Zenon, <1>3, MoveJobSimulates DEF mark_packaging, publish_artifact
<1>4. CASE fail_pre_dispatch(j)
  BY Zenon, <1>4, MoveJobSimulates DEF fail_pre_dispatch
<1>5. CASE enable_dispatch(j)
  <2>1. /\ job \in [Jobs -> JobRecord] /\ row \in [Jobs -> [Devices -> RowRecord]]
        /\ job' = [job EXCEPT ![j].enabled = TRUE,
                              ![j].state = IF @ = "ready" THEN "running" ELSE @]
        /\ job[j].state \in NonTerminalJob
        /\ row' = row /\ nextSeq' = nextSeq
    BY Zenon, <1>5 DEF IInv, TypeOK, enable_dispatch
  <2>2. /\ \A k \in Jobs : job'[k].seq = job[k].seq
        /\ \A k \in Jobs : k # j => job'[k] = job[k]
        /\ job'[j].state \in NonTerminalJob
    BY Zenon, <2>1 DEF JobRecord
  <2>3. ASSUME NEW k \in Jobs, NEW d \in Devices
        PROVE  StatusOf(job'[k].state, row'[k][d]) = StatusOf(job[k].state, row[k][d])
    BY <2>1, <2>2, StatusOfFacts
  <2> QED
    BY Zenon, <2>1, <2>2, <2>3, Invisible
<1>6. CASE \E t \in 1..now : expire_created(j, t)
  BY Zenon, <1>6, MoveJobSimulates DEF expire_created
<1> QED
  BY Zenon, <1>1, <1>2, <1>3, <1>4, <1>5, <1>6 DEF JobStep

\* A server restart is the ledger's Restart: what the device is known to
\* execute stays, a claim may be given back.
LEMMA RestartSimulates ==
    ASSUME IInv, UnsentNotAccepted, NEW gone \in SUBSET Jobs, Restart(gone)
    PROVE  Ledger!Restart
<1>1. /\ row' \in [Jobs -> [Devices -> RowRecord]]
      /\ row \in [Jobs -> [Devices -> RowRecord]]
      /\ nextSeq' = nextSeq
      /\ \A j \in Jobs : job'[j].seq = job[j].seq
  BY Zenon, RestartShape DEF IInv, TypeOK
<1>2. ASSUME NEW j \in Jobs, NEW d \in Devices
      PROVE  Status'[j][d] \in Ledger!Recovers(Status[j][d])
  <2> DEFINE r == row[j][d]
             q == row'[j][d]
             s == job[j].state
             t == job'[j].state
  <2>0. Status[j][d] = StatusOf(s, r) /\ Status'[j][d] = StatusOf(t, q)
    BY Zenon, StatusAt
  <2>1. r \in RowRecord /\ q \in RowRecord /\ RestartedRow(r, q)
    BY Zenon, <1>1, RestartShape
  <2>2. CASE Status'[j][d] = Status[j][d]
    BY Zenon, <2>2 DEF Ledger!Recovers
  <2>3. CASE s \notin Dispatched
    <3>1. q = r
      BY Zenon, <2>3, RestartShape
    <3>2. CASE t = s
      BY Zenon, <2>0, <2>2, <3>1, <3>2
    <3>3. CASE s \in PreDispatch /\ t \in {"interrupted", "failed"}
      <4>1. r.state \in {"queued", Missing}
        BY Zenon, <3>3 DEF IInv, JobStateMatchesRows, StateMatches, RowStates
      <4>2. CASE r.state = "queued"
        <5>1. Status[j][d] = "waiting" /\ Status'[j][d] = "withdrawn"
          BY Zenon, <2>0, <3>1, <3>3, <4>2 DEF StatusOf
        <5> QED
          BY Zenon, <5>1 DEF Ledger!Recovers
      <4>3. CASE r.state = Missing
        <5>1. Status'[j][d] = Status[j][d]
          BY Zenon, <2>0, <3>1, <4>3 DEF StatusOf
        <5> QED
          BY Zenon, <2>2, <5>1
      <4> QED
        BY Zenon, <4>1, <4>2, <4>3
    <3>4. \/ t = s
          \/ s \in PreDispatch /\ t \in {"interrupted", "failed"}
      BY Zenon, <2>3, RestartShape
    <3> QED
      BY Zenon, <3>2, <3>3, <3>4
  <2>4. CASE s \in Dispatched
    <3>1. q.state = "queued" => t \in NonTerminalJob
      <4>1. t = derive_dispatched_job_state(RowStates(row'[j]))
        BY Zenon, <2>4, RestartShape
      <4>2. q.state = "queued" => "queued" \in RowStates(row'[j])
        BY Zenon DEF RowStates
      <4> QED
        BY <4>1, <4>2, DeriveRange
    <3> HIDE DEF r, q, s, t
    <3>2. CASE r.state \notin ACTIVE_DEVICE_STATES /\ q = r
      <4>1. StatusOf(t, q) = StatusOf(s, r)
        BY Zenon, <2>1, <2>4, <3>1, <3>2, StatusOfFacts
      <4> QED
        BY Zenon, <2>0, <2>2, <4>1
    <3>3. CASE /\ r.state \in ACTIVE_DEVICE_STATES /\ q.state = "reconciling"
               /\ q.accepted = r.accepted
      <4>1. StatusOf(t, q) = StatusOf(s, r)
        BY Zenon, <3>3 DEF StatusOf
      <4> QED
        BY Zenon, <2>0, <2>2, <4>1
    <3>4. CASE r.state = "waiting_transfer" /\ q.state = "queued"
      <4>1. ~r.accepted
        BY Zenon, <3>4 DEF UnsentNotAccepted, r
      <4>2. StatusOf(s, r) = "claimed" /\ StatusOf(t, q) = "waiting"
        BY Zenon, <3>1, <3>4, <4>1 DEF StatusOf
      <4> QED
        BY Zenon, <2>0, <4>2 DEF Ledger!Recovers
    <3>5. CASE r.state \in {"queued", "waiting_transfer"} /\ q.state = "failed"
      <4>1. r.state = "waiting_transfer" => ~r.accepted
        BY Zenon DEF UnsentNotAccepted, r
      <4>2. StatusOf(s, r) \in {"waiting", "claimed"} /\ StatusOf(t, q) = "failed"
        BY Zenon, <2>4, <3>5, <4>1 DEF StatusOf
      <4> QED
        BY Zenon, <2>0, <4>2 DEF Ledger!Recovers
    <3> QED
      BY Zenon, <2>1, <3>2, <3>3, <3>4, <3>5 DEF RestartedRow
  <2> QED
    BY Zenon, <2>3, <2>4
<1>3. Status' \in [Jobs -> [Devices -> Ledger!Statuses]]
  <2>1. \A j \in Jobs, d \in Devices :
            StatusOf(job'[j].state, row'[j][d]) \in Ledger!Statuses
    BY <1>1, StatusOfFacts
  <2> QED
    BY Zenon, <2>1 DEF Status
<1>4. Ticket' = Ticket
  BY Zenon, <1>1 DEF Ticket
<1> QED
  BY Zenon, <1>1, <1>2, <1>3, <1>4 DEF Ledger!Restart

-----------------------------------------------------------------------------
(* The theorems.                                                           *)

\* No step marks an assignment accepted before it is sent, nor gives an
\* accepted one back to the queue.
LEMMA UnsentStep ==
    ASSUME IInv, UnsentNotAccepted, [Next]_vars
    PROVE  UnsentNotAccepted'
<1>1. CASE UNCHANGED row
  BY Zenon, <1>1 DEF UnsentNotAccepted
<1>2. ASSUME NEW j \in Jobs, NEW d \in Devices, RowStep(j, d)
      PROVE  UnsentNotAccepted'
  <2>1. CASE \E r \in RowRecord : RowMove(j, d, r)
    <3> PICK r \in RowRecord : RowMove(j, d, r)
      BY Zenon, <2>1
    <3>1. \A k \in Jobs, e \in Devices :
              row'[k][e] = IF k = j /\ e = d THEN r ELSE row[k][e]
      <4>1. row' = [row EXCEPT ![j] = [row[j] EXCEPT ![d] = r]]
        BY Zenon DEF RowMove, WritesRow
      <4> QED
        BY Zenon, <4>1 DEF IInv, TypeOK
    <3>2. r.state \in Unsent => ~r.accepted
      BY Zenon DEF RowMove, Unsent
    <3> QED
      BY <3>1, <3>2 DEF UnsentNotAccepted, Unsent
  <2> QED
    BY Zenon, <1>1, <1>2, <2>1, RowStepShape
<1>3. ASSUME NEW j \in Jobs, JobStep(j)
      PROVE  UnsentNotAccepted'
  <2>1. CASE \E targets \in SUBSET Devices : create_job(j, targets)
    <3> PICK targets \in SUBSET Devices : create_job(j, targets)
      BY Zenon, <2>1
    <3>1. row' = [row EXCEPT ![j] = [d \in Devices |-> IF d \in targets
                    THEN [EmptyRow EXCEPT !.state = "queued"] ELSE EmptyRow]]
      BY Zenon DEF create_job
    <3>2. ~EmptyRow.accepted /\ ~[EmptyRow EXCEPT !.state = "queued"].accepted
      BY Zenon DEF EmptyRow
    <3>3. \A k \in Jobs, d \in Devices : row'[k][d] = row[k][d] \/ ~row'[k][d].accepted
      BY Zenon, <3>1, <3>2 DEF IInv, TypeOK
    <3> QED
      BY Zenon, <3>3 DEF UnsentNotAccepted
  <2> QED
    BY Zenon, <1>1, <1>3, <2>1
    DEF JobStep, start_upload, mark_packaging, publish_artifact,
        fail_pre_dispatch, enable_dispatch, expire_created, MoveJob
<1>4. ASSUME NEW d \in Devices, FenceStep(d)
      PROVE  UnsentNotAccepted'
  BY Zenon, <1>1, <1>4
  DEF FenceStep, add_opaque_fence, clear_fence_on_process_replacement,
      clear_matching_opaque_fence, ReplaceFence
<1>5. ASSUME NEW gone \in SUBSET Jobs, Restart(gone)
      PROVE  UnsentNotAccepted'
  <2>1. ASSUME NEW j \in Jobs, NEW d \in Devices,
               row'[j][d].state \in {"queued", "waiting_transfer", "dispatching"}
        PROVE  ~row'[j][d].accepted
    <3>1. RestartedRow(row[j][d], row'[j][d])
      BY Zenon, <1>5, RestartShape
    <3> QED
      BY Zenon, <2>1, <3>1 DEF RestartedRow, UnsentNotAccepted
  <2> QED
    BY Zenon, <2>1 DEF UnsentNotAccepted
<1>6. CASE Tick
  BY Zenon, <1>1, <1>6 DEF Tick
<1> QED
  BY Zenon, <1>1, <1>2, <1>3, <1>4, <1>5, <1>6 DEF Next, vars

\* An assignment that is queued, claimed or being sent has not been accepted:
\* accepted_at is set only from dispatching or reconciling on, and the only
\* ways back to the queue require it to be NULL.
THEOREM UnsentNeverAccepted == Spec => []UnsentNotAccepted
<1>1. Init => UnsentNotAccepted
  BY DEF Init, UnsentNotAccepted, EmptyRow
<1>2. IInv /\ UnsentNotAccepted /\ [Next]_vars => UnsentNotAccepted'
  BY Zenon, UnsentStep
<1> QED
  BY <1>1, <1>2, Invariance, PTL DEF Spec

\* Every step of the store is a step of the ledger or invisible to it.
LEMMA StepSimulates ==
    ASSUME IInv, UnsentNotAccepted, [Next]_vars
    PROVE  [Ledger!Next]_(Ledger!vars)
<1>1. ASSUME UNCHANGED <<job, row, nextSeq>>
      PROVE  UNCHANGED Ledger!vars
  BY Zenon, <1>1, Invisible
<1>2. ASSUME NEW j \in Jobs, NEW d \in Devices, RowStep(j, d)
      PROVE  [Ledger!Next]_(Ledger!vars)
  BY Zenon, <1>1, <1>2, RowStepShape, MoveSimulates
<1>3. ASSUME NEW d \in Devices, FenceStep(d)
      PROVE  UNCHANGED <<job, row, nextSeq>>
  BY Zenon, <1>3
  DEF FenceStep, add_opaque_fence, clear_fence_on_process_replacement,
      clear_matching_opaque_fence, ReplaceFence
<1>4. ASSUME NEW gone \in SUBSET Jobs, Restart(gone)
      PROVE  Ledger!Next
  BY Zenon, <1>4, RestartSimulates DEF Ledger!Next
<1>5. CASE Tick
  BY Zenon, <1>1, <1>5 DEF Tick
<1>6. CASE UNCHANGED vars
  BY Zenon, <1>1, <1>6 DEF vars
<1> QED
  BY Zenon, <1>1, <1>2, <1>3, <1>4, <1>5, <1>6, JobStepSimulates DEF Next

\* The job store implements the assignment ledger: whatever the transactions,
\* deadlines, fences and restarts do, an operator sees each assignment taken
\* in submission order, alone on its device, ended once, and never handed out
\* again after the device is known to execute it.
THEOREM Refinement == Spec => ImplementsLedger
<1>1. Init => Ledger!Init
  <2> SUFFICES ASSUME Init
               PROVE  Ledger!Init
    BY Zenon
  <2>1. Status = [j \in Jobs |-> [d \in Devices |-> "none"]]
    BY Zenon DEF Init, Status, StatusOf, EmptyRow
  <2>2. Ticket = [j \in Jobs |-> 0]
    BY Zenon DEF Init, Ticket
  <2> QED
    BY Zenon, <2>1, <2>2 DEF Init, Ledger!Init
<1>2. IInv /\ UnsentNotAccepted /\ [Next]_vars => [Ledger!Next]_(Ledger!vars)
  BY Zenon, StepSimulates
<1> QED
  BY <1>1, <1>2, Invariance, UnsentNeverAccepted, PTL
  DEF Spec, ImplementsLedger, Ledger!Spec


-----------------------------------------------------------------------------
(* Outcomes.                                                               *)

Final(j) ==
    /\ job[j].state \in TERMINAL_JOB_STATES => job'[j].state = job[j].state
    /\ \A d \in Devices : row[j][d].state \in TERMINAL_DEVICE_STATES =>
           row'[j][d].state = row[j][d].state

\* No step changes a terminal job or row.
LEMMA FinalStep ==
    ASSUME IInv, UnsentNotAccepted, [Next]_vars, NEW j \in Jobs
    PROVE  Final(j)
<1> job \in [Jobs -> JobRecord] /\ row \in [Jobs -> [Devices -> RowRecord]]
  BY Zenon DEF IInv, TypeOK
<1>1. ASSUME job'[j] = job[j] \/ job[j].state \in NonTerminalJob \cup {Missing},
             row'[j] = row[j] \/ job[j].state = Missing
      PROVE  Final(j)
  <2>1. job[j].state = Missing => \A d \in Devices : row[j][d].state = Missing
    BY Zenon DEF IInv, QueueOrder
  <2> QED
    BY Zenon, <1>1, <2>1 DEF Final
<1>2. ASSUME NEW k \in Jobs, NEW d \in Devices, RowStep(k, d)
      PROVE  Final(j)
  <2>1. CASE \E r \in RowRecord : RowMove(k, d, r)
    <3> PICK r \in RowRecord : RowMove(k, d, r)
      BY Zenon, <2>1
    <3>1. /\ r.state \in DeviceState /\ WritesRow(k, d, r) /\ job[k].state \in Dispatched
          /\ row[k][d].state \notin TERMINAL_DEVICE_STATES
      BY Zenon DEF RowMove, Claimable, Active
    <3>2. /\ \A i \in Jobs, e \in Devices :
                 row'[i][e] = IF i = k /\ e = d THEN r ELSE row[i][e]
          /\ \A i \in Jobs : i # k => job'[i] = job[i]
      BY <3>1, PutRowEffect DEF IInv
    <3> QED
      BY Zenon, <3>1, <3>2 DEF Final
  <2> QED
    BY Zenon, <1>1, <1>2, <2>1, RowStepShape
<1>3. ASSUME NEW k \in Jobs, JobStep(k)
      PROVE  Final(j)
  <2>1. CASE \E targets \in SUBSET Devices : create_job(k, targets)
    BY Zenon, <1>1, <2>1 DEF create_job
  <2>2. ASSUME NEW s, MoveJob(k, s), job[k].state \in PreDispatch
        PROVE  Final(j)
    BY Zenon, <1>1, <2>2 DEF MoveJob
  <2>3. CASE enable_dispatch(k)
    BY Zenon, <1>1, <2>3 DEF enable_dispatch
  <2> QED
    BY Zenon, <1>3, <2>1, <2>2, <2>3 DEF JobStep, start_upload, mark_packaging,
       publish_artifact, fail_pre_dispatch, expire_created
<1>4. ASSUME NEW d \in Devices, FenceStep(d)
      PROVE  Final(j)
  BY Zenon, <1>1, <1>4
  DEF FenceStep, add_opaque_fence, clear_fence_on_process_replacement,
      clear_matching_opaque_fence, ReplaceFence
<1>5. ASSUME NEW gone \in SUBSET Jobs, Restart(gone)
      PROVE  Final(j)
  <2>1. \A d \in Devices : RestartedRow(row[j][d], row'[j][d])
    BY Zenon, <1>5, RestartShape
  <2>2. job[j].state \in TERMINAL_JOB_STATES => job'[j] = job[j]
    BY Zenon, <1>5, RestartShape
  <2> QED
    BY Zenon, <2>1, <2>2 DEF RestartedRow, Final
<1>6. CASE Tick \/ UNCHANGED vars
  BY Zenon, <1>1, <1>6 DEF Tick, vars
<1> QED
  BY Zenon, <1>2, <1>3, <1>4, <1>5, <1>6 DEF Next

\* A finished assignment or job keeps its outcome whatever message, sweep or
\* restart comes later, for any number of jobs and devices.
THEOREM OutcomesAreFinal == Spec => TerminalIsFinal
<1>1. /\ IInv /\ UnsentNotAccepted /\ [Next]_vars
      => [\A j \in Jobs :
            /\ job[j].state \in TERMINAL_JOB_STATES => job'[j].state = job[j].state
            /\ \A d \in Devices : row[j][d].state \in TERMINAL_DEVICE_STATES =>
                   row'[j][d].state = row[j][d].state]_vars
  BY Zenon, FinalStep DEF Final
<1> QED
  BY <1>1, Invariance, UnsentNeverAccepted, PTL DEF Spec, TerminalIsFinal

-----------------------------------------------------------------------------
(* Executions.                                                             *)

\* A row that was seen executing: it still is, it has ended, or it is being
\* reconciled for a reason that allows no replay.
SeenRow(r) ==
    \/ r.state \in {"downloading", "validating", "applying"} \cup TERMINAL_DEVICE_STATES
    \/ r.state = "reconciling" /\ r.reason \notin ReplayableReasons

Seen(j, d) == SeenRow(row[j][d])

\* Reconciliation for a reason that allows no replay keeps a row seen.
LEMMA ReconcilingSeen ==
    ASSUME NEW r \in RowRecord, NEW reason \in Reasons \ ReplayableReasons,
           NEW t \in Nat, now \in Nat
    PROVE  /\ SeenRow(Reconciling(r, reason, t))
           /\ SeenRow([Reconciling(r, reason, t) EXCEPT !.acceptBy = NoTime])
<1> DEFINE q == Reconciling(r, reason, t)
<1>1. q \in RowRecord /\ q.state = "reconciling" /\ q.reason = reason
  BY Zenon, ReconcilingType
<1> HIDE DEF q
<1>2. /\ [q EXCEPT !.acceptBy = NoTime].state = "reconciling"
      /\ [q EXCEPT !.acceptBy = NoTime].reason = reason
  BY Zenon, <1>1 DEF RowRecord
<1> QED
  BY Zenon, <1>1, <1>2 DEF SeenRow, q

\* Recovery keeps a row seen.
LEMMA RecoveredSeen ==
    ASSUME NEW r \in RowRecord, now \in Nat, SeenRow(r)
    PROVE  SeenRow(RecoveredRow(r))
<1>1. AcceptReconTimeout \in Nat /\ ReconTimeout \in Nat
  BY Zenon, TimeAssumption
<1>2. ASSUME NEW t \in Nat
      PROVE  SeenRow([Reconciling(r, "server_restart", t) EXCEPT !.acceptBy = NoTime])
  <2>1. \A reason \in Reasons \ ReplayableReasons :
            SeenRow([Reconciling(r, reason, t) EXCEPT !.acceptBy = NoTime])
    BY Zenon, ReconcilingSeen
  <2> QED
    BY Zenon, <2>1
<1>3. \/ RecoveredRow(r) = r
      \/ \E t \in {AcceptReconTimeout, ReconTimeout} : RecoveredRow(r) =
             [Reconciling(r, "server_restart", t) EXCEPT !.acceptBy = NoTime]
  <2>1. r.state # "waiting_transfer"
    BY Zenon DEF SeenRow
  <2> QED
    BY Zenon, <2>1 DEF RecoveredRow
<1> QED
  BY Zenon, <1>1, <1>2, <1>3

\* A written row that is seen, or another row.
LEMMA PutSeen ==
    ASSUME IInv, NEW j \in Jobs, NEW d \in Devices, NEW k \in Jobs, NEW e \in Devices,
           NEW r, PutRow(k, e, r), Seen(j, d), j = k /\ d = e => SeenRow(r)
    PROVE  Seen(j, d)'
<1>1. row' = [row EXCEPT ![k] = [row[k] EXCEPT ![e] = r]]
  BY Zenon DEF PutRow
<1>2. row'[j][d] = IF j = k /\ d = e THEN r ELSE row[j][d]
  BY Zenon, <1>1 DEF IInv, TypeOK
<1> QED
  BY Zenon, <1>2 DEF Seen

\* The steps of an assignment keep every row seen that was.
LEMMA RowStepSeen ==
    ASSUME IInv, NEW j \in Jobs, NEW d \in Devices, NEW k \in Jobs, NEW e \in Devices,
           RowStep(k, e), Seen(j, d)
    PROVE  Seen(j, d)'
<1> DEFINE r == row[k][e]
           mine == j = k /\ d = e
<1> r \in RowRecord /\ now \in Nat
  BY Zenon DEF IInv, TypeOK
<1>0. mine => SeenRow(r)
  BY Zenon DEF Seen
<1>1. ASSUME r.state \in {"queued", "waiting_transfer", "dispatching"}
      PROVE  ~mine
  BY Zenon, <1>0, <1>1 DEF SeenRow
<1>2. ASSUME NEW q, transition_device(k, e, {"waiting_transfer", "dispatching"}, q)
      PROVE  Seen(j, d)'
  BY Zenon, <1>1, <1>2, PutSeen DEF transition_device
<1>3. ASSUME NEW q, PutRow(k, e, q),
             q.state \in {"downloading", "validating", "applying"} \cup TERMINAL_DEVICE_STATES
      PROVE  Seen(j, d)'
  BY Zenon, <1>3, PutSeen DEF SeenRow
<1>4. CASE \E online \in SUBSET Devices : claim_next(online, k, e)
  BY Zenon, <1>1, <1>4, PutSeen DEF claim_next, Claimable
<1>5. CASE \E v1 \in BOOLEAN : prepare_dispatch(k, e, v1)
  <2> PICK v1 \in BOOLEAN : prepare_dispatch(k, e, v1)
    BY Zenon, <1>5
  <2>1. /\ r.state = "waiting_transfer"
        /\ \E q : PutRow(k, e, q)
    BY Zenon DEF prepare_dispatch
  <2> QED
    BY Zenon, <1>1, <2>1, PutSeen
<1>6. CASE RequeueWaiting(k, e) \/ requeue_after_send_race(k, e)
  <2>1. /\ r.state \in {"waiting_transfer", "dispatching"}
        /\ \E q : PutRow(k, e, q)
    BY Zenon, <1>6
    DEF RequeueWaiting, requeue_after_send_race, transition_device
  <2> QED
    BY Zenon, <1>1, <2>1, PutSeen
<1>7. CASE CommandAccepted(k, e)
  <2> DEFINE q == [Cleared(r, "downloading") EXCEPT !.accepted = TRUE]
  <2>1. PutRow(k, e, q)
    BY Zenon, <1>7 DEF CommandAccepted, transition_device
  <2>2. q.state = "downloading"
    BY Zenon, AcceptedChange
  <2> HIDE DEF q
  <2> QED
    BY Zenon, <1>3, <2>1, <2>2
<1>8. CASE BusyWithSameJob(k, e)
  <2> DEFINE q == [r EXCEPT !.state = "downloading", !.accepted = TRUE,
                            !.acceptBy = NoTime]
  <2>1. PutRow(k, e, q)
    BY Zenon, <1>8 DEF BusyWithSameJob, transition_device
  <2>2. q.state = "downloading"
    BY Zenon DEF RowRecord
  <2> HIDE DEF q
  <2> QED
    BY Zenon, <1>3, <2>1, <2>2
<1>9. ASSUME NEW s \in TERMINAL_DEVICE_STATES \cup {"validating"},
             PutRow(k, e, Cleared(r, s))
      PROVE  Seen(j, d)'
  BY <1>3, <1>9, ClearedType
<1>10. CASE \/ fail_current(k, e) \/ transfer_complete(k, e)
            \/ RegisterArtifactMismatch(k, e)
            \/ \E s \in {"succeeded", "failed"} : settle_result(k, e, s)
  BY Zenon, <1>9, <1>10
  DEF fail_current, transfer_complete, RegisterArtifactMismatch, settle_result,
      transition_device
<1>11. CASE validation_complete(k, e)
  BY Zenon, <1>0, <1>11, PutSeen DEF validation_complete, transition_device
<1>12. CASE handle_phase(k, e)
  <2> DEFINE q == [r EXCEPT !.state = "applying", !.reason = NoReason,
                            !.reconBy = NoTime]
  <2>1. PutRow(k, e, q)
    BY Zenon, <1>12 DEF handle_phase, transition_device
  <2>2. q.state = "applying"
    BY Zenon DEF RowRecord
  <2> HIDE DEF q
  <2> QED
    BY Zenon, <1>3, <2>1, <2>2
<1>13. CASE \E t \in 1..now : mark_acceptance_reconciling(k, e, t)
  <2>1. /\ r.state = "dispatching"
        /\ \E q : PutRow(k, e, q)
    BY Zenon, <1>13 DEF mark_acceptance_reconciling
  <2> QED
    BY Zenon, <1>1, <2>1, PutSeen
<1>14. ASSUME NEW t \in Nat, mark_reconciling(k, e, DispatchedPhases, "uncertain", t)
       PROVE  Seen(j, d)'
  <2> DEFINE q == [Reconciling(r, "uncertain", t) EXCEPT !.acceptBy = NoTime]
  <2>1. PutRow(k, e, q)
    BY Zenon, <1>14 DEF mark_reconciling, transition_device
  <2>2. SeenRow(q)
    <3>1. \A reason \in Reasons \ ReplayableReasons :
              SeenRow([Reconciling(r, reason, t) EXCEPT !.acceptBy = NoTime])
      BY Zenon, ReconcilingSeen
    <3> QED
      BY Zenon, <3>1
  <2> HIDE DEF q
  <2> QED
    BY Zenon, <2>1, <2>2, PutSeen
<1>15. CASE DeviceDisconnected(k, e)
  <2>1. CASE r.state = "dispatching"
    <3>1. \E q : PutRow(k, e, q)
      BY Zenon, <1>15
      DEF DeviceDisconnected, mark_reconciling, transition_device
    <3> QED
      BY Zenon, <1>1, <2>1, <3>1, PutSeen
  <2>2. CASE r.state # "dispatching"
    BY Zenon, <1>14, <1>15, <2>2, TimeAssumption DEF DeviceDisconnected
  <2> QED
    BY Zenon, <2>1, <2>2
<1>16. CASE \E t \in {AcceptReconTimeout, ReconTimeout} : DispatchUncertain(k, e, t)
  BY Zenon, <1>14, <1>16, TimeAssumption DEF DispatchUncertain
<1>17. CASE \E phase \in {"downloading", "validating", "applying"} :
                ReconcileActive(k, e, phase)
  <2> PICK phase \in {"downloading", "validating", "applying"} :
           ReconcileActive(k, e, phase)
    BY Zenon, <1>17
  <2> DEFINE q == [Cleared(r, phase) EXCEPT !.accepted = TRUE]
  <2>1. PutRow(k, e, q)
    BY Zenon DEF ReconcileActive
  <2>2. q.state = phase
    BY Zenon, AcceptedChange
  <2> HIDE DEF q
  <2> QED
    BY Zenon, <1>3, <2>1, <2>2
<1>18. CASE \E absent \in BOOLEAN : ReconcileGone(k, e, absent)
  <2>1. CASE PutRow(k, e, Cleared(r, "interrupted"))
    BY Zenon, <1>9, <2>1
  <2>2. CASE Replayable(k, e) /\ \E q : PutRow(k, e, q)
    <3>1. r.state = "reconciling" /\ r.reason \in ReplayableReasons
      BY Zenon, <1>18, <2>2 DEF ReconcileGone, Replayable
    <3>2. ~mine
      BY Zenon, <1>0, <3>1 DEF SeenRow
    <3> QED
      BY Zenon, <2>2, <3>2, PutSeen
  <2> QED
    BY Zenon, <1>18, <2>1, <2>2 DEF ReconcileGone
<1>19. CASE \E t \in 1..now, p \in Processes \cup {None} : mark_unconfirmed(k, e, t, p)
  <2> DEFINE q == Cleared(r, "unconfirmed")
  <2>1. row' = [row EXCEPT ![k] = [row[k] EXCEPT ![e] = q]]
    BY Zenon, <1>19 DEF mark_unconfirmed
  <2>2. q.state = "unconfirmed"
    BY Zenon, ClearedType
  <2> HIDE DEF q
  <2>3. row'[j][d] = IF mine THEN q ELSE row[j][d]
    BY Zenon, <2>1 DEF IInv, TypeOK
  <2> QED
    BY Zenon, <2>2, <2>3 DEF Seen, SeenRow
<1>20. CASE clear_matching_fence(k, e)
  BY Zenon, <1>20 DEF clear_matching_fence, ReplaceFence, Seen
<1> QED
  BY Zenon, <1>4, <1>5, <1>6, <1>7, <1>8, <1>10, <1>11, <1>12, <1>13, <1>15,
      <1>16,
     <1>17, <1>18, <1>19, <1>20 DEF RowStep

\* No step makes a seen row unseen.
LEMMA SeenStep ==
    ASSUME IInv, [Next]_vars, NEW j \in Jobs, NEW d \in Devices, Seen(j, d)
    PROVE  Seen(j, d)'
<1>1. CASE row' = row
  BY Zenon, <1>1 DEF Seen
<1>2. ASSUME NEW k \in Jobs, JobStep(k)
      PROVE  Seen(j, d)'
  <2>1. CASE \E targets \in SUBSET Devices : create_job(k, targets)
    <3>1. job[k].state = Missing /\ row' = [row EXCEPT ![k] = row'[k]]
      BY Zenon, <2>1 DEF create_job, IInv, TypeOK
    <3>2. k # j
      BY Zenon, <3>1 DEF IInv, QueueOrder, Seen, SeenRow
    <3>3. row'[j] = row[j]
      BY Zenon, <3>1, <3>2 DEF IInv, TypeOK
    <3> QED
      BY Zenon, <3>3 DEF Seen
  <2> QED
    BY Zenon, <1>1, <1>2, <2>1
    DEF JobStep, start_upload, mark_packaging, publish_artifact,
        fail_pre_dispatch, enable_dispatch, expire_created, MoveJob
<1>3. ASSUME NEW e \in Devices, FenceStep(e)
      PROVE  Seen(j, d)'
  BY Zenon, <1>1, <1>3
  DEF FenceStep, add_opaque_fence, clear_fence_on_process_replacement,
      clear_matching_opaque_fence, ReplaceFence
<1>4. ASSUME NEW gone \in SUBSET Jobs, Restart(gone)
      PROVE  Seen(j, d)'
  <2> DEFINE q == RecoveredRow(row[j][d])
  <2>1. row'[j][d] = q \/ row'[j][d] = RowWithoutArtifact(q)
    BY Zenon, <1>4 DEF Restart
  <2>2. row[j][d] \in RowRecord /\ now \in Nat /\ SeenRow(row[j][d])
    BY Zenon DEF IInv, TypeOK, Seen
  <2>3. q \in RowRecord /\ SeenRow(q)
    BY Zenon, <2>2, RecoveredSeen, RecoveredRowType
  <2> HIDE DEF q
  <2>4. RowWithoutArtifact(q) = q \/ RowWithoutArtifact(q).state = "failed"
    BY Zenon, <2>3, RowWithoutArtifactType
  <2> QED
    BY Zenon, <2>1, <2>3, <2>4 DEF Seen, SeenRow
<1>5. CASE Tick \/ UNCHANGED vars
  BY Zenon, <1>1, <1>5 DEF Tick, vars
<1> QED
  BY Zenon, <1>2, <1>3, <1>4, <1>5, RowStepSeen DEF Next

\* One row: once it was seen executing it is never queued.
LEMMA SeenForever ==
    ASSUME NEW j \in Jobs, NEW d \in Devices
    PROVE  Spec => [](Started(j, d) => [](row[j][d].state # "queued"))
<1>1. Started(j, d) => Seen(j, d)
  BY Zenon DEF Started, Seen, SeenRow
<1>2. IInv /\ [Next]_vars /\ Seen(j, d) => Seen(j, d)'
  BY Zenon, SeenStep
<1>3. Seen(j, d) => row[j][d].state # "queued"
  BY Zenon DEF Seen, SeenRow
<1> QED
  BY <1>1, <1>2, <1>3, Invariance, PTL DEF Spec

\* Once the device was seen executing an assignment, no replay, send race,
\* artifact check or restart puts it back in the queue.
THEOREM ExecutionNotRepeated == Spec => StartedNeverRequeued
BY Zenon, SeenForever DEF StartedNeverRequeued

-----------------------------------------------------------------------------
(* Revisions.                                                              *)

\* What ChangesAreRevised says of one job.
RevisedIfChanged(j) ==
    \/ j \in revised'
    \/ /\ job'[j] = job[j] /\ row'[j] = row[j]
       /\ \A d \in Devices :
              /\ job[j].state \in NonTerminalJob
              /\ row[j][d].state # Missing
              => fence'[d] = fence[d]

\* A transaction that revises one job and touches nothing else.
LEMMA OnlyJobRevised ==
    ASSUME IInv, NEW k \in Jobs, revised' = {k}, UNCHANGED fence,
           \E jb : job' = [job EXCEPT ![k] = jb],
           \E rs : row' = [row EXCEPT ![k] = rs],
           NEW j \in Jobs
    PROVE  RevisedIfChanged(j)
BY Zenon DEF RevisedIfChanged, IInv, TypeOK

\* PutRow is such a transaction.
LEMMA PutRowRevises ==
    ASSUME IInv, NEW k \in Jobs, NEW d \in Devices, NEW r, PutRow(k, d, r),
           UNCHANGED fence, NEW j \in Jobs
    PROVE  RevisedIfChanged(j)
<1>1. \E jb : job' = [job EXCEPT ![k] = jb]
  <2>1. job' = [job EXCEPT ![k] =
                  [job[k] EXCEPT !.state =
                      Rederived(job[k].state, [row[k] EXCEPT ![d] = r])]]
    BY Zenon DEF PutRow, IInv, TypeOK
  <2> QED
    BY Zenon, <2>1
<1>2. \E rs : row' = [row EXCEPT ![k] = rs]
  BY Zenon DEF PutRow
<1>3. revised' = {k}
  BY Zenon DEF PutRow
<1> QED
  BY Zenon, <1>1, <1>2, <1>3, OnlyJobRevised

\* A changed fence revises every non-terminal job of its device.
LEMMA FenceRevises ==
    ASSUME NEW d \in Devices, NEW f, NEW g, NEW blocking,
           ReplaceFence(d, f, VisibleJobs(d, g, blocking)),
           fence \in [Devices -> FenceRecord], NEW j \in Jobs
    PROVE  RevisedIfChanged(j)
<1>1. /\ job' = job /\ row' = row
      /\ \A e \in Devices : e # d => fence'[e] = fence[e]
      /\ revised' = VisibleJobs(d, g, blocking)
  BY Zenon DEF ReplaceFence
<1>2. job[j].state \in NonTerminalJob /\ row[j][d].state # Missing => j \in revised'
  BY Zenon, <1>1 DEF VisibleJobs
<1> QED
  BY Zenon, <1>1, <1>2 DEF RevisedIfChanged

\* The steps of an assignment.  settle_result could delete a fence without
\* revising the jobs behind it, but an active row has no fence in front of it.
LEMMA RowStepRevises ==
    ASSUME IInv, NEW k \in Jobs, NEW d \in Devices, RowStep(k, d), NEW j \in Jobs
    PROVE  RevisedIfChanged(j)
<1>1. CASE UNCHANGED fence /\ \E r : PutRow(k, d, r)
  BY Zenon, <1>1, PutRowRevises
<1>2. CASE \E s \in {"succeeded", "failed"} : settle_result(k, d, s)
  <2>1. Active(k, d) /\ \E r : PutRow(k, d, r)
    BY Zenon, <1>2 DEF settle_result, Active
  <2>2. ~ExactFence(d, k)
    BY Zenon, <2>1 DEF IInv, JobFenceSound, ExactFence
  <2>3. fence' = fence
    BY Zenon, <1>2, <2>2 DEF settle_result, IInv, TypeOK
  <2> QED
    BY Zenon, <1>1, <2>1, <2>3
<1>3. CASE \E t \in 1..now, p \in Processes \cup {None} : mark_unconfirmed(k, d, t, p)
  <2> PICK t \in 1..now, p \in Processes \cup {None} : mark_unconfirmed(k, d, t, p)
    BY Zenon, <1>3
  <2> DEFINE f == [kind |-> "job", id |-> k, process |-> p]
             visible == VisibleJobs(d, f, {k})
             rs == [row[k] EXCEPT ![d] = Cleared(row[k][d], "unconfirmed")]
  <2>1. /\ row' = [row EXCEPT ![k] = rs] /\ fence' = [fence EXCEPT ![d] = f]
        /\ \A i \in Jobs : i \notin visible => job'[i] = job[i]
        /\ revised' = visible /\ Active(k, d)
    BY Zenon DEF mark_unconfirmed, Active
  <2>2. k \in visible
    <3>1. job[k].state \in Dispatched
      BY Zenon, <2>1, ActiveIsDispatched DEF IInv
    <3> QED
      BY Zenon, <3>1 DEF VisibleJobs
  <2>3. job[j].state \in NonTerminalJob /\ row[j][d].state # Missing => j \in visible
    BY Zenon DEF VisibleJobs
  <2> HIDE DEF f, visible, rs
  <2>4. /\ \A e \in Devices : e # d => fence'[e] = fence[e]
        /\ j # k => row'[j] = row[j]
    BY Zenon, <2>1 DEF IInv, TypeOK
  <2> QED
    BY Zenon, <2>1, <2>2, <2>3, <2>4 DEF RevisedIfChanged
<1>4. CASE clear_matching_fence(k, d)
  BY Zenon, <1>4, FenceRevises DEF clear_matching_fence, IInv, TypeOK
<1>5. CASE \/ \E online \in SUBSET Devices : claim_next(online, k, d)
           \/ \E v1 \in BOOLEAN : prepare_dispatch(k, d, v1)
           \/ \E t \in 1..now : mark_acceptance_reconciling(k, d, t)
           \/ \E phase \in {"downloading", "validating", "applying"} :
                  ReconcileActive(k, d, phase)
           \/ \E absent \in BOOLEAN : ReconcileGone(k, d, absent)
  BY Zenon, <1>1, <1>5
  DEF claim_next, prepare_dispatch, mark_acceptance_reconciling,
      ReconcileActive, ReconcileGone
<1>6. ASSUME NEW expected, NEW r, transition_device(k, d, expected, r)
      PROVE  RevisedIfChanged(j)
  BY Zenon, <1>1, <1>6 DEF transition_device
<1>7. ASSUME NEW expected, NEW reason, NEW t, mark_reconciling(k, d, expected, reason, t)
      PROVE  RevisedIfChanged(j)
  BY Zenon, <1>6, <1>7 DEF mark_reconciling
<1>8. CASE \/ RequeueWaiting(k, d) \/ requeue_after_send_race(k, d)
           \/ CommandAccepted(k, d) \/ BusyWithSameJob(k, d) \/ fail_current(k, d)
           \/ transfer_complete(k, d) \/ validation_complete(k, d)
           \/ handle_phase(k, d) \/ RegisterArtifactMismatch(k, d)
  BY Zenon, <1>6, <1>8
  DEF RequeueWaiting, requeue_after_send_race, CommandAccepted,
      BusyWithSameJob, fail_current, transfer_complete, validation_complete,
      handle_phase, RegisterArtifactMismatch
<1>9. CASE \/ DeviceDisconnected(k, d)
           \/ \E t \in {AcceptReconTimeout, ReconTimeout} : DispatchUncertain(k, d, t)
  BY Zenon, <1>7, <1>9 DEF DeviceDisconnected, DispatchUncertain
<1> QED
  BY Zenon, <1>2, <1>3, <1>4, <1>5, <1>8, <1>9 DEF RowStep

\* A restart revises every job it changes.
LEMMA RestartRevises ==
    ASSUME IInv, NEW gone \in SUBSET Jobs, Restart(gone), NEW j \in Jobs
    PROVE  RevisedIfChanged(j)
<1>1. SUFFICES ASSUME j \notin revised'
               PROVE  job'[j] = job[j] /\ row'[j] = row[j] /\ fence' = fence
  BY Zenon, <1>1 DEF RevisedIfChanged
<1>2. fence' = fence
  BY Zenon DEF Restart
<1>3. /\ j \notin gone /\ job[j].state \notin {"uploading", "packaging"} \cup Dispatched
      /\ ~(job[j].state = "created" /\ now >= job[j].expires)
  BY Zenon, <1>1 DEF Restart
<1>4. row'[j] = row[j]
  BY Zenon, <1>3, RestartShape
<1>5. \A rs : RecoveredJob(job[j], rs) = job[j]
  BY Zenon, <1>3 DEF RecoveredJob
<1>6. job'[j] = job[j]
  BY Zenon, <1>3, <1>5 DEF Restart
<1> QED
  BY Zenon, <1>2, <1>4, <1>6

\* Every committed change of a job, of its rows or of the fence of a device it
\* waits for increments its revision, restart included.
THEOREM EveryChangeRevised == Spec => ChangesAreRevised
<1>1. ASSUME IInv, [Next]_vars, NEW j \in Jobs
      PROVE  RevisedIfChanged(j) \/ UNCHANGED vars
  <2>1. ASSUME NEW k \in Jobs, JobStep(k)
        PROVE  RevisedIfChanged(j)
    <3>1. revised' = {k} /\ UNCHANGED fence
      BY Zenon, <2>1
      DEF JobStep, create_job, start_upload, mark_packaging, publish_artifact,
          fail_pre_dispatch, enable_dispatch, expire_created, MoveJob
    <3>2. \A i \in Jobs : i # k => job'[i] = job[i] /\ row'[i] = row[i]
      <4> job \in [Jobs -> JobRecord] /\ row \in [Jobs -> [Devices -> RowRecord]]
        BY Zenon, <1>1 DEF IInv, TypeOK
      <4>1. CASE \E targets \in SUBSET Devices : create_job(k, targets)
        BY Zenon, <4>1 DEF create_job
      <4>2. ASSUME NEW s, MoveJob(k, s)
            PROVE  \A i \in Jobs : i # k => job'[i] = job[i] /\ row'[i] = row[i]
        BY Zenon, <4>2 DEF MoveJob
      <4>3. CASE enable_dispatch(k)
        BY Zenon, <4>3 DEF enable_dispatch
      <4> QED
        BY Zenon, <2>1, <4>1, <4>2, <4>3
        DEF JobStep, start_upload, mark_packaging, publish_artifact,
            fail_pre_dispatch, expire_created
    <3> QED
      BY Zenon, <3>1, <3>2 DEF RevisedIfChanged
  <2>2. ASSUME NEW d \in Devices, FenceStep(d)
        PROVE  RevisedIfChanged(j)
    BY Zenon, <1>1, <2>2, FenceRevises
    DEF FenceStep, add_opaque_fence, IInv, TypeOK,
        clear_fence_on_process_replacement, clear_matching_opaque_fence
  <2>3. CASE Tick
    BY Zenon, <2>3 DEF Tick, RevisedIfChanged
  <2> QED
    BY Zenon, <1>1, <2>1, <2>2, <2>3, RowStepRevises, RestartRevises DEF Next
<1>2. IInv /\ [Next]_vars
      => [\A j \in Jobs :
            \/ j \in revised'
            \/ /\ job'[j] = job[j] /\ row'[j] = row[j]
               /\ \A d \in Devices :
                      /\ job[j].state \in NonTerminalJob
                      /\ row[j][d].state # Missing
                      => fence'[d] = fence[d]]_vars
  BY Zenon, <1>1 DEF RevisedIfChanged
<1> QED
  BY <1>2, Invariance, PTL DEF Spec, ChangesAreRevised

===============================================================================
