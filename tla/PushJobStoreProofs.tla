------------------------- MODULE PushJobStoreProofs -------------------------
(***************************************************************************)
(* The safety of PushJobStore for every set of jobs, devices and processes *)
(* and every choice of the timeouts.                                       *)
(***************************************************************************)
EXTENDS PushJobStore, TLAPS

\* Queue positions: distinct for distinct jobs and below the counter; a job
\* that does not exist has no rows, a row of an existing job has a state.
QueueOrder ==
    /\ \A j \in Jobs : job[j].state # Missing => job[j].seq < nextSeq
    /\ \A j, k \in Jobs :
           job[j].state # Missing /\ job[k].state # Missing
               /\ job[j].seq = job[k].seq => j = k
    /\ \A j \in Jobs : job[j].state = Missing =>
           \A d \in Devices : row[j][d].state = Missing

\* The inductive invariant.
IInv ==
    /\ TypeOK
    /\ OneActivePerDevice
    /\ NoOvertaking
    /\ JobFenceSound
    /\ JobStateMatchesRows
    /\ QueueOrder

USE DEF Missing, NoTime, NoReason, PreDispatch, Dispatched, TERMINAL_JOB_STATES,
        NonTerminalJob, TERMINAL_DEVICE_STATES, ACTIVE_DEVICE_STATES, DeviceState,
        ReplayableReasons, Reasons

\* The derived state of a dispatched job, and what a terminal one means.
LEMMA DeriveRange ==
    ASSUME NEW S
    PROVE  /\ derive_dispatched_job_state(S) \in
                  Dispatched \cup {"succeeded", "completed_with_errors", "failed"}
           /\ derive_dispatched_job_state(S) \notin Dispatched =>
                  \A s \in S : s \in TERMINAL_DEVICE_STATES
BY Zenon DEF derive_dispatched_job_state

\* An active row belongs to a job that is running or reconciling.
LEMMA ActiveIsDispatched ==
    ASSUME TypeOK, JobStateMatchesRows, NEW j \in Jobs, NEW d \in Devices, Active(j, d)
    PROVE  job[j].state \in Dispatched
<1>1. row[j][d].state \in RowStates(row[j])
  BY Zenon DEF RowStates, Active
<1>2. CASE job[j].state \in PreDispatch
  BY Zenon, <1>1, <1>2 DEF JobStateMatchesRows, StateMatches, Active
<1>3. CASE job[j].state \in {"succeeded", "completed_with_errors"}
  BY <1>1, <1>3, DeriveRange DEF JobStateMatchesRows, StateMatches, Active
<1>4. CASE job[j].state \in {Missing, "failed", "interrupted"}
  BY Zenon, <1>4 DEF JobStateMatchesRows, StateMatches, Active
<1>5. job[j].state \in NonTerminalJob \cup TERMINAL_JOB_STATES \cup {Missing}
  BY Zenon DEF TypeOK, JobRecord
<1> QED
  BY Zenon, <1>2, <1>3, <1>4, <1>5

\* The rows a transaction writes are rows.
LEMMA ClearedType ==
    ASSUME NEW r \in RowRecord, NEW s \in DeviceState
    PROVE  /\ Cleared(r, s) \in RowRecord /\ Cleared(r, s).state = s
           /\ Cleared(r, s).accepted = r.accepted /\ Cleared(r, s).replays = r.replays
           /\ Cleared(r, s).reason = NoReason
BY Zenon DEF Cleared, RowRecord

\* A row put into reconciliation, for whatever reason, is a row.
LEMMA ReconcilingType ==
    ASSUME NEW r \in RowRecord, NEW reason \in Reasons, NEW t \in Nat, now \in Nat
    PROVE  /\ Reconciling(r, reason, t) \in RowRecord
           /\ Reconciling(r, reason, t).state = "reconciling"
           /\ Reconciling(r, reason, t).accepted = r.accepted
           /\ Reconciling(r, reason, t).reason = reason
<1>1. now + t \in Nat
  OBVIOUS
<1>2. \A u \in Nat : LET q == [r EXCEPT !.state = "reconciling",
                               !.reason = reason, !.reconBy = u]
                     IN  /\ q \in RowRecord /\ q.state = "reconciling"
                         /\ q.accepted = r.accepted /\ q.reason = reason
  BY Zenon DEF RowRecord
<1> QED
  BY Zenon, <1>1, <1>2 DEF Reconciling

-----------------------------------------------------------------------------
(* What a step must respect for the device queue to stay in order.         *)

\* A step after which no row is newly active, no row is newly queued unless it
\* was active, no job is newly non-terminal and no job changed position keeps
\* one active row per device and the order of the queue.
LEMMA CalmStep ==
    ASSUME OneActivePerDevice, NoOvertaking,
           \A j \in Jobs, d \in Devices :
               /\ row'[j][d].state \in ACTIVE_DEVICE_STATES => Active(j, d)
               /\ row'[j][d].state = "queued" =>
                      row[j][d].state = "queued" \/ Active(j, d),
           \A j \in Jobs :
               /\ job'[j].seq = job[j].seq
               /\ job'[j].state \in NonTerminalJob => job[j].state \in NonTerminalJob
    PROVE  OneActivePerDevice' /\ NoOvertaking'
<1>1. OneActivePerDevice'
  BY Zenon DEF OneActivePerDevice, Active
<1>2. ASSUME NEW d \in Devices, NEW j \in Jobs, NEW k \in Jobs,
             row'[j][d].state \in ACTIVE_DEVICE_STATES,
             row'[k][d].state = "queued", job'[k].state \in NonTerminalJob
      PROVE  job'[j].seq < job'[k].seq
  <2>1. Active(j, d) /\ j # k
    BY Zenon, <1>2
  <2>2. row[k][d].state = "queued"
    BY Zenon, <1>2, <2>1 DEF OneActivePerDevice
  <2> QED
    BY Zenon, <1>2, <2>1, <2>2 DEF NoOvertaking
<1> QED
  BY Zenon, <1>1, <1>2 DEF NoOvertaking, Active

\* PutRow, whatever else the transaction revises.
WritesRow(j, d, r) ==
    LET rs == [row[j] EXCEPT ![d] = r]
    IN  /\ row' = [row EXCEPT ![j] = rs]
        /\ job' = [job EXCEPT ![j].state = Rederived(@, rs)]
        /\ revised' \subseteq Jobs
        /\ UNCHANGED <<nextSeq, now>>

\* What writing a row does to a dispatched job: only row (j, d) and the state
\* of j change, and the state of j follows its rows.
LEMMA PutRowEffect ==
    ASSUME TypeOK, JobStateMatchesRows, QueueOrder,
           NEW j \in Jobs, NEW d \in Devices, NEW r \in RowRecord,
           r.state \in DeviceState, job[j].state \in Dispatched,
           WritesRow(j, d, r)
    PROVE  /\ job' \in [Jobs -> JobRecord]
           /\ row' \in [Jobs -> [Devices -> RowRecord]]
           /\ nextSeq' \in Nat /\ now' \in Nat /\ revised' \subseteq Jobs
           /\ \A k \in Jobs, e \in Devices :
                  row'[k][e] = IF k = j /\ e = d THEN r ELSE row[k][e]
           /\ \A k \in Jobs : k # j => job'[k] = job[k] /\ row'[k] = row[k]
           /\ \A k \in Jobs : job'[k].seq = job[k].seq
           /\ \A k \in Jobs :
                  job'[k].state \in NonTerminalJob => job[k].state \in NonTerminalJob
           /\ JobStateMatchesRows' /\ QueueOrder'
<1> DEFINE rs == [row[j] EXCEPT ![d] = r]
           s == derive_dispatched_job_state(RowStates(rs))
<1>1. /\ row' = [row EXCEPT ![j] = rs]
      /\ job' = [job EXCEPT ![j].state = s]
      /\ revised' \subseteq Jobs /\ nextSeq' = nextSeq /\ now' = now
  BY Zenon DEF WritesRow, Rederived, TypeOK
<1>2. s \in Dispatched \cup {"succeeded", "completed_with_errors", "failed"}
  BY Zenon, DeriveRange
<1>3. rs \in [Devices -> RowRecord]
  BY Zenon DEF TypeOK
<1>4. /\ job' \in [Jobs -> JobRecord]
      /\ job'[j].state = s
      /\ \A k \in Jobs : job'[k].seq = job[k].seq
      /\ \A k \in Jobs : k # j => job'[k] = job[k]
  <2> HIDE DEF s
  <2>1. [job[j] EXCEPT !.state = s] \in JobRecord
    BY Zenon, <1>2 DEF TypeOK, JobRecord
  <2>2. [job[j] EXCEPT !.state = s].state = s
        /\ [job[j] EXCEPT !.state = s].seq = job[j].seq
    BY Zenon DEF TypeOK, JobRecord
  <2>3. job' = [job EXCEPT ![j] = [job[j] EXCEPT !.state = s]]
    BY Zenon, <1>1 DEF TypeOK
  <2> QED
    BY Zenon, <2>1, <2>2, <2>3 DEF TypeOK
<1>5. /\ row' \in [Jobs -> [Devices -> RowRecord]]
      /\ row'[j] = rs
      /\ \A k \in Jobs : k # j => row'[k] = row[k]
      /\ \A k \in Jobs, e \in Devices :
             row'[k][e] = IF k = j /\ e = d THEN r ELSE row[k][e]
  BY Zenon, <1>1, <1>3 DEF TypeOK
<1>6. job'[j].state \in {"failed", "succeeded", "completed_with_errors"} =>
          \A e \in Devices : row'[j][e].state \notin ACTIVE_DEVICE_STATES
  <2> SUFFICES ASSUME job'[j].state \notin Dispatched, NEW e \in Devices
               PROVE  row'[j][e].state \notin ACTIVE_DEVICE_STATES
    BY Zenon
  <2>1. \A x \in RowStates(rs) : x \in TERMINAL_DEVICE_STATES
    BY Zenon, <1>4, DeriveRange
  <2>2. rs[e].state # Missing => rs[e].state \in RowStates(rs)
    BY Zenon DEF RowStates
  <2> QED
    BY Zenon, <1>5, <2>1, <2>2
<1>7. JobStateMatchesRows'
  <2> SUFFICES ASSUME NEW k \in Jobs PROVE StateMatches(job'[k].state, row'[k])
    BY Zenon DEF JobStateMatchesRows
  <2>1. CASE k = j
    BY Zenon, <1>2, <1>4, <1>5, <1>6, <2>1 DEF StateMatches
  <2>2. CASE k # j
    BY Zenon, <1>4, <1>5, <2>2 DEF JobStateMatchesRows
  <2> QED
    BY Zenon, <2>1, <2>2
<1>8. QueueOrder'
  <2>1. \A k \in Jobs : job'[k].state # Missing <=> job[k].state # Missing
    BY Zenon, <1>2, <1>4
  <2>2. \A k \in Jobs : job'[k].state = Missing => row'[k] = row[k]
    BY Zenon, <1>2, <1>4, <1>5
  <2> QED
    BY <1>1, <1>4, <2>1, <2>2 DEF QueueOrder
<1>9. \A k \in Jobs :
          job'[k].state \in NonTerminalJob => job[k].state \in NonTerminalJob
  BY Zenon, <1>4
<1> QED
  BY Zenon, <1>1, <1>4, <1>5, <1>7, <1>8, <1>9 DEF TypeOK

\* A step that makes no row active and leaves unconfirmed rows and the fences
\* alone keeps the job fences sound.
LEMMA FencesKept ==
    ASSUME JobFenceSound, fence' = fence,
           \A k \in Jobs, e \in Devices :
               /\ row'[k][e].state \in ACTIVE_DEVICE_STATES => Active(k, e)
               /\ row[k][e].state = "unconfirmed" => row'[k][e].state = "unconfirmed"
    PROVE  JobFenceSound'
<1> SUFFICES ASSUME NEW e \in Devices, fence[e].kind = "job", NEW k \in Jobs
             PROVE  /\ fence[e].id = k => row'[k][e].state = "unconfirmed"
                    /\ row'[k][e].state \notin ACTIVE_DEVICE_STATES
  BY Zenon DEF JobFenceSound, Active
<1>1. ~Active(k, e) /\ (fence[e].id = k => row[k][e].state = "unconfirmed")
  BY Zenon DEF JobFenceSound
<1> QED
  BY Zenon, <1>1

\* A transaction that moves one row of a dispatched job, does not make it
\* active, queues it only if it was active, and leaves the fences alone.
LEMMA RowUpdate ==
    ASSUME IInv, NEW j \in Jobs, NEW d \in Devices, NEW r \in RowRecord,
           r.state \in DeviceState, job[j].state \in Dispatched,
           row[j][d].state \notin TERMINAL_DEVICE_STATES,
           r.state \in ACTIVE_DEVICE_STATES \cup {"queued"} => Active(j, d),
           PutRow(j, d, r), UNCHANGED fence
    PROVE  IInv'
<1>1. /\ job' \in [Jobs -> JobRecord]
      /\ row' \in [Jobs -> [Devices -> RowRecord]]
      /\ nextSeq' \in Nat /\ now' \in Nat /\ revised' \subseteq Jobs
      /\ \A k \in Jobs, e \in Devices :
             row'[k][e] = IF k = j /\ e = d THEN r ELSE row[k][e]
      /\ \A k \in Jobs : job'[k].seq = job[k].seq
      /\ \A k \in Jobs :
             job'[k].state \in NonTerminalJob => job[k].state \in NonTerminalJob
      /\ JobStateMatchesRows' /\ QueueOrder'
  <2>1. WritesRow(j, d, r)
    BY Zenon DEF PutRow, WritesRow
  <2> QED
    BY <2>1, PutRowEffect DEF IInv
<1>2. OneActivePerDevice' /\ NoOvertaking'
  <2>1. \A k \in Jobs, e \in Devices :
            /\ row'[k][e].state \in ACTIVE_DEVICE_STATES => Active(k, e)
            /\ row'[k][e].state = "queued" =>
                   row[k][e].state = "queued" \/ Active(k, e)
    BY <1>1 DEF Active
  <2> QED
    BY Zenon, <1>1, <2>1, CalmStep DEF IInv
<1>3. JobFenceSound'
  <2>1. \A k \in Jobs, e \in Devices :
            /\ row'[k][e].state \in ACTIVE_DEVICE_STATES => Active(k, e)
            /\ row[k][e].state = "unconfirmed" => row'[k][e].state = "unconfirmed"
    BY Zenon, <1>1 DEF Active
  <2> QED
    BY Zenon, <2>1, FencesKept DEF IInv
<1> QED
  BY Zenon, <1>1, <1>2, <1>3 DEF IInv, TypeOK

-----------------------------------------------------------------------------
(* Steps of a job.                                                         *)

\* The empty database satisfies the invariant.
LEMMA InitIInv == Init => IInv
<1> SUFFICES ASSUME Init PROVE IInv
  BY Zenon
<1>1. EmptyRow \in RowRecord /\ EmptyRow.state = Missing
  BY DEF EmptyRow, RowRecord
<1>2. NoFence \in FenceRecord /\ NoFence.kind = "none"
  BY Zenon DEF NoFence, FenceRecord
<1>3. TypeOK
  BY Zenon, <1>1, <1>2 DEF Init, TypeOK, JobRecord
<1>4. \A j \in Jobs : job[j].state = Missing /\
          \A d \in Devices : row[j][d].state = Missing
  BY Zenon, <1>1 DEF Init
<1>5. \A d \in Devices : fence[d].kind = "none"
  BY Zenon, <1>2 DEF Init
<1> QED
  BY Zenon, <1>3, <1>4, <1>5
  DEF IInv, OneActivePerDevice, NoOvertaking, JobFenceSound,
      JobStateMatchesRows, StateMatches, QueueOrder, Active

\* Moving a job before its dispatch, with its rows untouched.
LEMMA MoveJobIInv ==
    ASSUME IInv, NEW j \in Jobs, job[j].state \in PreDispatch,
           NEW s \in PreDispatch \cup {"interrupted", "failed"}, MoveJob(j, s)
    PROVE  IInv'
<1>1. /\ job' = [job EXCEPT ![j] = [job[j] EXCEPT !.state = s]]
      /\ row' = row /\ fence' = fence /\ nextSeq' = nextSeq /\ now' = now
      /\ revised' = {j}
  BY Zenon DEF MoveJob, IInv, TypeOK
<1>2. /\ [job[j] EXCEPT !.state = s] \in JobRecord
      /\ [job[j] EXCEPT !.state = s].state = s
      /\ [job[j] EXCEPT !.state = s].seq = job[j].seq
  BY Zenon DEF IInv, TypeOK, JobRecord
<1>3. /\ \A k \in Jobs : job'[k].seq = job[k].seq
      /\ \A k \in Jobs : k # j => job'[k] = job[k]
      /\ job'[j].state = s
  BY Zenon, <1>1, <1>2 DEF IInv, TypeOK
<1>4. TypeOK'
  BY Zenon, <1>1, <1>2 DEF IInv, TypeOK
<1>5. OneActivePerDevice' /\ NoOvertaking'
  BY Zenon, <1>1, <1>3, CalmStep DEF IInv, Active
<1>6. JobFenceSound'
  BY Zenon, <1>1 DEF IInv, JobFenceSound, Active
<1>7. JobStateMatchesRows'
  <2>1. \A d \in Devices : ~Active(j, d)
    BY Zenon, ActiveIsDispatched DEF IInv
  <2>2. StateMatches(s, row[j])
    BY Zenon, <2>1 DEF IInv, JobStateMatchesRows, StateMatches, Active
  <2> QED
    BY Zenon, <1>1, <1>3, <2>2 DEF IInv, JobStateMatchesRows
<1>8. QueueOrder'
  BY <1>1, <1>3 DEF IInv, QueueOrder
<1> QED
  BY Zenon, <1>4, <1>5, <1>6, <1>7, <1>8 DEF IInv

\* enable_dispatch makes the rows of a ready job claimable; none is active yet.
LEMMA EnableIInv ==
    ASSUME IInv, NEW j \in Jobs, enable_dispatch(j)
    PROVE  IInv'
<1> DEFINE s == IF job[j].state = "ready" THEN "running" ELSE job[j].state
           q == [job[j] EXCEPT !.enabled = TRUE, !.state = s]
<1>1. /\ job' = [job EXCEPT ![j] = q]
      /\ row' = row /\ fence' = fence /\ nextSeq' = nextSeq /\ now' = now
      /\ revised' = {j}
  BY Zenon DEF enable_dispatch, IInv, TypeOK
<1>2. q \in JobRecord /\ q.state = s /\ q.seq = job[j].seq
  BY Zenon DEF IInv, TypeOK, JobRecord, enable_dispatch
<1>3. /\ \A k \in Jobs : job'[k].seq = job[k].seq
      /\ \A k \in Jobs : k # j => job'[k] = job[k]
      /\ job'[j].state = s
  BY Zenon, <1>1, <1>2 DEF IInv, TypeOK
<1>4. TypeOK'
  BY Zenon, <1>1, <1>2 DEF IInv, TypeOK
<1>5. OneActivePerDevice' /\ NoOvertaking'
  BY Zenon, <1>1, <1>3, CalmStep DEF IInv, Active, enable_dispatch
<1>6. JobFenceSound'
  BY Zenon, <1>1 DEF IInv, JobFenceSound, Active
<1>7. JobStateMatchesRows'
  <2>1. derive_dispatched_job_state({"queued"}) = "running"
    BY Zenon DEF derive_dispatched_job_state
  <2>2. job[j].state \in {"ready"} \cup Dispatched /\ StateMatches(job[j].state, row[j])
    BY Zenon DEF enable_dispatch, IInv, JobStateMatchesRows
  <2>3. StateMatches(s, row[j])
    BY Zenon, <2>1, <2>2 DEF StateMatches
  <2> QED
    BY Zenon, <1>1, <1>3, <2>3 DEF IInv, JobStateMatchesRows
<1>8. QueueOrder'
  <2>1. job[j].state # Missing /\ job'[j].state # Missing
    BY <1>3 DEF enable_dispatch
  <2> QED
    BY <1>1, <1>3, <2>1 DEF IInv, QueueOrder
<1> QED
  BY Zenon, <1>4, <1>5, <1>6, <1>7, <1>8 DEF IInv

\* A new job takes the last place of every queue it joins.
LEMMA CreateIInv ==
    ASSUME IInv, NEW j \in Jobs, NEW targets \in SUBSET Devices,
           create_job(j, targets)
    PROVE  IInv'
<1> DEFINE q == [state |-> "created", enabled |-> FALSE,
                 expires |-> now + CreateTimeout, seq |-> nextSeq]
           new == [EmptyRow EXCEPT !.state = "queued"]
           rs == [d \in Devices |-> IF d \in targets THEN new ELSE EmptyRow]
<1>1. /\ job' = [job EXCEPT ![j] = q]
      /\ row' = [row EXCEPT ![j] = rs]
      /\ fence' = fence /\ nextSeq' = nextSeq + 1 /\ now' = now /\ revised' = {j}
      /\ job[j].state = Missing /\ targets # {}
  BY Zenon DEF create_job
<1>2. /\ q \in JobRecord /\ q.state = "created" /\ q.seq = nextSeq
      /\ new \in RowRecord /\ new.state = "queued"
      /\ EmptyRow \in RowRecord /\ EmptyRow.state = Missing
  <2>1. now + CreateTimeout \in Nat
    BY TimeAssumption DEF IInv, TypeOK
  <2>2. /\ new \in RowRecord /\ new.state = "queued"
        /\ EmptyRow \in RowRecord /\ EmptyRow.state = Missing
    <3>1. EmptyRow \in RowRecord /\ EmptyRow.state = Missing
      BY DEF EmptyRow, RowRecord
    <3>2. \A r \in RowRecord : /\ [r EXCEPT !.state = "queued"] \in RowRecord
                              /\ [r EXCEPT !.state = "queued"].state = "queued"
      BY Zenon DEF RowRecord
    <3> QED
      BY Zenon, <3>1, <3>2
  <2>3. q \in JobRecord /\ q.state = "created" /\ q.seq = nextSeq
    BY Zenon, <2>1 DEF IInv, TypeOK, JobRecord
  <2> QED
    BY Zenon, <2>2, <2>3
<1> HIDE DEF q, new
<1>3. rs \in [Devices -> RowRecord]
  BY Zenon, <1>2
<1>4. TypeOK'
  <2> HIDE DEF rs
  <2>1. job' \in [Jobs -> JobRecord] /\ row' \in [Jobs -> [Devices -> RowRecord]]
    BY Zenon, <1>1, <1>2, <1>3 DEF IInv, TypeOK
  <2> QED
    BY <1>1, <2>1 DEF IInv, TypeOK
<1>5. /\ job'[j] = q /\ row'[j] = rs
      /\ \A k \in Jobs : k # j => job'[k] = job[k] /\ row'[k] = row[k]
      /\ \A d \in Devices : row'[j][d].state \in {"queued", Missing}
  BY Zenon, <1>1, <1>2 DEF IInv, TypeOK
<1>6. RowStates(rs) = {"queued"}
  <2>1. PICK d \in targets : TRUE
    BY Zenon, <1>1
  <2>2. rs[d].state = "queued" /\ d \in Devices
    BY Zenon, <1>2, <2>1
  <2>3. \A e \in Devices : rs[e].state \in {"queued", Missing}
    BY Zenon, <1>2
  <2> QED
    BY Zenon, <2>2, <2>3 DEF RowStates
<1> HIDE DEF rs
<1>7. OneActivePerDevice'
  BY Zenon, <1>5 DEF IInv, OneActivePerDevice, Active
<1>8. NoOvertaking'
  <2> SUFFICES ASSUME NEW d \in Devices, NEW i \in Jobs, NEW k \in Jobs,
                      row'[i][d].state \in ACTIVE_DEVICE_STATES,
                      row'[k][d].state = "queued", job'[k].state \in NonTerminalJob
               PROVE  job'[i].seq < job'[k].seq
    BY Zenon DEF NoOvertaking, Active
  <2>1. i # j
    BY Zenon, <1>5
  <2>2. Active(i, d) /\ job'[i] = job[i]
    BY Zenon, <1>5, <2>1 DEF Active
  <2>3. CASE k = j
    <3>1. job[i].state \in Dispatched
      BY Zenon, <2>2, ActiveIsDispatched DEF IInv
    <3>2. job[i].seq < nextSeq
      BY Zenon, <3>1 DEF IInv, QueueOrder
    <3> QED
      BY Zenon, <1>2, <1>5, <2>2, <2>3, <3>2
  <2>4. CASE k # j
    BY Zenon, <1>5, <2>2, <2>4 DEF IInv, NoOvertaking
  <2> QED
    BY Zenon, <2>3, <2>4
<1>9. JobFenceSound'
  <2>1. \A d \in Devices : row[j][d].state = Missing
    BY Zenon, <1>1 DEF IInv, QueueOrder
  <2> QED
    BY <1>1, <1>5, <2>1 DEF IInv, JobFenceSound, Active
<1>10. JobStateMatchesRows'
  <2> SUFFICES ASSUME NEW k \in Jobs PROVE StateMatches(job'[k].state, row'[k])
    BY Zenon DEF JobStateMatchesRows
  <2>1. CASE k = j
    BY Zenon, <1>2, <1>5, <1>6, <2>1 DEF StateMatches
  <2>2. CASE k # j
    BY Zenon, <1>5, <2>2 DEF IInv, JobStateMatchesRows
  <2> QED
    BY Zenon, <2>1, <2>2
<1>11. QueueOrder'
  BY <1>1, <1>2, <1>5 DEF IInv, QueueOrder, TypeOK, JobRecord
<1> QED
  BY Zenon, <1>4, <1>7, <1>8, <1>9, <1>10, <1>11 DEF IInv

\* The steps of a job before its dispatch keep the invariant.
LEMMA JobStepIInv ==
    ASSUME IInv, NEW j \in Jobs, JobStep(j)
    PROVE  IInv'
<1>1. CASE \E targets \in SUBSET Devices : create_job(j, targets)
  BY Zenon, <1>1, CreateIInv
<1>2. CASE start_upload(j)
  BY Zenon, <1>2, MoveJobIInv DEF start_upload
<1>3. CASE mark_packaging(j) \/ publish_artifact(j)
  BY Zenon, <1>3, MoveJobIInv DEF mark_packaging, publish_artifact
<1>4. CASE fail_pre_dispatch(j)
  BY Zenon, <1>4, MoveJobIInv DEF fail_pre_dispatch
<1>5. CASE enable_dispatch(j)
  BY Zenon, <1>5, EnableIInv
<1>6. CASE \E t \in 1..now : expire_created(j, t)
  BY Zenon, <1>6, MoveJobIInv DEF expire_created
<1> QED
  BY Zenon, <1>1, <1>2, <1>3, <1>4, <1>5, <1>6 DEF JobStep

-----------------------------------------------------------------------------
(* Steps of an assignment.                                                 *)

\* Moving an active row to another state, with the fences left alone.
LEMMA ActiveRowUpdate ==
    ASSUME IInv, NEW j \in Jobs, NEW d \in Devices, NEW r \in RowRecord,
           r.state \in DeviceState, Active(j, d), PutRow(j, d, r), UNCHANGED fence
    PROVE  IInv'
<1>1. job[j].state \in Dispatched
  BY Zenon, ActiveIsDispatched DEF IInv
<1>2. row[j][d].state \notin TERMINAL_DEVICE_STATES
  BY Zenon DEF Active
<1> QED
  BY Zenon, <1>1, <1>2, RowUpdate

\* transition_device keeps the invariant.
LEMMA TransitionIInv ==
    ASSUME IInv, NEW j \in Jobs, NEW d \in Devices, NEW r \in RowRecord,
           r.state \in DeviceState, NEW expected \in SUBSET ACTIVE_DEVICE_STATES,
           transition_device(j, d, expected, r)
    PROVE  IInv'
BY Zenon, ActiveRowUpdate DEF transition_device, Active

\* A row with another state is still a row.
LEMMA RowChangeType ==
    ASSUME NEW r \in RowRecord, NEW s \in DeviceState
    PROVE  [r EXCEPT !.state = s] \in RowRecord /\ [r EXCEPT !.state = s].state = s
BY Zenon DEF RowRecord

\* claim_next takes the oldest row of an idle device without a fence.
LEMMA ClaimIInv ==
    ASSUME IInv, NEW j \in Jobs, NEW d \in Devices, NEW online \in SUBSET Devices,
           claim_next(online, j, d)
    PROVE  IInv'
<1> DEFINE r == [row[j][d] EXCEPT !.state = "waiting_transfer"]
<1>1. /\ row[j][d].state = "queued" /\ job[j].state \in Dispatched
      /\ fence[d].kind = "none" /\ HeadOfQueue(j, d)
      /\ \A k \in Jobs : ~Active(k, d)
      /\ PutRow(j, d, r) /\ fence' = fence
  BY Zenon DEF claim_next, Claimable, Fenced
<1>2. r \in RowRecord /\ r.state = "waiting_transfer"
  <2>1. row[j][d] \in RowRecord
    BY Zenon DEF IInv, TypeOK
  <2> QED
    BY Zenon, <2>1, RowChangeType
<1> HIDE DEF r
<1>3. /\ job' \in [Jobs -> JobRecord]
      /\ row' \in [Jobs -> [Devices -> RowRecord]]
      /\ nextSeq' \in Nat /\ now' \in Nat /\ revised' \subseteq Jobs
      /\ \A k \in Jobs, e \in Devices :
             row'[k][e] = IF k = j /\ e = d THEN r ELSE row[k][e]
      /\ \A k \in Jobs : job'[k].seq = job[k].seq
      /\ \A k \in Jobs :
             job'[k].state \in NonTerminalJob => job[k].state \in NonTerminalJob
      /\ JobStateMatchesRows' /\ QueueOrder'
  <2>1. WritesRow(j, d, r)
    BY Zenon, <1>1 DEF PutRow, WritesRow
  <2>2. TypeOK /\ JobStateMatchesRows /\ QueueOrder /\ r.state \in DeviceState
    BY Zenon, <1>2 DEF IInv
  <2> QED
    BY <1>1, <1>2, <2>1, <2>2, PutRowEffect
<1>4. OneActivePerDevice'
  <2> SUFFICES ASSUME NEW e \in Devices, NEW i \in Jobs, NEW k \in Jobs,
                      row'[i][e].state \in ACTIVE_DEVICE_STATES,
                      row'[k][e].state \in ACTIVE_DEVICE_STATES
               PROVE  i = k
    BY Zenon DEF OneActivePerDevice, Active
  <2>1. CASE e = d
    <3>1. \A n \in Jobs : n # j => row'[n][e].state \notin ACTIVE_DEVICE_STATES
      BY Zenon, <1>1, <1>3, <2>1 DEF Active
    <3> QED
      BY Zenon, <3>1
  <2>2. CASE e # d
    <3>1. row'[i][e] = row[i][e] /\ row'[k][e] = row[k][e]
      BY Zenon, <1>3, <2>2
    <3>2. Active(i, e) /\ Active(k, e)
      BY Zenon, <3>1 DEF Active
    <3> QED
      BY Zenon, <3>2 DEF IInv, OneActivePerDevice
  <2> QED
    BY Zenon, <2>1, <2>2
<1>5. NoOvertaking'
  <2> SUFFICES ASSUME NEW e \in Devices, NEW i \in Jobs, NEW k \in Jobs,
                      row'[i][e].state \in ACTIVE_DEVICE_STATES,
                      row'[k][e].state = "queued", job'[k].state \in NonTerminalJob
               PROVE  job'[i].seq < job'[k].seq
    BY Zenon DEF NoOvertaking, Active
  <2>1. row[k][e].state = "queued" /\ job[k].state \in NonTerminalJob
    BY Zenon, <1>2, <1>3
  <2>2. CASE e = d
    <3>1. i = j /\ k # j
      BY Zenon, <1>1, <1>2, <1>3, <2>2 DEF Active
    <3>2. job[j].seq <= job[k].seq
      BY Zenon, <1>1, <2>1, <2>2 DEF HeadOfQueue
    <3>3. job[j].seq # job[k].seq
      BY Zenon, <1>1, <2>1, <3>1 DEF IInv, QueueOrder
    <3>4. job[j].seq \in Nat /\ job[k].seq \in Nat
      BY Zenon DEF IInv, TypeOK, JobRecord
    <3>5. job'[i].seq = job[j].seq /\ job'[k].seq = job[k].seq
      BY Zenon, <1>3, <3>1
    <3> QED
      BY <3>2, <3>3, <3>4, <3>5
  <2>3. CASE e # d
    <3>1. Active(i, e)
      BY Zenon, <1>3, <2>3 DEF Active
    <3> QED
      BY Zenon, <1>3, <2>1, <3>1 DEF IInv, NoOvertaking
  <2> QED
    BY Zenon, <2>2, <2>3
<1>6. JobFenceSound'
  <2> SUFFICES ASSUME NEW e \in Devices, fence[e].kind = "job", NEW k \in Jobs
               PROVE  /\ fence[e].id = k => row'[k][e].state = "unconfirmed"
                      /\ row'[k][e].state \notin ACTIVE_DEVICE_STATES
    BY Zenon, <1>1 DEF JobFenceSound, Active
  <2>1. row'[k][e] = row[k][e]
    BY Zenon, <1>1, <1>3
  <2> QED
    BY Zenon, <2>1 DEF IInv, JobFenceSound, Active
<1> QED
  BY Zenon, <1>1, <1>3, <1>4, <1>5, <1>6 DEF IInv, TypeOK

\* An active row is never named by a job fence, so settle_result has no fence
\* to delete.
LEMMA SettleIInv ==
    ASSUME IInv, NEW j \in Jobs, NEW d \in Devices,
           NEW s \in {"succeeded", "failed"}, settle_result(j, d, s)
    PROVE  IInv'
<1>1. Active(j, d) /\ PutRow(j, d, Cleared(row[j][d], s))
  BY Zenon DEF settle_result, Active
<1>2. ~ExactFence(d, j)
  BY Zenon, <1>1 DEF IInv, JobFenceSound, ExactFence, Active
<1>3. fence' = fence
  BY Zenon, <1>2 DEF settle_result, IInv, TypeOK
<1>4. row[j][d] \in RowRecord
  BY Zenon DEF IInv, TypeOK
<1>5. Cleared(row[j][d], s) \in RowRecord /\ Cleared(row[j][d], s).state = s
  BY Zenon, <1>4, ClearedType
<1> QED
  BY Zenon, <1>1, <1>3, <1>5, ActiveRowUpdate

\* mark_unconfirmed rederives every visible job, but only the row's own job
\* can change: the others already agree with their rows.
LEMMA UnconfirmedWrites ==
    ASSUME IInv, NEW j \in Jobs, NEW d \in Devices, NEW t,
           NEW p \in Processes \cup {None}, mark_unconfirmed(j, d, t, p)
    PROVE  WritesRow(j, d, Cleared(row[j][d], "unconfirmed"))
<1> DEFINE r == Cleared(row[j][d], "unconfirmed")
           f == [kind |-> "job", id |-> j, process |-> p]
           visible == VisibleJobs(d, f, {j})
<1>3. job[j].state \in Dispatched
  <2>1. Active(j, d)
    BY Zenon DEF mark_unconfirmed, Active
  <2> QED
    BY Zenon, <2>1, ActiveIsDispatched DEF IInv
<1>4. f.kind = "job"
  BY Zenon
<1>5. j \in visible
  BY Zenon, <1>3 DEF VisibleJobs
<1>6. \A k \in visible : k # j => Rederived(job[k].state, row[k]) = job[k].state
  <2> SUFFICES ASSUME NEW k \in visible, k # j
               PROVE  Rederived(job[k].state, row[k]) = job[k].state
    BY Zenon
  <2>1. k \in Jobs /\ job[k].state \in NonTerminalJob
    BY Zenon, <1>4 DEF VisibleJobs
  <2>2. StateMatches(job[k].state, row[k])
    BY Zenon, <2>1 DEF IInv, JobStateMatchesRows
  <2> QED
    BY Zenon, <2>1, <2>2 DEF StateMatches, Rederived
<1>7. WritesRow(j, d, r)
  <2> DEFINE rs == [row[j] EXCEPT ![d] = r]
  <2>1. /\ row' = [row EXCEPT ![j] = rs]
        /\ job' = [k \in Jobs |-> IF k \in visible
                     THEN [job[k] EXCEPT !.state =
                             Rederived(job[k].state, IF k = j THEN rs ELSE row[k])]
                     ELSE job[k]]
        /\ revised' = visible /\ UNCHANGED <<nextSeq, now>>
    BY Zenon DEF mark_unconfirmed
  <2>2. visible \subseteq Jobs
    BY Zenon DEF VisibleJobs, Latest
  <2> HIDE DEF rs, visible, r
  <2>3. job \in [Jobs -> JobRecord]
    BY Zenon DEF IInv, TypeOK
  <2>4. \A k \in Jobs : [job[k] EXCEPT !.state = job[k].state] = job[k]
    BY Zenon, <2>3 DEF JobRecord
  <2>5. job' = [job EXCEPT ![j].state = Rederived(job[j].state, rs)]
    <3>1. \A k \in Jobs : job'[k] =
              IF k = j THEN [job[j] EXCEPT !.state = Rederived(job[j].state, rs)]
              ELSE job[k]
      BY Zenon, <1>5, <1>6, <2>1, <2>4
    <3> QED
      BY Zenon, <2>1, <2>3, <3>1
  <2> QED
    BY Zenon, <2>1, <2>2, <2>5 DEF WritesRow, rs
<1> QED
  BY Zenon, <1>7

\* A row that runs out its reconciliation time becomes unconfirmed and its
\* device is fenced; no other row holds that device.
LEMMA UnconfirmedIInv ==
    ASSUME IInv, NEW j \in Jobs, NEW d \in Devices, NEW t,
           NEW p \in Processes \cup {None}, mark_unconfirmed(j, d, t, p)
    PROVE  IInv'
<1> DEFINE r == Cleared(row[j][d], "unconfirmed")
           f == [kind |-> "job", id |-> j, process |-> p]
<1>1. r \in RowRecord /\ r.state = "unconfirmed"
  <2>1. row[j][d] \in RowRecord
    BY Zenon DEF IInv, TypeOK
  <2> QED
    BY Zenon, <2>1, ClearedType
<1>2. Active(j, d) /\ fence' = [fence EXCEPT ![d] = f]
  BY Zenon DEF mark_unconfirmed, Active
<1>3. job[j].state \in Dispatched
  BY Zenon, <1>2, ActiveIsDispatched DEF IInv
<1>4. f \in FenceRecord /\ f.kind = "job" /\ f.id = j
  BY Zenon DEF FenceRecord
<1>7. WritesRow(j, d, r)
  BY Zenon, UnconfirmedWrites
<1> HIDE DEF r, f
<1>8. /\ job' \in [Jobs -> JobRecord]
      /\ row' \in [Jobs -> [Devices -> RowRecord]]
      /\ nextSeq' \in Nat /\ now' \in Nat /\ revised' \subseteq Jobs
      /\ \A k \in Jobs, e \in Devices :
             row'[k][e] = IF k = j /\ e = d THEN r ELSE row[k][e]
      /\ \A k \in Jobs : job'[k].seq = job[k].seq
      /\ \A k \in Jobs :
             job'[k].state \in NonTerminalJob => job[k].state \in NonTerminalJob
      /\ JobStateMatchesRows' /\ QueueOrder'
  <2>1. TypeOK /\ JobStateMatchesRows /\ QueueOrder /\ r.state \in DeviceState
    BY Zenon, <1>1 DEF IInv
  <2> QED
    BY <1>1, <1>3, <1>7, <2>1, PutRowEffect
<1>9. fence' \in [Devices -> FenceRecord]
      /\ fence'[d] = f /\ \A e \in Devices : e # d => fence'[e] = fence[e]
  BY Zenon, <1>2, <1>4 DEF IInv, TypeOK
<1>10. OneActivePerDevice' /\ NoOvertaking'
  <2>1. \A k \in Jobs, e \in Devices :
            /\ row'[k][e].state \in ACTIVE_DEVICE_STATES => Active(k, e)
            /\ row'[k][e].state = "queued" =>
                   row[k][e].state = "queued" \/ Active(k, e)
    BY Zenon, <1>1, <1>8 DEF Active
  <2> QED
    BY Zenon, <1>8, <2>1, CalmStep DEF IInv
<1>11. JobFenceSound'
  <2> SUFFICES ASSUME NEW e \in Devices, fence'[e].kind = "job"
               PROVE  /\ \A k \in Jobs : fence'[e].id = k =>
                             row'[k][e].state = "unconfirmed"
                      /\ \A k \in Jobs : row'[k][e].state \notin ACTIVE_DEVICE_STATES
    BY Zenon DEF JobFenceSound, Active
  <2>1. CASE e = d
    <3>1. Active(j, d) /\ \A k \in Jobs : Active(k, d) => k = j
      BY Zenon, <1>2 DEF IInv, OneActivePerDevice
    <3>2. row'[j][d] = r /\ \A k \in Jobs : k # j => row'[k][d] = row[k][d]
      BY Zenon, <1>8
    <3>3. r.state = "unconfirmed" /\ fence'[d].id = j
      BY Zenon, <1>1, <1>4, <1>9
    <3>4. \A k \in Jobs : row'[k][d].state \notin ACTIVE_DEVICE_STATES
      BY Zenon, <3>1, <3>2, <3>3 DEF Active
    <3> QED
      BY Zenon, <2>1, <3>2, <3>3, <3>4
  <2>2. CASE e # d
    <3>1. fence'[e] = fence[e] /\ \A k \in Jobs : row'[k][e] = row[k][e]
      BY Zenon, <1>8, <1>9, <2>2
    <3> QED
      BY Zenon, <3>1 DEF IInv, JobFenceSound, Active
  <2> QED
    BY Zenon, <2>1, <2>2
<1> QED
  BY Zenon, <1>8, <1>9, <1>10, <1>11 DEF IInv, TypeOK

\* A change of fences alone: a fence of kind "job" is never created this way.
LEMMA FenceOnlyIInv ==
    ASSUME IInv, NEW d \in Devices, NEW f \in FenceRecord, f.kind # "job",
           NEW visible \in SUBSET Jobs, ReplaceFence(d, f, visible)
    PROVE  IInv'
<1>1. fence' = [fence EXCEPT ![d] = f] /\ revised' = visible
      /\ job' = job /\ row' = row /\ nextSeq' = nextSeq /\ now' = now
  BY Zenon DEF ReplaceFence
<1>2. TypeOK'
  BY Zenon, <1>1 DEF IInv, TypeOK
<1>3. JobFenceSound'
  <2>1. \A e \in Devices : fence'[e].kind = "job" => fence'[e] = fence[e]
    BY Zenon, <1>1 DEF IInv, TypeOK
  <2> QED
    BY Zenon, <1>1, <2>1 DEF IInv, JobFenceSound, Active
<1>4. (OneActivePerDevice /\ NoOvertaking /\ JobStateMatchesRows /\ QueueOrder)'
  BY Zenon, <1>1
  DEF IInv, OneActivePerDevice, NoOvertaking, JobStateMatchesRows, QueueOrder,
      Active
<1> QED
  BY Zenon, <1>2, <1>3, <1>4 DEF IInv

\* Visible jobs are jobs, whatever the fence.
LEMMA VisibleJobsType ==
    ASSUME NEW d, NEW f, NEW blocking PROVE VisibleJobs(d, f, blocking) \subseteq Jobs
BY Zenon DEF VisibleJobs, Latest

\* The steps of one assignment keep the invariant.
LEMMA RowStepIInv ==
    ASSUME IInv, NEW j \in Jobs, NEW d \in Devices, RowStep(j, d)
    PROVE  IInv'
<1> DEFINE r == row[j][d]
<1>0. r \in RowRecord /\ now \in Nat
  BY Zenon DEF IInv, TypeOK
<1>1. CASE \E online \in SUBSET Devices : claim_next(online, j, d)
  BY Zenon, <1>1, ClaimIInv
<1>2. CASE \E v1 \in BOOLEAN : prepare_dispatch(j, d, v1)
  <2> PICK v1 \in BOOLEAN : prepare_dispatch(j, d, v1)
    BY Zenon, <1>2
  <2> DEFINE t == IF v1 THEN now + AcceptTimeout ELSE NoTime
  <2>1. t \in Nat
    BY <1>0, TimeAssumption
  <2>2. /\ Active(j, d) /\ UNCHANGED fence
        /\ PutRow(j, d, [r EXCEPT !.state = "dispatching", !.acceptBy = t])
    BY Zenon DEF prepare_dispatch, Active
  <2> HIDE DEF t, r
  <2>3. /\ [r EXCEPT !.state = "dispatching", !.acceptBy = t] \in RowRecord
        /\ [r EXCEPT !.state = "dispatching", !.acceptBy = t].state = "dispatching"
    BY Zenon, <1>0, <2>1 DEF RowRecord
  <2> QED
    BY Zenon, <2>2, <2>3, ActiveRowUpdate
<1>3. CASE RequeueWaiting(j, d)
  <2>1. [r EXCEPT !.state = "queued"] \in RowRecord
        /\ [r EXCEPT !.state = "queued"].state = "queued"
    BY Zenon, <1>0, RowChangeType
  <2> QED
    BY Zenon, <1>3, <2>1, TransitionIInv DEF RequeueWaiting
<1>4. CASE requeue_after_send_race(j, d)
  <2>1. [r EXCEPT !.state = "queued", !.acceptBy = NoTime] \in RowRecord
        /\ [r EXCEPT !.state = "queued", !.acceptBy = NoTime].state = "queued"
    BY Zenon, <1>0 DEF RowRecord
  <2> QED
    BY Zenon, <1>4, <2>1, TransitionIInv DEF requeue_after_send_race
<1>5. CASE CommandAccepted(j, d)
  <2>1. /\ [Cleared(r, "downloading") EXCEPT !.accepted = TRUE] \in RowRecord
        /\ [Cleared(r, "downloading") EXCEPT !.accepted = TRUE].state = "downloading"
    BY Zenon, <1>0 DEF Cleared, RowRecord
  <2> QED
    BY Zenon, <1>5, <2>1, TransitionIInv DEF CommandAccepted
<1>6. CASE BusyWithSameJob(j, d)
  <2> DEFINE q == [r EXCEPT !.state = "downloading", !.accepted = TRUE,
                            !.acceptBy = NoTime]
  <2>1. q \in RowRecord /\ q.state = "downloading"
    BY Zenon, <1>0 DEF RowRecord
  <2> QED
    BY Zenon, <1>6, <2>1, TransitionIInv DEF BusyWithSameJob
<1>7. CASE fail_current(j, d)
  BY <1>0, <1>7, ClearedType, TransitionIInv DEF fail_current
<1>8. CASE transfer_complete(j, d)
  BY <1>0, <1>8, ClearedType, TransitionIInv DEF transfer_complete
<1>9. CASE validation_complete(j, d)
  BY Zenon, <1>0, <1>9, TransitionIInv
  DEF validation_complete, transition_device
<1>10. CASE handle_phase(j, d)
  <2> DEFINE q == [r EXCEPT !.state = "applying", !.reason = NoReason,
                            !.reconBy = NoTime]
  <2>1. q \in RowRecord /\ q.state = "applying"
    BY Zenon, <1>0 DEF RowRecord
  <2> QED
    BY Zenon, <1>10, <2>1, TransitionIInv DEF handle_phase
<1>11. CASE \E s \in {"succeeded", "failed"} : settle_result(j, d, s)
  BY Zenon, <1>11, SettleIInv
<1>12. CASE \E t \in 1..now : mark_acceptance_reconciling(j, d, t)
  <2> DEFINE q == Reconciling(r, "command_accept_timeout", AcceptReconTimeout)
  <2>1. Active(j, d) /\ UNCHANGED fence /\ PutRow(j, d, q)
    BY Zenon, <1>12 DEF mark_acceptance_reconciling, Active
  <2>2. AcceptReconTimeout \in Nat
    BY Zenon, TimeAssumption
  <2>3. q \in RowRecord /\ q.state = "reconciling"
    <3>1. \A reason \in Reasons :
              /\ Reconciling(r, reason, AcceptReconTimeout) \in RowRecord
              /\ Reconciling(r, reason, AcceptReconTimeout).state = "reconciling"
      BY Zenon, <1>0, <2>2, ReconcilingType
    <3> QED
      BY Zenon, <3>1
  <2> HIDE DEF q
  <2> QED
    BY Zenon, <2>1, <2>3, ActiveRowUpdate
<1>13. ASSUME NEW reason \in Reasons, NEW t \in Nat,
              NEW expected \in SUBSET ACTIVE_DEVICE_STATES,
              mark_reconciling(j, d, expected, reason, t)
       PROVE  IInv'
  <2> DEFINE q == Reconciling(r, reason, t)
  <2>1. q \in RowRecord /\ q.state = "reconciling"
    BY Zenon, <1>0, ReconcilingType
  <2> HIDE DEF q
  <2>2. [q EXCEPT !.acceptBy = NoTime] \in RowRecord
        /\ [q EXCEPT !.acceptBy = NoTime].state = "reconciling"
    BY Zenon, <2>1 DEF RowRecord
  <2>3. transition_device(j, d, expected, [q EXCEPT !.acceptBy = NoTime])
    BY Zenon, <1>13 DEF mark_reconciling, q
  <2> QED
    BY Zenon, <2>2, <2>3, TransitionIInv
<1>14. CASE DeviceDisconnected(j, d)
  BY Zenon, <1>13, <1>14, TimeAssumption
  DEF DeviceDisconnected, DispatchedPhases
<1>15. CASE \E t \in {AcceptReconTimeout, ReconTimeout} : DispatchUncertain(j, d, t)
  BY Zenon, <1>13, <1>15, TimeAssumption
  DEF DispatchUncertain, DispatchedPhases
<1>16. CASE \E phase \in {"downloading", "validating", "applying"} :
                ReconcileActive(j, d, phase)
  <2> PICK phase \in {"downloading", "validating", "applying"} :
           ReconcileActive(j, d, phase)
    BY Zenon, <1>16
  <2>1. /\ [Cleared(r, phase) EXCEPT !.accepted = TRUE] \in RowRecord
        /\ [Cleared(r, phase) EXCEPT !.accepted = TRUE].state = phase
    BY Zenon, <1>0 DEF Cleared, RowRecord
  <2>2. Active(j, d) /\ UNCHANGED fence
        /\ PutRow(j, d, [Cleared(r, phase) EXCEPT !.accepted = TRUE])
    BY Zenon DEF ReconcileActive, Active
  <2> QED
    BY Zenon, <2>1, <2>2, ActiveRowUpdate
<1>17. CASE \E absent \in BOOLEAN : ReconcileGone(j, d, absent)
  <2> DEFINE c == Cleared(r, "queued")
             q == [c EXCEPT !.replays = c.replays + 1]
  <2>1. c \in RowRecord /\ c.state = "queued" /\ c.replays = r.replays
    BY Zenon, <1>0, ClearedType
  <2>2. Replayable(j, d) => c.replays + 1 \in 0..1
    BY <1>0, <2>1 DEF Replayable, RowRecord
  <2>3. Replayable(j, d) => q \in RowRecord /\ q.state = "queued"
    <3>1. \A n \in 0..1 : [c EXCEPT !.replays = n] \in RowRecord
                          /\ [c EXCEPT !.replays = n].state = "queued"
      <4> HIDE DEF c
      <4> QED
        BY Zenon, <2>1 DEF RowRecord
    <3> QED
      BY Zenon, <2>2, <3>1
  <2>4. Active(j, d) /\ UNCHANGED fence /\
        \/ Replayable(j, d) /\ PutRow(j, d, q)
        \/ PutRow(j, d, Cleared(r, "interrupted"))
    BY Zenon, <1>17 DEF ReconcileGone, Active
  <2> HIDE DEF q
  <2> QED
    BY <1>0, <2>3, <2>4, ClearedType, ActiveRowUpdate
<1>18. CASE \E t \in 1..now, p \in Processes \cup {None} : mark_unconfirmed(j, d, t, p)
  BY Zenon, <1>18, UnconfirmedIInv
<1>19. CASE clear_matching_fence(j, d)
  <2>1. NoFence \in FenceRecord /\ NoFence.kind = "none"
    BY Zenon DEF NoFence, FenceRecord
  <2> QED
    BY Zenon, <1>19, <2>1, FenceOnlyIInv, VisibleJobsType
    DEF clear_matching_fence
<1>20. CASE RegisterArtifactMismatch(j, d)
  <2>1. /\ job[j].state \in Dispatched /\ r.state \notin TERMINAL_DEVICE_STATES
        /\ PutRow(j, d, Cleared(r, "failed")) /\ UNCHANGED fence
    BY Zenon, <1>20 DEF RegisterArtifactMismatch, transition_device
  <2>2. Cleared(r, "failed") \in RowRecord /\ Cleared(r, "failed").state = "failed"
    BY Zenon, <1>0, ClearedType
  <2> QED
    BY Zenon, <2>1, <2>2, RowUpdate
<1> QED
  BY Zenon, <1>1, <1>2, <1>3, <1>4, <1>5, <1>6, <1>7, <1>8, <1>9, <1>10, <1>11,
      <1>12,
     <1>14, <1>15, <1>16, <1>17, <1>18, <1>19, <1>20 DEF RowStep

\* The steps on a device fence keep the invariant.
LEMMA FenceStepIInv ==
    ASSUME IInv, NEW d \in Devices, FenceStep(d)
    PROVE  IInv'
<1>0. NoFence \in FenceRecord /\ NoFence.kind = "none"
  BY Zenon DEF NoFence, FenceRecord
<1>1. ASSUME NEW id \in Jobs \cup Foreign \cup {Unidentified},
             NEW p \in Processes \cup {None}, add_opaque_fence(d, id, p)
      PROVE  IInv'
  <2> DEFINE f == [kind |-> "opaque", id |-> id, process |-> p]
  <2>1. f \in FenceRecord /\ f.kind # "job"
    BY Zenon DEF FenceRecord
  <2>2. ReplaceFence(d, f, VisibleJobs(d, f, {}))
    BY Zenon, <1>1 DEF add_opaque_fence
  <2> HIDE DEF f
  <2> QED
    BY Zenon, <2>1, <2>2, FenceOnlyIInv, VisibleJobsType
<1>2. ASSUME NEW p \in Processes, clear_fence_on_process_replacement(d, p)
      PROVE  IInv'
  BY Zenon, <1>0, <1>2, FenceOnlyIInv, VisibleJobsType
  DEF clear_fence_on_process_replacement
<1>3. ASSUME NEW id \in Jobs \cup Foreign, clear_matching_opaque_fence(d, id)
      PROVE  IInv'
  BY Zenon, <1>0, <1>3, FenceOnlyIInv, VisibleJobsType
  DEF clear_matching_opaque_fence
<1> QED
  BY Zenon, <1>1, <1>2, <1>3 DEF FenceStep

-----------------------------------------------------------------------------
(* Server start.                                                           *)

\* Recovery touches active rows only: it requeues a claim that was not
\* dispatched and leaves every other active row reconciling.  What it knows of
\* the acceptance is kept.
LEMMA RecoveredRowType ==
    ASSUME NEW r \in RowRecord, now \in Nat
    PROVE  LET q == RecoveredRow(r)
           IN  /\ q \in RowRecord
               /\ r.state \notin ACTIVE_DEVICE_STATES => q = r
               /\ r.state \in ACTIVE_DEVICE_STATES =>
                      /\ q.accepted = r.accepted
                      /\ \/ q.state = "reconciling"
                         \/ q.state = "queued" /\ r.state = "waiting_transfer"
<1>1. AcceptReconTimeout \in Nat /\ ReconTimeout \in Nat
  BY Zenon, TimeAssumption
<1>2. \A t \in {AcceptReconTimeout, ReconTimeout} :
          LET q == Reconciling(r, "server_restart", t)
          IN  q \in RowRecord /\ q.state = "reconciling" /\ q.accepted = r.accepted
  <2>1. \A reason \in Reasons, t \in Nat :
            /\ Reconciling(r, reason, t) \in RowRecord
            /\ Reconciling(r, reason, t).state = "reconciling"
            /\ Reconciling(r, reason, t).accepted = r.accepted
    BY Zenon, ReconcilingType
  <2> QED
    BY Zenon, <1>1, <2>1
<1>3. \A q \in RowRecord : /\ [q EXCEPT !.acceptBy = NoTime] \in RowRecord
                           /\ [q EXCEPT !.acceptBy = NoTime].state = q.state
                           /\ [q EXCEPT !.acceptBy = NoTime].accepted = q.accepted
  BY Zenon DEF RowRecord
<1>4. /\ [r EXCEPT !.state = "queued"] \in RowRecord
      /\ [r EXCEPT !.state = "queued"].state = "queued"
      /\ [r EXCEPT !.state = "queued"].accepted = r.accepted
  BY Zenon, RowChangeType DEF RowRecord
<1>5. r.accepted \in BOOLEAN
  BY Zenon DEF RowRecord
<1>6. CASE r.state = "waiting_transfer"
  BY Zenon, <1>4, <1>6 DEF RecoveredRow
<1>7. CASE r.state = "dispatching" \/ (r.state = "reconciling" /\ ~r.accepted)
  BY Zenon, <1>2, <1>3, <1>7 DEF RecoveredRow
<1>8. CASE r.state \in {"downloading", "validating", "applying"}
               \/ (r.state = "reconciling" /\ r.accepted)
  BY Zenon, <1>2, <1>3, <1>8 DEF RecoveredRow
<1>9. CASE r.state \notin ACTIVE_DEVICE_STATES
  BY Zenon, <1>9 DEF RecoveredRow
<1> QED
  BY Zenon, <1>5, <1>6, <1>7, <1>8, <1>9

\* A missing artifact fails a row that still needs it and leaves the others.
LEMMA RowWithoutArtifactType ==
    ASSUME NEW r \in RowRecord
    PROVE  LET q == RowWithoutArtifact(r)
           IN  q \in RowRecord /\ (q = r \/ (q.state = "failed" /\
                   r.state \in {"queued", "waiting_transfer", "dispatching",
                                "downloading"}))
BY Zenon, RowChangeType DEF RowWithoutArtifact

\* What recovery and the artifact check make of a row.
RestartedRow(r, q) ==
    \/ r.state \notin ACTIVE_DEVICE_STATES /\ q = r
    \/ /\ r.state \in ACTIVE_DEVICE_STATES /\ q.state = "reconciling"
       /\ q.accepted = r.accepted
    \/ r.state = "waiting_transfer" /\ q.state = "queued" /\ q.accepted = r.accepted
    \/ r.state \in {"queued", "waiting_transfer"} /\ q.state = "failed"

\* Recovery and the artifact check, one job and one row at a time: a job that
\* is not dispatched keeps its rows and may only be given up; a dispatched job
\* follows its rows.
LEMMA RestartShape ==
    ASSUME IInv, NEW gone \in SUBSET Jobs, Restart(gone)
    PROVE  /\ row' \in [Jobs -> [Devices -> RowRecord]]
           /\ job' \in [Jobs -> JobRecord]
           /\ revised' \subseteq Jobs /\ UNCHANGED <<fence, nextSeq, now>>
           /\ \A j \in Jobs, d \in Devices : RestartedRow(row[j][d], row'[j][d])
           /\ \A j \in Jobs : job'[j].seq = job[j].seq
           /\ \A j \in Jobs : job[j].state \notin Dispatched =>
                  /\ row'[j] = row[j]
                  /\ \/ job'[j] = job[j]
                     \/ /\ job[j].state \in PreDispatch
                        /\ job'[j].state \in {"interrupted", "failed"}
           /\ \A j \in Jobs : job[j].state \in Dispatched =>
                  job'[j].state = derive_dispatched_job_state(RowStates(row'[j]))
<1> DEFINE row1 == [j \in Jobs |-> [d \in Devices |-> RecoveredRow(row[j][d])]]
           job1 == [j \in Jobs |-> RecoveredJob(job[j], row1[j])]
           Needing == {"queued", "waiting_transfer", "dispatching", "downloading"}
           lost(j) == j \in gone /\ job1[j].state \in Dispatched
           checked(j) ==
               CASE j \in gone /\ job1[j].state = "ready" ->
                       [job1[j] EXCEPT !.state = "failed", !.enabled = FALSE]
                 [] lost(j) -> [job1[j] EXCEPT !.state =
                                   Rederived(job1[j].state, row'[j])]
                 [] OTHER -> job1[j]
<1>0. /\ now \in Nat /\ job \in [Jobs -> JobRecord]
      /\ row \in [Jobs -> [Devices -> RowRecord]]
      /\ \A j \in Jobs : StateMatches(job[j].state, row[j])
  BY Zenon DEF IInv, TypeOK, JobStateMatchesRows
<1>1. /\ row' = [j \in Jobs |-> IF lost(j)
                   THEN [d \in Devices |-> RowWithoutArtifact(row1[j][d])]
                   ELSE row1[j]]
      /\ job' = [j \in Jobs |-> checked(j)]
      /\ revised' \subseteq Jobs
      /\ UNCHANGED <<fence, nextSeq, now>>
  BY Zenon DEF Restart
<1>2. \A j \in Jobs, d \in Devices :
          /\ row1[j][d] \in RowRecord
          /\ ~Active(j, d) => row1[j][d] = row[j][d]
          /\ Active(j, d) =>
                 /\ row1[j][d].accepted = row[j][d].accepted
                 /\ \/ row1[j][d].state = "reconciling"
                    \/ row1[j][d].state = "queued" /\ row[j][d].state = "waiting_transfer"
  BY Zenon, <1>0, RecoveredRowType DEF Active
<1>3. \A j \in Jobs, d \in Devices :
          row'[j][d] \in RowRecord /\
          \/ row'[j][d] = row1[j][d]
          \/ lost(j) /\ row'[j][d].state = "failed" /\
                row1[j][d].state \in Needing
  <2> SUFFICES ASSUME NEW j \in Jobs, NEW d \in Devices
               PROVE  row'[j][d] \in RowRecord /\
                      \/ row'[j][d] = row1[j][d]
                      \/ lost(j) /\ row'[j][d].state = "failed" /\
                            row1[j][d].state \in Needing
    BY Zenon
  <2>1. row1[j][d] \in RowRecord
    BY Zenon, <1>2
  <2>2. row'[j][d] = IF lost(j) THEN RowWithoutArtifact(row1[j][d]) ELSE row1[j][d]
    <3> HIDE DEF row1, job1, lost
    <3> QED
      BY Zenon, <1>1
  <2> HIDE DEF row1, job1, lost
  <2> QED
    BY Zenon, <2>1, <2>2, RowWithoutArtifactType
<1>4. row' \in [Jobs -> [Devices -> RowRecord]]
  <2>1. \A j \in Jobs : row'[j] \in [Devices -> RowRecord]
    <3> SUFFICES ASSUME NEW j \in Jobs PROVE row'[j] \in [Devices -> RowRecord]
      BY Zenon
    <3>1. row'[j] = [d \in Devices |-> row'[j][d]]
      BY Zenon, <1>1
    <3> QED
      BY Zenon, <1>3, <3>1
  <2> QED
    BY Zenon, <1>1, <2>1
<1>5. ASSUME NEW j \in Jobs, NEW d \in Devices
      PROVE  RestartedRow(row[j][d], row'[j][d])
  <2> HIDE DEF row1, job1, lost
  <2>1. CASE Active(j, d)
    <3>1. CASE row'[j][d] = row1[j][d]
      BY <1>2, <2>1, <3>1 DEF RestartedRow, Active
    <3>2. CASE row'[j][d].state = "failed" /\ row1[j][d].state \in Needing
      BY Zenon, <1>2, <2>1, <3>2 DEF RestartedRow, Active
    <3> QED
      BY Zenon, <1>3, <3>1, <3>2
  <2>2. CASE ~Active(j, d)
    <3>1. row1[j][d] = row[j][d] /\ row[j][d].state \notin ACTIVE_DEVICE_STATES
      BY Zenon, <1>2, <2>2 DEF Active
    <3>2. CASE row'[j][d] = row1[j][d]
      BY Zenon, <3>1, <3>2 DEF RestartedRow
    <3>3. CASE row'[j][d].state = "failed" /\ row1[j][d].state \in Needing
      BY Zenon, <3>1, <3>3 DEF RestartedRow
    <3> QED
      BY Zenon, <1>3, <3>2, <3>3
  <2> QED
    BY Zenon, <2>1, <2>2
<1>6. ASSUME NEW j \in Jobs PROVE job[j] \in JobRecord
  BY Zenon, <1>0
<1>7. ASSUME NEW j \in Jobs, job[j].state \notin Dispatched
      PROVE  /\ row'[j] = row[j]
             /\ job'[j] \in JobRecord /\ job'[j].seq = job[j].seq
             /\ \/ job'[j] = job[j]
                \/ /\ job[j].state \in PreDispatch
                   /\ job'[j].state \in {"interrupted", "failed"}
  <2>1. \A d \in Devices : ~Active(j, d)
    BY Zenon, <1>7, ActiveIsDispatched DEF IInv
  <2>2. row1[j] = row[j]
    <3>1. row1[j] = [d \in Devices |-> row1[j][d]]
      BY Zenon
    <3>2. row[j] = [d \in Devices |-> row[j][d]]
      BY Zenon, <1>0
    <3>3. \A d \in Devices : row1[j][d] = row[j][d]
      BY Zenon, <1>2, <2>1
    <3> HIDE DEF row1
    <3> QED
      BY Zenon, <3>1, <3>2, <3>3
  <2>3. \/ job1[j] = job[j]
        \/ job[j].state \in PreDispatch \ {"ready"}
           /\ job1[j] = [job[j] EXCEPT !.state = "interrupted"]
    BY Zenon, <1>7 DEF RecoveredJob
  <2>4. job1[j].state \notin Dispatched /\ (job1[j].state = "ready" => job1[j] = job[j])
    <3>1. [job[j] EXCEPT !.state = "interrupted"].state = "interrupted"
      BY Zenon, <1>6 DEF JobRecord
    <3> HIDE DEF job1
    <3> QED
      BY Zenon, <1>7, <2>3, <3>1
  <2> HIDE DEF row1, job1
  <2>5. row'[j] = row[j]
    BY Zenon, <1>1, <2>2, <2>4
  <2>6. job'[j] = IF j \in gone /\ job1[j].state = "ready"
                  THEN [job1[j] EXCEPT !.state = "failed", !.enabled = FALSE]
                  ELSE job1[j]
    BY Zenon, <1>1, <2>4
  <2>7. CASE j \in gone /\ job1[j].state = "ready"
    <3>1. job'[j] = [job[j] EXCEPT !.state = "failed", !.enabled = FALSE]
          /\ job[j].state = "ready"
      BY Zenon, <2>4, <2>6, <2>7
    <3> QED
      <4>1. /\ job'[j] \in JobRecord /\ job'[j].state = "failed"
            /\ job'[j].seq = job[j].seq
        BY Zenon, <1>6, <3>1 DEF JobRecord
      <4> QED
        BY Zenon, <2>5, <3>1, <4>1
  <2>8. CASE ~(j \in gone /\ job1[j].state = "ready")
    <3>1. job'[j] = job1[j]
      BY Zenon, <2>6, <2>8
    <3>2. CASE job1[j] = job[j]
      BY Zenon, <1>6, <2>5, <3>1, <3>2
    <3>3. CASE /\ job[j].state \in PreDispatch \ {"ready"}
               /\ job1[j] = [job[j] EXCEPT !.state = "interrupted"]
      <4>1. /\ job'[j] \in JobRecord /\ job'[j].state = "interrupted"
            /\ job'[j].seq = job[j].seq
        BY Zenon, <1>6, <3>1, <3>3 DEF JobRecord
      <4> QED
        BY Zenon, <2>5, <3>3, <4>1
    <3> QED
      BY Zenon, <2>3, <3>2, <3>3
  <2> QED
    BY Zenon, <2>7, <2>8
<1>8. ASSUME NEW j \in Jobs, job[j].state \in Dispatched
      PROVE  /\ job'[j].state = derive_dispatched_job_state(RowStates(row'[j]))
             /\ job'[j] \in JobRecord /\ job'[j].seq = job[j].seq
  <2> DEFINE s == derive_dispatched_job_state(RowStates(row1[j]))
             t == derive_dispatched_job_state(RowStates(row'[j]))
  <2>1. job1[j] = [job[j] EXCEPT !.state = s, !.enabled = FALSE]
    BY Zenon, <1>8 DEF RecoveredJob, Rederived
  <2>2. /\ s \in Dispatched \cup {"succeeded", "completed_with_errors", "failed"}
        /\ t \in Dispatched \cup {"succeeded", "completed_with_errors", "failed"}
    BY Zenon, DeriveRange
  <2> HIDE DEF row1, job1, s
  <2>3. job1[j] \in JobRecord /\ job1[j].state = s /\ job1[j].seq = job[j].seq
    BY Zenon, <1>6, <2>1, <2>2 DEF JobRecord
  <2>4. CASE lost(j)
    <3>1. job'[j] = [job1[j] EXCEPT !.state = t]
      BY Zenon, <1>1, <2>2, <2>3, <2>4 DEF Rederived
    <3> HIDE DEF t
    <3>2. job'[j] \in JobRecord /\ job'[j].state = t /\ job'[j].seq = job1[j].seq
      BY Zenon, <2>2, <2>3, <3>1 DEF JobRecord
    <3> QED
      BY Zenon, <2>3, <3>2 DEF t
  <2>5. CASE ~lost(j)
    <3>1. row'[j] = row1[j] /\ job'[j] = job1[j]
      BY Zenon, <1>1, <2>2, <2>3, <2>5
    <3> QED
      BY Zenon, <2>3, <3>1 DEF s
  <2> QED
    BY Zenon, <2>4, <2>5
<1> HIDE DEF row1, job1, lost, checked
<1>9. \A j \in Jobs : job'[j] \in JobRecord /\ job'[j].seq = job[j].seq
  BY Zenon, <1>7, <1>8
<1>10. job' \in [Jobs -> JobRecord]
  <2>1. job' = [j \in Jobs |-> job'[j]]
    BY Zenon, <1>1
  <2> QED
    BY Zenon, <1>9, <2>1
<1> QED
  BY Zenon, <1>1, <1>4, <1>5, <1>7, <1>8, <1>9, <1>10

\* Recovery and the artifact check keep the invariant.
LEMMA RestartIInv ==
    ASSUME IInv, NEW gone \in SUBSET Jobs, Restart(gone)
    PROVE  IInv'
<1>0. \A j \in Jobs : StateMatches(job[j].state, row[j])
  BY Zenon DEF IInv, JobStateMatchesRows
<1>1. revised' \subseteq Jobs /\ UNCHANGED <<fence, nextSeq, now>>
  BY Zenon, RestartShape
<1>4. row' \in [Jobs -> [Devices -> RowRecord]] /\ job' \in [Jobs -> JobRecord]
  BY Zenon, RestartShape
<1>5. \A j \in Jobs, d \in Devices :
          /\ row'[j][d].state \in ACTIVE_DEVICE_STATES => Active(j, d)
          /\ row'[j][d].state = "queued" => row[j][d].state = "queued" \/ Active(j, d)
          /\ row[j][d].state \in TERMINAL_DEVICE_STATES \cup {Missing} =>
                 row'[j][d] = row[j][d]
  <2> SUFFICES ASSUME NEW j \in Jobs, NEW d \in Devices
               PROVE  /\ row'[j][d].state \in ACTIVE_DEVICE_STATES => Active(j, d)
                      /\ row'[j][d].state = "queued" =>
                             row[j][d].state = "queued" \/ Active(j, d)
                      /\ row[j][d].state \in TERMINAL_DEVICE_STATES \cup {Missing} =>
                             row'[j][d] = row[j][d]
    BY Zenon
  <2>1. RestartedRow(row[j][d], row'[j][d])
    BY Zenon, RestartShape
  <2> QED
    BY Zenon, <2>1 DEF RestartedRow, Active
<1>7. ASSUME NEW j \in Jobs, job[j].state \notin Dispatched
      PROVE  /\ row'[j] = row[j]
             /\ \/ job'[j] = job[j]
                \/ /\ job[j].state \in PreDispatch
                   /\ job'[j].state \in {"interrupted", "failed"}
  BY Zenon, <1>7, RestartShape
<1>8. ASSUME NEW j \in Jobs, job[j].state \in Dispatched
      PROVE  job'[j].state = derive_dispatched_job_state(RowStates(row'[j]))
  BY Zenon, <1>8, RestartShape
<1>9. /\ job' \in [Jobs -> JobRecord]
      /\ \A j \in Jobs :
            /\ job'[j].seq = job[j].seq
            /\ job'[j].state \in NonTerminalJob => job[j].state \in NonTerminalJob
            /\ job'[j].state = Missing <=> job[j].state = Missing
  <2>1. \A j \in Jobs : job'[j].seq = job[j].seq
    BY Zenon, RestartShape
  <2>2. job' \in [Jobs -> JobRecord]
    BY Zenon, <1>4
  <2>3. ASSUME NEW j \in Jobs
        PROVE /\ job'[j].state \in NonTerminalJob => job[j].state \in NonTerminalJob
              /\ job'[j].state = Missing <=> job[j].state = Missing
    <3>1. CASE job[j].state \in Dispatched
      BY Zenon, <1>8, <3>1, DeriveRange
    <3>2. CASE job[j].state \notin Dispatched
      BY Zenon, <1>7, <3>2
    <3> QED
      BY Zenon, <3>1, <3>2
  <2> QED
    BY Zenon, <2>1, <2>2, <2>3
<1>10. JobStateMatchesRows'
  <2> SUFFICES ASSUME NEW j \in Jobs PROVE StateMatches(job'[j].state, row'[j])
    BY Zenon DEF JobStateMatchesRows
  <2>1. CASE job[j].state \in Dispatched
    <3>1. /\ job'[j].state = derive_dispatched_job_state(RowStates(row'[j]))
          /\ job'[j].state \in Dispatched \cup {"succeeded", "completed_with_errors",
                                                "failed"}
      BY Zenon, <1>8, <2>1, DeriveRange
    <3>2. job'[j].state = "failed" =>
              \A d \in Devices : row'[j][d].state \notin ACTIVE_DEVICE_STATES
      <4> SUFFICES ASSUME job'[j].state = "failed", NEW d \in Devices
                   PROVE  row'[j][d].state \notin ACTIVE_DEVICE_STATES
        BY Zenon
      <4>1. \A x \in RowStates(row'[j]) : x \in TERMINAL_DEVICE_STATES
        BY Zenon, <3>1, DeriveRange
      <4>2. row'[j][d].state # Missing => row'[j][d].state \in RowStates(row'[j])
        BY Zenon DEF RowStates
      <4> QED
        BY Zenon, <4>1, <4>2
    <3> QED
      BY Zenon, <3>1, <3>2 DEF StateMatches
  <2>2. CASE job[j].state \notin Dispatched
    <3>1. row'[j] = row[j] /\ StateMatches(job[j].state, row[j])
      BY Zenon, <1>0, <1>7, <2>2
    <3>2. \A d \in Devices : row[j][d].state \notin ACTIVE_DEVICE_STATES
      BY Zenon, <2>2, ActiveIsDispatched DEF IInv, Active
    <3>3. CASE job'[j] = job[j]
      BY Zenon, <3>1, <3>3
    <3>4. CASE job'[j].state \in {"interrupted", "failed"}
      BY Zenon, <3>1, <3>2, <3>4 DEF StateMatches
    <3> QED
      BY Zenon, <1>7, <2>2, <3>3, <3>4
  <2> QED
    BY Zenon, <2>1, <2>2
<1>11. OneActivePerDevice' /\ NoOvertaking'
  BY Zenon, <1>5, <1>9, CalmStep DEF IInv
<1>12. JobFenceSound'
  <2>1. fence' = fence
    BY Zenon, <1>1
  <2>2. \A j \in Jobs, d \in Devices :
            /\ row'[j][d].state \in ACTIVE_DEVICE_STATES => Active(j, d)
            /\ row[j][d].state = "unconfirmed" => row'[j][d].state = "unconfirmed"
    BY Zenon, <1>5
  <2>3. JobFenceSound
    BY Zenon DEF IInv
  <2> QED
    BY Zenon, <2>1, <2>2, <2>3, FencesKept
<1>13. QueueOrder'
  <2>1. \A j \in Jobs : job[j].state = Missing => row'[j] = row[j]
    BY Zenon, <1>7
  <2>2. nextSeq' = nextSeq
    BY Zenon, <1>1
  <2>3. \A j \in Jobs : job'[j].seq = job[j].seq
    BY Zenon, <1>9
  <2>4. \A j \in Jobs : job'[j].state # Missing => job[j].state # Missing
    BY Zenon, <1>9
  <2>5. \A j \in Jobs : job'[j].state = Missing => job[j].state = Missing
    BY Zenon, <1>9
  <2>6. QueueOrder
    BY Zenon DEF IInv
  <2>7. \A j \in Jobs : job'[j].state # Missing => job'[j].seq < nextSeq'
    BY Zenon, <2>2, <2>3, <2>4, <2>6 DEF QueueOrder
  <2>8. \A j, k \in Jobs :
            job'[j].state # Missing /\ job'[k].state # Missing
                /\ job'[j].seq = job'[k].seq => j = k
    BY Zenon, <2>3, <2>4, <2>6 DEF QueueOrder
  <2>9. \A j \in Jobs : job'[j].state = Missing =>
            \A d \in Devices : row'[j][d].state = Missing
    BY <2>1, <2>5, <2>6 DEF QueueOrder
  <2> QED
    BY Zenon, <2>7, <2>8, <2>9 DEF QueueOrder
<1>14. TypeOK'
  BY Zenon, <1>1, <1>4, <1>9 DEF IInv, TypeOK
<1> QED
  BY Zenon, <1>10, <1>11, <1>12, <1>13, <1>14 DEF IInv

-----------------------------------------------------------------------------
(* The invariant of the specification.                                     *)

\* No transaction, restart or tick breaks the invariant.
LEMMA NextIInv == IInv /\ [Next]_vars => IInv'
<1> SUFFICES ASSUME IInv, [Next]_vars PROVE IInv'
  BY Zenon
<1>1. CASE \E j \in Jobs : JobStep(j)
  BY Zenon, <1>1, JobStepIInv
<1>2. CASE \E j \in Jobs, d \in Devices : RowStep(j, d)
  BY Zenon, <1>2, RowStepIInv
<1>3. CASE \E d \in Devices : FenceStep(d)
  BY Zenon, <1>3, FenceStepIInv
<1>4. CASE \E gone \in SUBSET Jobs : Restart(gone)
  BY Zenon, <1>4, RestartIInv
<1>5. CASE Tick \/ UNCHANGED vars
  <2>1. /\ job' = job /\ row' = row /\ fence' = fence /\ nextSeq' = nextSeq
        /\ revised' = revised /\ now' \in Nat
    BY <1>5 DEF Tick, vars, IInv, TypeOK
  <2>2. TypeOK'
    BY Zenon, <2>1 DEF IInv, TypeOK
  <2>3. (OneActivePerDevice /\ NoOvertaking /\ JobFenceSound
            /\ JobStateMatchesRows /\ QueueOrder)'
    BY Zenon, <2>1 DEF IInv, OneActivePerDevice, NoOvertaking, JobFenceSound,
                JobStateMatchesRows, QueueOrder, Active
  <2> QED
    BY Zenon, <2>2, <2>3 DEF IInv
<1> QED
  BY Zenon, <1>1, <1>2, <1>3, <1>4, <1>5 DEF Next

\* The inductive invariant holds throughout every behaviour of the store,
\* whatever order its transactions and restarts come in.
THEOREM Invariance == Spec => []IInv
BY InitIInv, NextIInv, PTL DEF Spec

\* Every column keeps its range: in particular a row is replayed at most once.
THEOREM TypeCorrect == Spec => []TypeOK
<1>1. IInv => TypeOK
  BY Zenon DEF IInv
<1> QED
  BY <1>1, Invariance, PTL

\* The unique index on active rows never rejects a transaction: claim_next and
\* the requeues keep at most one active assignment per device.
THEOREM DeviceExclusion == Spec => []OneActivePerDevice
<1>1. IInv => OneActivePerDevice
  BY Zenon DEF IInv
<1> QED
  BY <1>1, Invariance, PTL

\* claim_next never passes over an older queued row of a non-terminal job, and
\* no requeue or restart brings one back behind a running assignment.
THEOREM QueueIsFifo == Spec => []NoOvertaking
<1>1. IInv => NoOvertaking
  BY Zenon DEF IInv
<1> QED
  BY <1>1, Invariance, PTL

\* A job fence names an unconfirmed row, and nothing is dispatched to or
\* running on a device while it stands.
THEOREM FenceExclusion == Spec => []JobFenceSound
<1>1. IInv => JobFenceSound
  BY Zenon DEF IInv
<1> QED
  BY <1>1, Invariance, PTL

\* The state column of a job always agrees with its rows, although
\* enable_dispatch, fail_pre_dispatch and the steps of an upload write it
\* without deriving it from them.
THEOREM JobStateDerived == Spec => []JobStateMatchesRows
<1>1. IInv => JobStateMatchesRows
  BY Zenon DEF IInv
<1> QED
  BY <1>1, Invariance, PTL
=============================================================================
