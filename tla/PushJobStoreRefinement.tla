----------------------- MODULE PushJobStoreRefinement -----------------------
(***************************************************************************)
(* PushJobStore implements AssignmentLedger: the columns of a row and the  *)
(* state of its job decide what the operator is promised about it.         *)
(***************************************************************************)
EXTENDS PushJobStore

\* The status of an assignment: a queued row waits only while its job can
\* still be dispatched, and accepted_at is what tells that the device has it.
StatusOf(s, r) ==
    IF r.state = Missing THEN "none"
    ELSE IF r.state = "queued"
      THEN IF s \in NonTerminalJob THEN "waiting" ELSE "withdrawn"
    ELSE IF r.state \in ACTIVE_DEVICE_STATES
      THEN IF r.accepted THEN "executing" ELSE "claimed"
      ELSE r.state

Status == [j \in Jobs |-> [d \in Devices |-> StatusOf(job[j].state, row[j][d])]]
Ticket == [j \in Jobs |-> job[j].seq]

Ledger == INSTANCE AssignmentLedger WITH
    status <- Status, ticket <- Ticket, next <- nextSeq

\* Every transaction, deadline, fence change and restart of the store is a
\* step of the ledger or invisible to it: assignments are taken one at a time
\* per device in submission order, end once, and are not handed out again
\* after the device accepted them.
ImplementsLedger == Ledger!Spec

\* Before it is dispatched an assignment has not been accepted.
UnsentNotAccepted ==
    \A j \in Jobs, d \in Devices :
        row[j][d].state \in {"queued", "waiting_transfer", "dispatching"} =>
            ~row[j][d].accepted

=============================================================================
