-------------------------- MODULE AssignmentLedger --------------------------
(***************************************************************************)
(* What the job store promises to an operator and to a device, without its *)
(* transactions, deadlines, fences and reconciliation: every assignment (a *)
(* job on a device) waits in its device's queue, in the order the jobs     *)
(* were submitted, holds the device alone, and ends once.  An assignment   *)
(* that its device is known to execute is never handed out again.          *)
(***************************************************************************)
EXTENDS Naturals

CONSTANTS Jobs, Devices

VARIABLES
    status,     \* of each job on each device
    ticket,     \* each job's place in every queue it waits in
    next        \* the next ticket

vars == <<status, ticket, next>>

Outcomes == {"succeeded", "failed", "interrupted", "unconfirmed"}
Statuses == {"none", "waiting", "claimed", "executing", "withdrawn"} \cup Outcomes

Held == {"claimed", "executing"}

Init ==
    /\ status = [j \in Jobs |-> [d \in Devices |-> "none"]]
    /\ ticket = [j \in Jobs |-> 0]
    /\ next = 1

Submit(j, targets) ==
    /\ \A d \in Devices : status[j][d] = "none"
    /\ status' = [status EXCEPT ![j] =
                     [d \in Devices |-> IF d \in targets THEN "waiting" ELSE "none"]]
    /\ ticket' = [ticket EXCEPT ![j] = next]
    /\ next' = next + 1

Becomes(j, d, s) ==
    /\ status' = [status EXCEPT ![j][d] = s]
    /\ UNCHANGED <<ticket, next>>

\* The device is free and nobody has waited longer.
Take(j, d) ==
    /\ status[j][d] = "waiting"
    /\ \A k \in Jobs : status[k][d] \notin Held
    /\ \A k \in Jobs : status[k][d] = "waiting" => ticket[j] <= ticket[k]
    /\ Becomes(j, d, "claimed")

Start(j, d) == status[j][d] = "claimed" /\ Becomes(j, d, "executing")

Requeue(j, d) == status[j][d] = "claimed" /\ Becomes(j, d, "waiting")

Settle(j, d, outcome) == status[j][d] \in Held /\ Becomes(j, d, outcome)

Refuse(j, d) == status[j][d] = "waiting" /\ Becomes(j, d, "failed")

\* A job that never reached a device is given up as a whole.
Withdraw(j) ==
    /\ \A d \in Devices : status[j][d] \in {"none", "waiting"}
    /\ status' = [status EXCEPT ![j] =
                     [d \in Devices |-> IF status[j][d] = "waiting"
                                          THEN "withdrawn" ELSE "none"]]
    /\ UNCHANGED <<ticket, next>>

\* What a server restart may make of an assignment.
Recovers(s) ==
    CASE s = "waiting" -> {"waiting", "withdrawn", "failed"}
      [] s = "claimed" -> {"claimed", "waiting", "failed"}
      [] OTHER -> {s}

Restart ==
    /\ status' \in [Jobs -> [Devices -> Statuses]]
    /\ \A j \in Jobs, d \in Devices : status'[j][d] \in Recovers(status[j][d])
    /\ UNCHANGED <<ticket, next>>

Next ==
    \/ \E j \in Jobs : Withdraw(j) \/ \E targets \in SUBSET Devices : Submit(j, targets)
    \/ \E j \in Jobs, d \in Devices :
          \/ Take(j, d) \/ Start(j, d) \/ Requeue(j, d) \/ Refuse(j, d)
          \/ \E outcome \in Outcomes : Settle(j, d, outcome)
    \/ Restart

Spec == Init /\ [][Next]_vars

=============================================================================
