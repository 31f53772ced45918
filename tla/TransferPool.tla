---------------------------- MODULE TransferPool ----------------------------
(***************************************************************************)
(* The throttled fan-out of server.py: install jobs (_run_install_job) and *)
(* the migration-only push jobs (_run_push_job) share one semaphore and    *)
(* one table of transfer waiters (pending_transfers, served at run time by *)
(* push_runtime.py's _LegacyTransferAdapter over TransferRegistry).  The   *)
(* two job functions are twins, so one set of actions stands for both: a   *)
(* dispatch is one dispatch_one coroutine of one job, and its key is the   *)
(* pair of a device and a task that pending_transfers is indexed by.       *)
(***************************************************************************)
EXTENDS Integers, FiniteSets

CONSTANTS
    Dispatches,     \* records with fields job and key, key = <<device, task>>
    NoDispatch,
    Slots           \* MAX_CONCURRENT_TRANSFERS

ASSUME SlotsAssumption == Slots \in Nat \ {0}
ASSUME NoDispatchAssumption == NoDispatch \notin Dispatches
ASSUME DispatchesAssumption == IsFiniteSet(Dispatches)

Jobs == {t.job : t \in Dispatches}
Keys == {t.key : t \in Dispatches}
Devices == {k[1] : k \in Keys}

Of(j) == {t \in Dispatches : t.job = j}

VARIABLES
    place,      \* where each dispatch_one is
    free,       \* permits left in the semaphore
    future,     \* each dispatch's future: none, pending, resolved, cancelled
    pending,    \* pending_transfers: the dispatch registered under each key
    counts,     \* each job's progress counters
    shown,      \* the last *_PROGRESS message of each job
    display,    \* the last *_DEVICE_STATE message for each key
    online,     \* the devices command_allowed lets commands through to
    latest      \* history: the last dispatch registered under each key

poolVars ==
    <<place, free, future, pending, counts, shown, display, online, latest>>

\* The awaits of dispatch_one: the semaphore, fail_one, the send, the two
\* broadcasts after it, the waiter, and the broadcast of a timeout.
Awaits == {"idle", "waiting", "failing", "sending", "announcing",
           "transferring", "timedout", "done"}

Holding == {"failing", "sending", "announcing", "transferring", "timedout"}

Counters(queued) ==
    [queued |-> queued, transferring |-> 0, transferred |-> 0, failed |-> 0]

Message(c, done) ==
    [queued |-> c.queued, transferring |-> c.transferring,
     transferred |-> c.transferred, failed |-> c.failed, done |-> done]

PoolInit ==
    /\ place = [t \in Dispatches |-> "idle"]
    /\ free = Slots
    /\ future = [t \in Dispatches |-> "none"]
    /\ pending = [k \in Keys |-> NoDispatch]
    /\ counts = [j \in Jobs |-> Counters(Cardinality(Of(j)))]
    /\ shown = [j \in Jobs |-> Message(Counters(Cardinality(Of(j))), FALSE)]
    /\ display = [k \in Keys |-> "none"]
    /\ online \in SUBSET Devices
    /\ latest = [k \in Keys |-> NoDispatch]

\* pending_transfers[key] = fut: a waiter replaces whatever is registered
\* under its key, which the adapter forgets without resolving it.
Registered(t) == [pending EXCEPT ![t.key] = t]

\* ... and is removed only if it is still the one registered.
Unregistered(t) == [pending EXCEPT ![t.key] = IF @ = t THEN NoDispatch ELSE @]

Show(k, status) == display' = [display EXCEPT ![k] = status]

-----------------------------------------------------------------------------
(* A job.                                                                  *)

\* INSTALL_APK or PUSH_FILES: the job is started for devices that are
\* eligible now; every target is announced as queued.
StartJob(j) ==
    /\ \A t \in Of(j) : place[t] = "idle" /\ t.key[1] \in online
    /\ place' = [t \in Dispatches |->
                    IF t.job = j THEN "waiting" ELSE place[t]]
    /\ display' = [k \in Keys |-> IF \E t \in Of(j) : t.key = k
                                     THEN "queued" ELSE display[k]]
    /\ UNCHANGED <<free, future, pending, counts, shown, online, latest>>

\* gather has collected every dispatch: the terminal progress message.
FinishJob(j) ==
    /\ \A t \in Of(j) : place[t] = "done"
    /\ ~shown[j].done
    /\ shown' = [shown EXCEPT ![j] = Message(counts[j], TRUE)]
    /\ UNCHANGED <<place, free, future, pending, counts, display, online, latest>>

-----------------------------------------------------------------------------
(* dispatch_one.                                                           *)

\* async with sem, up to the send or to the first broadcast of fail_one.
Acquire(t) ==
    /\ place[t] = "waiting"
    /\ free > 0
    /\ free' = free - 1
    /\ IF t.key[1] \in online
         THEN /\ place' = [place EXCEPT ![t] = "sending"]
              /\ counts' = [counts EXCEPT ![t.job].queued = @ - 1]
              /\ UNCHANGED display
         ELSE /\ place' = [place EXCEPT ![t] = "failing"]
              /\ counts' = [counts EXCEPT ![t.job].queued = @ - 1,
                                          ![t.job].failed = @ + 1]
              /\ Show(t.key, "fail")
    /\ UNCHANGED <<future, pending, shown, online, latest>>

\* The command left and the waiter is registered.
Sent(t) ==
    /\ place[t] = "sending"
    /\ place' = [place EXCEPT ![t] = "announcing"]
    /\ counts' = [counts EXCEPT ![t.job].transferring = @ + 1]
    /\ future' = [future EXCEPT ![t] = "pending"]
    /\ pending' = Registered(t)
    /\ latest' = [latest EXCEPT ![t.key] = t]
    /\ Show(t.key, "transferring")
    /\ UNCHANGED <<free, shown, online>>

\* Mutant: a failed send is not counted.
SendErrorUncounted(t) ==
    /\ place[t] = "sending"
    /\ place' = [place EXCEPT ![t] = "failing"]
    /\ Show(t.key, "fail")
    /\ UNCHANGED <<free, future, pending, counts, shown, online, latest>>

SendError(t) ==
    /\ place[t] = "sending"
    /\ place' = [place EXCEPT ![t] = "failing"]
    /\ counts' = [counts EXCEPT ![t.job].failed = @ + 1]
    /\ Show(t.key, "fail")
    /\ UNCHANGED <<free, future, pending, shown, online, latest>>

\* Mutant: the permit of a failed send is not given back.
FailedLeaking(t) ==
    /\ place[t] = "failing"
    /\ place' = [place EXCEPT ![t] = "done"]
    /\ shown' = [shown EXCEPT ![t.job] = Message(counts[t.job], FALSE)]
    /\ UNCHANGED <<free, future, pending, counts, display, online, latest>>

\* The second half of fail_one; leaving the async with frees the permit.
Failed(t) ==
    /\ place[t] = "failing"
    /\ place' = [place EXCEPT ![t] = "done"]
    /\ free' = free + 1
    /\ shown' = [shown EXCEPT ![t.job] = Message(counts[t.job], FALSE)]
    /\ UNCHANGED <<future, pending, counts, display, online, latest>>

\* broadcast_progress before the wait.
Announced(t) ==
    /\ place[t] = "announcing"
    /\ place' = [place EXCEPT ![t] = "transferring"]
    /\ shown' = [shown EXCEPT ![t.job] = Message(counts[t.job], FALSE)]
    /\ UNCHANGED <<free, future, pending, counts, display, online, latest>>

\* The finally block, the last broadcast and the end of the async with:
\* only the dispatch's own registration is removed.
Close(t, c) ==
    /\ place' = [place EXCEPT ![t] = "done"]
    /\ free' = free + 1
    /\ pending' = Unregistered(t)
    /\ counts' = [counts EXCEPT ![t.job] = c]
    /\ shown' = [shown EXCEPT ![t.job] = Message(c, FALSE)]

Transferred(t) ==
    /\ place[t] = "transferring"
    /\ future[t] = "resolved"
    /\ LET c == counts[t.job]
       IN  Close(t, [c EXCEPT !.transferred = @ + 1, !.transferring = @ - 1])
    /\ UNCHANGED <<future, display, online, latest>>

\* Mutant: only a device that is gone times out.
GaveUpGone(t) ==
    /\ place[t] = "transferring"
    /\ future[t] = "pending"
    /\ t.key[1] \notin online
    /\ place' = [place EXCEPT ![t] = "timedout"]
    /\ future' = [future EXCEPT ![t] = "cancelled"]
    /\ counts' = [counts EXCEPT ![t.job].failed = @ + 1]
    /\ Show(t.key, "fail")
    /\ UNCHANGED <<free, pending, shown, online, latest>>

\* wait_for gives up and cancels the future; the failure is announced
\* before the finally block runs.
GaveUp(t) ==
    /\ place[t] = "transferring"
    /\ future[t] = "pending"
    /\ place' = [place EXCEPT ![t] = "timedout"]
    /\ future' = [future EXCEPT ![t] = "cancelled"]
    /\ counts' = [counts EXCEPT ![t.job].failed = @ + 1]
    /\ Show(t.key, "fail")
    /\ UNCHANGED <<free, pending, shown, online, latest>>

WrittenOff(t) ==
    /\ place[t] = "timedout"
    /\ Close(t, [counts[t.job] EXCEPT !.transferring = @ - 1])
    /\ UNCHANGED <<future, display, online, latest>>

-----------------------------------------------------------------------------
(* The device.                                                             *)

\* release_transfer_slot for one key: only a live waiter is resolved.
Live(k) == pending[k] # NoDispatch /\ future[pending[k]] = "pending"

Release(ks) ==
    future' = [t \in Dispatches |->
                  IF t.key \in ks /\ pending[t.key] = t /\ future[t] = "pending"
                    THEN "resolved" ELSE future[t]]

\* Mutant: the row moves on whether or not a slot was released.
DownloadCompleteLate(k) ==
    /\ k[1] \in online
    /\ Release({k})
    /\ Show(k, "applying")
    /\ UNCHANGED <<place, free, pending, counts, shown, online, latest>>

\* DOWNLOAD_COMPLETE, possibly late or repeated: the row moves on to
\* installing (applying) only when a slot was really released.
DownloadComplete(k) ==
    /\ k[1] \in online
    /\ Live(k)
    /\ Release({k})
    /\ Show(k, "applying")
    /\ UNCHANGED <<place, free, pending, counts, shown, online, latest>>

\* INSTALL_RESULT or PUSH_FILES_RESULT: the fallback release; the result
\* itself is forwarded and becomes what the row shows.
ResultMessage(k) ==
    /\ k[1] \in online
    /\ Release({k})
    /\ Show(k, "result")
    /\ UNCHANGED <<place, free, pending, counts, shown, online, latest>>

\* The owning connection ends: every slot of the device is released.
Disconnect(d) ==
    /\ d \in online
    /\ online' = online \ {d}
    /\ Release({k \in Keys : k[1] = d})
    /\ UNCHANGED <<place, free, pending, counts, shown, display, latest>>

Reconnect(d) ==
    /\ d \notin online
    /\ online' = online \cup {d}
    /\ UNCHANGED <<place, free, future, pending, counts, shown, display, latest>>

-----------------------------------------------------------------------------

Step(t) ==
    \/ Acquire(t) \/ Sent(t) \/ SendError(t) \/ Failed(t) \/ Announced(t)
    \/ Transferred(t) \/ GaveUp(t) \/ WrittenOff(t)

PoolNext ==
    \/ \E j \in Jobs : StartJob(j) \/ FinishJob(j)
    \/ \E t \in Dispatches : Step(t)
    \/ \E k \in Keys : DownloadComplete(k) \/ ResultMessage(k)
    \/ \E d \in Devices : Disconnect(d) \/ Reconnect(d)

PoolSpec == PoolInit /\ [][PoolNext]_poolVars

\* Sends and broadcasts are bounded by timeouts, the waiter by wait_for, and
\* the event loop runs every ready coroutine.
FairPoolSpec ==
    /\ PoolSpec
    /\ \A t \in Dispatches : WF_poolVars(Step(t))
    /\ \A j \in Jobs : WF_poolVars(FinishJob(j))

-----------------------------------------------------------------------------

PoolTypes ==
    /\ place \in [Dispatches -> Awaits]
    /\ free \in 0 .. Slots
    /\ future \in [Dispatches -> {"none", "pending", "resolved", "cancelled"}]
    /\ pending \in [Keys -> Dispatches \cup {NoDispatch}]
    /\ counts \in [Jobs -> [queued : Int, transferring : Int,
                            transferred : Int, failed : Int]]
    /\ shown \in [Jobs -> [queued : Int, transferring : Int,
                           transferred : Int, failed : Int, done : BOOLEAN]]
    /\ display \in [Keys -> {"none", "queued", "transferring", "applying",
                              "fail", "result"}]
    /\ online \subseteq Devices
    /\ latest \in [Keys -> Dispatches \cup {NoDispatch}]

\* The cap is server-wide and every permit comes back exactly once: the
\* dispatches inside the async with and the free permits always add up.
SlotsConserved ==
    free + Cardinality({t \in Dispatches : place[t] \in Holding}) = Slots

\* The newest waiter of a device and task can be released as long as it
\* waits: an older dispatch that ends never removes it.
LatestReachable ==
    \A k \in Keys :
        latest[k] # NoDispatch /\ future[latest[k]] = "pending" =>
            pending[k] = latest[k]

\* The terminal message of a job accounts for every device, as transferred
\* or failed.
FinalCounts ==
    \A j \in Jobs : shown[j].done =>
        /\ shown[j].queued = 0 /\ shown[j].transferring = 0
        /\ shown[j].transferred + shown[j].failed = Cardinality(Of(j))

\* A late DOWNLOAD_COMPLETE does not bring back a device that every job has
\* written off: a row turns to installing only while some dispatch of that
\* device and task is still in its transfer.
NoResurrection ==
    [][\A k \in Keys : display'[k] = "applying" /\ display[k] # "applying" =>
            \E t \in Dispatches :
                /\ t.key = k
                /\ place[t] \in {"announcing", "transferring"}]_poolVars

\* Several devices transfer at once, and a device for an install and a push,
\* and each message frees only its own slot: a waiter is resolved by a message
\* of its own device and task, or by the disconnect.
OwnSlotOnly ==
    [][\A t \in Dispatches :
            future[t] = "pending" /\ future'[t] = "resolved" =>
                \/ t.key[1] \notin online'
                \/ display'[t.key] \in {"applying", "result"}]_poolVars

\* A silent, offline or stuck device does not block the queue: every started
\* job reaches its terminal message.
JobsFinish ==
    \A j \in Jobs :
        (\E t \in Of(j) : place[t] = "waiting") ~> shown[j].done

=============================================================================
