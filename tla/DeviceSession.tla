--------------------------- MODULE DeviceSession ---------------------------
(***************************************************************************)
(* The connections of one device (server.py device_ws_handler with the     *)
(* registration half of push_runtime.py), and what is pending on them: a   *)
(* self-update and a retire.  Every dictionary involved is keyed by        *)
(* device_id and the handlers of two devices touch different keys, so one  *)
(* device is modelled; what it may have several of is sockets, because the *)
(* server can hold the connection from before a reboot while the rebooted  *)
(* client registers again.  A handler is a coroutine: pc[s] names the      *)
(* await it is suspended at and each action runs from one await to the     *)
(* next.                                                                   *)
(***************************************************************************)
EXTENDS Naturals

CONSTANTS
    Sockets,        \* the WebSocket connections, each used once
    NoSocket,
    MaxAnnounced,   \* bound: announcements (self-updates and retires)
    MaxRestarts     \* bound: server restarts

ASSUME NoSocketAssumption == NoSocket \notin Sockets
ASSUME BoundsAssumption == MaxAnnounced \in Nat /\ MaxRestarts \in Nat

VARIABLES
    pc,          \* the await each socket's handler is suspended at
    held,        \* the pending entry _resolve_pending_self_update holds
    success,     \* ... and the outcome it computed from version_code
    owner,       \* devices[device_id]["ws"]
    ready,       \* devices[device_id]["registration_ready"]
    record,      \* device_registry[device_id]
    candidate,   \* registration_candidates[device_id]
    session,     \* sessions[device_id].ws
    lock,        \* the handler inside device_locks[device_id]
    update,      \* correlation id in pending_self_updates[device_id], or 0
    phase,       \* the "phase" of every entry object created so far
    timer,       \* its live "timeout_task"
    retire,      \* correlation id in pending_retires[device_id], or 0
    announced,   \* the last correlation id used
    restarts,
    newest       \* history: the socket of the last REGISTER

handlers == <<pc, held, success>>
directory == <<owner, ready, record>>
runtime == <<candidate, session, lock>>
pending == <<update, phase, timer, retire>>
history == <<announced, restarts, newest>>
vars == <<handlers, directory, runtime, pending, history>>

Ids == 1 .. MaxAnnounced

\* "lock", "store", "ack": the awaits of register_device.  "settle": it has
\* returned.  "retired", "settled", "verify": the awaits of the two
\* _resolve_pending functions.  "hash": SELF_UPDATE_STARTING is hashing.
\* "leave": disconnect_device.  "finally", "verified": the finally block.
Steps ==
    {"none", "open", "lock", "store", "ack", "settle", "retired", "settled",
     "verify", "hash", "loop", "leave", "finally", "verified", "closed"}

Init ==
    /\ pc = [s \in Sockets |-> "none"]
    /\ held = [s \in Sockets |-> 0]
    /\ success = [s \in Sockets |-> FALSE]
    /\ owner = NoSocket /\ ready = FALSE /\ record = "unknown"
    /\ candidate = NoSocket /\ session = NoSocket /\ lock = NoSocket
    /\ update = 0 /\ retire = 0
    /\ phase = [c \in Ids |-> "updating"]
    /\ timer = [c \in Ids |-> "none"]
    /\ announced = 0 /\ restarts = 0
    /\ newest = NoSocket

At(s, step) == pc[s] = step

Goto(s, step) == pc' = [pc EXCEPT ![s] = step]

Resume(s, step) == Goto(s, step) /\ UNCHANGED <<held, success>>

-----------------------------------------------------------------------------
(* Registration.                                                           *)

Connect(s) ==
    /\ At(s, "none")
    /\ Resume(s, "open")
    /\ UNCHANGED <<directory, runtime, pending, history>>

\* REGISTER up to the first await: the newest REGISTER takes the devices
\* entry, the registry record is rewritten without its retired flag, and
\* the socket is noted as the candidate for the Push session.
Register(s) ==
    /\ At(s, "open")
    /\ Resume(s, "lock")
    /\ owner' = s /\ ready' = FALSE /\ record' = "known"
    /\ candidate' = s
    /\ newest' = s
    /\ UNCHANGED <<session, lock, pending, announced, restarts>>

StillNewest(s) == candidate = s /\ owner = s

\* register_device once it has the device lock: a session of another socket
\* is dropped before the store is asked about the active assignment.
EnterLock(s) ==
    /\ At(s, "lock")
    /\ lock = NoSocket
    /\ IF StillNewest(s)
         THEN /\ Resume(s, "store")
              /\ lock' = s
              /\ session' = IF session = s THEN s ELSE NoSocket
         ELSE /\ Resume(s, "settle")
              /\ UNCHANGED <<lock, session>>
    /\ UNCHANGED <<directory, candidate, pending, history>>

\* After the store awaits, still inside the lock: the session is installed
\* only if no newer REGISTER arrived meanwhile.
StoreAnswered(s) ==
    /\ At(s, "store")
    /\ IF StillNewest(s)
         THEN Resume(s, "ack") /\ session' = s /\ UNCHANGED lock
         ELSE Resume(s, "settle") /\ lock' = NoSocket /\ UNCHANGED session
    /\ UNCHANGED <<directory, candidate, pending, history>>

Acknowledged(s) ==
    /\ At(s, "ack")
    /\ Resume(s, "settle")
    /\ lock' = NoSocket
    /\ ready' = (ready \/ owner = s)
    /\ candidate' = IF StillNewest(s) THEN NoSocket ELSE candidate
    /\ UNCHANGED <<owner, record, session, pending, history>>

\* The bounded send of REGISTERED raised: the exception leaves the handler.
AckFailed(s) ==
    /\ At(s, "ack")
    /\ Resume(s, "finally")
    /\ lock' = NoSocket
    /\ session' = IF session = s THEN NoSocket ELSE session
    /\ UNCHANGED <<directory, candidate, pending, history>>

-----------------------------------------------------------------------------
(* Settling what was pending, when the device is back.                     *)

\* _resolve_pending_self_update up to its first await: an entry in phase
\* "updating" loses its timer and its result is reported.
ResolveUpdate(s) ==
    /\ IF update # 0 /\ phase[update] = "updating"
         THEN /\ Goto(s, "settled")
              /\ held' = [held EXCEPT ![s] = update]
              /\ success' \in {[success EXCEPT ![s] = b] : b \in BOOLEAN}
              /\ timer' = [timer EXCEPT ![update] = "none"]
         ELSE /\ Resume(s, "loop")
              /\ UNCHANGED timer
    /\ UNCHANGED <<update, phase>>

\* Back in the REGISTER branch: a socket that lost the device goes back to
\* its loop, an owner first fails the retire it disproves.
Settle(s) ==
    /\ At(s, "settle")
    /\ IF owner # s
         THEN Resume(s, "loop") /\ UNCHANGED pending
         ELSE IF retire # 0
           THEN /\ Resume(s, "retired")
                /\ retire' = 0
                /\ UNCHANGED <<update, phase, timer>>
           ELSE ResolveUpdate(s) /\ UNCHANGED retire
    /\ UNCHANGED <<directory, runtime, history>>

RetireReported(s) ==
    /\ At(s, "retired")
    /\ ResolveUpdate(s)
    /\ UNCHANGED <<directory, runtime, retire, history>>

\* del pending_self_updates[device_id]: a KeyError when the entry is gone.
DropUpdate(s) ==
    /\ Resume(s, IF update = 0 THEN "finally" ELSE "loop")
    /\ update' = 0

\* After the two broadcasts: a failed update is dropped, a successful one
\* is verified when there are reference hashes and the device may be
\* commanded, else dropped as "skipped".
ResultReported(s) ==
    /\ At(s, "settled")
    /\ \/ /\ success[s] /\ ready
          /\ Resume(s, "verify")
          /\ phase' = [phase EXCEPT ![held[s]] = "verifying"]
          /\ timer' = [timer EXCEPT ![held[s]] = "none"]
          /\ UNCHANGED update
       \/ DropUpdate(s) /\ UNCHANGED <<phase, timer>>
    /\ UNCHANGED <<directory, runtime, retire, history>>

\* Mutant: the answer gets no deadline.
VerifySentUnbounded(s) ==
    /\ At(s, "verify")
    /\ owner = s /\ session = s /\ ready
    /\ Resume(s, "loop")
    /\ UNCHANGED <<directory, runtime, pending, history>>

\* EXECUTE_VERIFY_APK is on the wire (RuntimeWebSocketResponse.send_str lets
\* only the ready owner through): the answer gets a deadline.
VerifySent(s) ==
    /\ At(s, "verify")
    /\ owner = s /\ session = s /\ ready
    /\ Resume(s, "loop")
    /\ timer' = [timer EXCEPT ![held[s]] = "verify"]
    /\ UNCHANGED <<directory, runtime, update, phase, retire, history>>

VerifyNotSent(s) ==
    /\ At(s, "verify")
    /\ DropUpdate(s)
    /\ UNCHANGED <<directory, runtime, phase, timer, retire, history>>

-----------------------------------------------------------------------------
(* Messages of the owner; the guard above the dispatch chain drops every   *)
(* frame but REGISTER from a socket that lost the device.                  *)

Receives(s) == At(s, "loop") /\ owner = s

CancelTimer ==
    timer' = IF update = 0 THEN timer ELSE [timer EXCEPT ![update] = "none"]

\* SELF_UPDATE_STARTING with a dispatch record: the hashes are known, so the
\* entry and its timer replace the previous ones at once.
SelfUpdateStarting(s) ==
    /\ Receives(s)
    /\ announced < MaxAnnounced
    /\ announced' = announced + 1
    /\ update' = announced + 1
    /\ timer' = [c \in Ids |-> IF c = announced + 1 THEN "update"
                              ELSE IF c = update THEN "none" ELSE timer[c]]
    /\ UNCHANGED <<handlers, directory, runtime, phase, retire, restarts,
                   newest>>

\* Without one (the server restarted since) the file is hashed first; the
\* timer of the previous entry is cancelled before that await.
SelfUpdateHashing(s) ==
    /\ Receives(s)
    /\ announced < MaxAnnounced
    /\ announced' = announced + 1
    /\ Goto(s, "hash")
    /\ held' = [held EXCEPT ![s] = announced + 1]
    /\ CancelTimer
    /\ UNCHANGED <<success, directory, runtime, update, phase, retire, restarts,
                   newest>>

SelfUpdateHashed(s) ==
    /\ At(s, "hash")
    /\ Resume(s, "loop")
    /\ update' = held[s]
    /\ timer' = [timer EXCEPT ![held[s]] = "update"]
    /\ UNCHANGED <<directory, runtime, phase, retire, history>>

\* INSTALL_RESULT while "updating": the install failed on the device.
InstallResult(s) ==
    /\ Receives(s)
    /\ update # 0 /\ phase[update] = "updating"
    /\ update' = 0
    /\ CancelTimer
    /\ UNCHANGED <<handlers, directory, runtime, phase, retire, history>>

\* VERIFY_APK_RESULT for the pending verification is consumed.
VerifyResult(s) ==
    /\ Receives(s)
    /\ update # 0 /\ phase[update] = "verifying"
    /\ update' = 0
    /\ CancelTimer
    /\ UNCHANGED <<handlers, directory, runtime, phase, retire, history>>

\* SELF_UNINSTALL_STARTING replaces a pending retire and drops a pending
\* self-update, whatever its phase.
SelfUninstallStarting(s) ==
    /\ Receives(s)
    /\ announced < MaxAnnounced
    /\ announced' = announced + 1
    /\ retire' = announced + 1
    /\ update' = 0
    /\ CancelTimer
    /\ UNCHANGED <<handlers, directory, runtime, phase, restarts, newest>>

SelfUninstallResult(s) ==
    /\ Receives(s)
    /\ retire # 0
    /\ retire' = 0
    /\ UNCHANGED <<handlers, directory, runtime, update, phase, timer, history>>

-----------------------------------------------------------------------------
(* Timers and the admin.                                                   *)

\* _self_update_timeout and _self_update_verify_timeout: the entry must
\* still be the one they were started for, in the phase they bound.
UpdateTimeout(c) ==
    /\ timer[c] # "none"
    /\ timer' = [timer EXCEPT ![c] = "none"]
    /\ LET current == /\ update = c
                      /\ phase[c] = IF timer[c] = "update" THEN "updating"
                                                           ELSE "verifying"
       IN  update' = IF current THEN 0 ELSE update
    /\ UNCHANGED <<handlers, directory, runtime, phase, retire, history>>

\* Mutant: the live connection is not looked at.
RetireTimeoutConnected ==
    /\ retire # 0
    /\ retire' = 0
    /\ record' = IF record = "known" THEN "retired" ELSE record
    /\ UNCHANGED <<handlers, owner, ready, runtime, update, phase, timer,
                   history>>

\* Mutant: a device still connected keeps the deadline waiting.
RetireTimeoutAway ==
    /\ retire # 0
    /\ owner = NoSocket
    /\ retire' = 0
    /\ record' = IF record = "known" THEN "retired" ELSE record
    /\ UNCHANGED <<handlers, owner, ready, runtime, update, phase, timer,
                   history>>

\* _retire_timeout: a device still (or again) connected failed to retire, a
\* device that is away is flagged, unless its record was forgotten.  A timer
\* whose entry was replaced finds another correlation id and does nothing.
RetireTimeout ==
    /\ retire # 0
    /\ retire' = 0
    /\ record' = IF owner = NoSocket /\ record = "known" THEN "retired"
                                                         ELSE record
    /\ UNCHANGED <<handlers, owner, ready, runtime, update, phase, timer,
                   history>>

\* FORGET_DEVICE is refused for a connected device and withdraws a retire.
Forget ==
    /\ owner = NoSocket
    /\ record # "unknown"
    /\ record' = "unknown"
    /\ retire' = 0
    /\ UNCHANGED <<handlers, owner, ready, runtime, update, phase, timer,
                   history>>

-----------------------------------------------------------------------------
(* A socket ends.                                                          *)

\* The receive loop ends.  aiohttp calls ws.close(), and with it
\* disconnect_device, when it reads a close frame or end of stream; when the
\* heartbeat fails it only stops the iteration.
Drop(s) ==
    /\ pc[s] \in {"open", "loop"}
    /\ \/ At(s, "loop") /\ Resume(s, "leave")
       \/ Resume(s, "finally")
    /\ UNCHANGED <<directory, runtime, pending, history>>

\* disconnect_device, under the device lock.
Leave(s) ==
    /\ At(s, "leave")
    /\ lock = NoSocket
    /\ Resume(s, "finally")
    /\ candidate' = IF candidate = s THEN NoSocket ELSE candidate
    /\ session' = IF session = s THEN NoSocket ELSE session
    /\ ready' = (ready /\ ~(session = s /\ owner = s))
    /\ UNCHANGED <<owner, record, lock, pending, history>>

\* The finally block of the owner: a verification that can no longer be
\* answered is reported first, and the registration deleted after that
\* await; otherwise it is deleted at once.
Finally(s) ==
    /\ At(s, "finally")
    /\ IF owner = s /\ update # 0 /\ phase[update] = "verifying"
         THEN /\ Resume(s, "verified")
              /\ update' = 0
              /\ CancelTimer
              /\ UNCHANGED <<owner, ready>>
         ELSE /\ Resume(s, "closed")
              /\ owner' = IF owner = s THEN NoSocket ELSE owner
              /\ ready' = (ready /\ owner # s)
              /\ UNCHANGED <<update, timer>>
    /\ UNCHANGED <<record, runtime, phase, retire, history>>

\* del devices[device_id], after the await.
FinallyVerified(s) ==
    /\ At(s, "verified")
    /\ Resume(s, "closed")
    /\ owner' = NoSocket /\ ready' = FALSE
    /\ UNCHANGED <<record, runtime, pending, history>>

\* The server process restarts: only the registry file survives.
Restart ==
    /\ restarts < MaxRestarts
    /\ restarts' = restarts + 1
    /\ pc' = [s \in Sockets |-> IF At(s, "none") THEN "none" ELSE "closed"]
    /\ owner' = NoSocket /\ ready' = FALSE
    /\ candidate' = NoSocket /\ session' = NoSocket /\ lock' = NoSocket
    /\ update' = 0 /\ retire' = 0
    /\ timer' = [c \in Ids |-> "none"]
    /\ UNCHANGED <<held, success, record, phase, announced, newest>>

-----------------------------------------------------------------------------

\* What the server does once it has the processor: its awaits are bounded
\* (send and admin timeouts, store calls) and its timers fire.
Handler(s) ==
    \/ EnterLock(s) \/ StoreAnswered(s) \/ Acknowledged(s) \/ AckFailed(s)
    \/ Settle(s) \/ RetireReported(s) \/ ResultReported(s)
    \/ VerifySent(s) \/ VerifyNotSent(s) \/ SelfUpdateHashed(s)
    \/ Leave(s) \/ Finally(s) \/ FinallyVerified(s)

Timers == RetireTimeout \/ \E c \in Ids : UpdateTimeout(c)

\* What the device, the network and the admin may do at any time.
Outside(s) ==
    \/ Connect(s) \/ Register(s) \/ Drop(s)
    \/ SelfUpdateStarting(s) \/ SelfUpdateHashing(s) \/ InstallResult(s)
    \/ VerifyResult(s) \/ SelfUninstallStarting(s) \/ SelfUninstallResult(s)

Next ==
    \/ \E s \in Sockets : Handler(s) \/ Outside(s)
    \/ Timers \/ Forget \/ Restart

Spec == Init /\ [][Next]_vars

FairSpec ==
    /\ Spec
    /\ \A s \in Sockets : WF_vars(Handler(s))
    /\ WF_vars(RetireTimeout)
    /\ \A c \in Ids : WF_vars(UpdateTimeout(c))

-----------------------------------------------------------------------------

TypeOK ==
    /\ pc \in [Sockets -> Steps]
    /\ held \in [Sockets -> Ids \cup {0}]
    /\ success \in [Sockets -> BOOLEAN]
    /\ {owner, candidate, session, lock} \subseteq Sockets \cup {NoSocket}
    /\ ready \in BOOLEAN
    /\ record \in {"unknown", "known", "retired"}
    /\ {update, retire, announced} \subseteq Ids \cup {0}
    /\ phase \in [Ids -> {"updating", "verifying"}]
    /\ timer \in [Ids -> {"none", "update", "verify"}]
    /\ restarts \in 0 .. MaxRestarts
    /\ newest \in Sockets \cup {NoSocket}

\* A connected device is listed in the registry and not flagged retired:
\* the retire deadline looks at the live connection, and forgetting is
\* refused while there is one.
ConnectedIsListed == owner # NoSocket => record = "known"

\* registration_ready, which lets commands through to a device, is true only
\* while the Push session and the devices entry name the same socket.
ReadyHasSession == ready => owner # NoSocket /\ session = owner

\* Every pending self-update has someone who will settle it: its own live
\* timer, or a handler between the cancellation of that timer and its
\* replacement.
UpdateIsWatched ==
    update # 0 =>
        \/ timer[update] # "none"
        \/ \E s \in Sockets :
              \/ pc[s] \in {"settled", "verify"} /\ held[s] = update
              \/ At(s, "hash")

\* A pending self-update or retire does not stay pending: the row never
\* shows "updating" or "retiring" for ever.
PendingSettles ==
    \A c \in Ids : /\ (update = c ~> update # c)
                   /\ (retire = c ~> retire # c)

\* The newest REGISTER owns the device until its own handler ends: no other
\* socket's teardown deletes its registration.
NewestOwns ==
    newest # NoSocket /\ pc[newest] \in
        {"lock", "store", "ack", "settle", "retired", "settled", "verify",
         "hash", "loop"} => owner = newest

=============================================================================
