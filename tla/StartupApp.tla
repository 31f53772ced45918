----------------------------- MODULE StartupApp -----------------------------
(***************************************************************************)
(* The startup app of one device and the remote uninstall that competes    *)
(* for it: the server's record (server.py: SET_STARTUP_APP,                *)
(* CLEAR_STARTUP_APP, DELETE_APP and its result, REGISTER) and the client  *)
(* (MdmClientService.kt), where the WebSocket reader thread, one worker    *)
(* thread per uninstall and the callbacks of the system service share the  *)
(* stored setting.  The setting's "extra" is left out.                     *)
(***************************************************************************)
EXTENDS Integers, Sequences, FiniteSets

CONSTANTS
    Apps,           \* content apps an operator can choose or uninstall
    NoApp,
    MaxChanges,     \* bound on SET_STARTUP_APP and CLEAR_STARTUP_APP
    MaxUninstalls,  \* bound on DELETE_APP
    MaxReconnects   \* bound on connection losses

ASSUME NoAppAssumption == NoApp \notin Apps
ASSUME StartupBoundsAssumption ==
    MaxChanges \in Nat /\ MaxUninstalls \in Nat /\ MaxReconnects \in Nat

Ops == 1 .. MaxUninstalls               \* values of uninstallOpSeq
Agents == Ops \X {"worker", "callback"}
Settings == Apps \cup {NoApp}

VARIABLES
    entry,      \* startup_app of the live entry in devices
    record,     \* startup_app of the registry record
    linked,     \* the registered socket is alive
    writes,     \* handlers between their send and their update of the record
    down,       \* commands on their way to the device
    replies,    \* messages on their way to the server
    prefs,      \* the setting stored on the device
    installed,  \* packages installed on the device
    inFlight,   \* uninstallsInFlight: the op that owns a package, 0 for none
    package,    \* the package of each op
    cleared,    \* clearedStartup of each op
    pc,         \* where each worker thread and each callback is
    status,     \* the outcome an agent is about to report
    answers,    \* how many DELETE_APP_RESULTs were sent for each op
    ops, changes, uninstalls, reconnects

server == <<entry, record, linked, writes>>
client == <<prefs, installed, inFlight, package, cleared, pc, status, answers,
            ops>>
startupBounds == <<changes, uninstalls, reconnects>>
startupVars == <<server, down, replies, client, startupBounds>>

StartupInit ==
    /\ prefs \in Settings
    /\ entry = prefs
    /\ record = prefs
    /\ linked = TRUE
    /\ writes = {}
    /\ down = <<>>
    /\ replies = <<>>
    /\ installed = Apps
    /\ inFlight = [a \in Apps |-> 0]
    /\ package = [o \in Ops |-> NoApp]
    /\ cleared = [o \in Ops |-> NoApp]
    /\ pc = [g \in Agents |-> "none"]
    /\ status = [g \in Agents |-> "none"]
    /\ answers = [o \in Ops |-> 0]
    /\ ops = 0
    /\ changes = 0
    /\ uninstalls = 0
    /\ reconnects = 0

-----------------------------------------------------------------------------
(* The server.                                                             *)

\* A command on a dead socket that the server has not noticed goes nowhere.
Transmit(command) == down' = IF linked THEN Append(down, command) ELSE down

\* handle_set_startup_app (app in Apps) and handle_clear_startup_app (NoApp),
\* up to the send; the handler keeps the entry it looked up.
ChangeStartupApp(app) ==
    /\ changes < MaxChanges
    /\ changes' = changes + 1
    /\ Transmit([type |-> "set", app |-> app])
    /\ writes' = writes \cup {[id |-> changes, app |-> app, fresh |-> TRUE]}
    /\ UNCHANGED <<entry, record, linked, replies, client, uninstalls,
                   reconnects>>

\* The rest of the handler: the entry may have been replaced by then, the
\* record is looked up anew.
StartupAppSent(w) ==
    /\ writes' = writes \ {w}
    /\ entry' = IF w.fresh THEN w.app ELSE entry
    /\ record' = w.app
    /\ UNCHANGED <<linked, down, replies, client, startupBounds>>

\* The send fails: nothing is recorded.
StartupAppNotSent(w) ==
    /\ ~linked \/ ~w.fresh
    /\ writes' = writes \ {w}
    /\ UNCHANGED <<entry, record, linked, down, replies, client,
                   startupBounds>>

\* handle_delete_app.
DeleteApp(app) ==
    /\ uninstalls < MaxUninstalls
    /\ uninstalls' = uninstalls + 1
    /\ Transmit([type |-> "uninstall", app |-> app])
    /\ UNCHANGED <<server, replies, client, changes, reconnects>>

FromDevice(type) ==
    replies # <<>> /\ Head(replies).type = type /\ replies' = Tail(replies)

\* DELETE_APP_RESULT: only a successful uninstall of the recorded app
\* clears the record.
DeleteAppResult ==
    /\ FromDevice("result")
    /\ linked
    /\ LET clear == /\ Head(replies).status = "success"
                    /\ entry = Head(replies).app
       IN  /\ entry' = IF clear THEN NoApp ELSE entry
           /\ record' = IF clear THEN NoApp ELSE record
    /\ UNCHANGED <<linked, writes, down, client, startupBounds>>

\* REGISTER replaces the entry and the record with what the device reported.
Register ==
    /\ FromDevice("register")
    /\ entry' = Head(replies).app
    /\ record' = Head(replies).app
    /\ linked' = TRUE
    /\ writes' = {[w EXCEPT !.fresh = FALSE] : w \in writes}
    /\ UNCHANGED <<down, client, startupBounds>>

\* The connection is lost with everything on it; the device comes back and
\* reports the setting it has stored now.
Reconnect ==
    /\ reconnects < MaxReconnects
    /\ reconnects' = reconnects + 1
    /\ linked' = FALSE
    /\ down' = <<>>
    /\ replies' = <<[type |-> "register", app |-> prefs]>>
    /\ UNCHANGED <<entry, record, writes, client, changes, uninstalls>>

-----------------------------------------------------------------------------
(* The client's reader thread.                                             *)

FromServer(type) ==
    down # <<>> /\ Head(down).type = type /\ down' = Tail(down)

Report(op, app, result) ==
    /\ replies' = Append(replies, [type |-> "result", app |-> app,
                                   status |-> result])
    /\ answers' = [answers EXCEPT ![op] = @ + 1]

\* handleSetStartupApp and handleClearStartupApp.
HandleStartupApp ==
    /\ FromServer("set")
    /\ prefs' = Head(down).app
    /\ UNCHANGED <<server, replies, installed, inFlight, package, cleared, pc,
                   status, answers, ops, startupBounds>>

\* executeUninstall on the reader thread: claim the package and start the
\* worker, or report a duplicate as failed.  There are no more ops than
\* DELETE_APPs.
ExecuteUninstall ==
    /\ FromServer("uninstall")
    /\ ops < MaxUninstalls
    /\ ops' = ops + 1
    /\ LET app == Head(down).app
       IN  /\ package' = [package EXCEPT ![ops'] = app]
           /\ IF inFlight[app] = 0
                THEN /\ inFlight' = [inFlight EXCEPT ![app] = ops']
                     /\ pc' = [pc EXCEPT ![<<ops', "worker">>] = "start"]
                     /\ UNCHANGED <<replies, answers>>
                ELSE /\ Report(ops', app, "fail")
                     /\ UNCHANGED <<inFlight, pc>>
    /\ UNCHANGED <<server, prefs, installed, cleared, status, startupBounds>>

-----------------------------------------------------------------------------
(* The worker thread of an uninstall.                                      *)

Goto(g, step) == pc' = [pc EXCEPT ![g] = step]
Conclude(g, step, result) ==
    /\ pc' = [pc EXCEPT ![g] = step]
    /\ status' = [status EXCEPT ![g] = result]

OnClient == UNCHANGED <<server, down, startupBounds, package, ops>>

\* The package is not installed, or the system service is not there.
Refused(op) ==
    /\ pc[<<op, "worker">>] = "start"
    /\ Conclude(<<op, "worker">>, "finish", "fail")
    /\ OnClient
    /\ UNCHANGED <<replies, prefs, installed, inFlight, cleared, answers>>

\* getStartupAppConfig, compared with the package to remove.
ReadStartupApp(op) ==
    /\ pc[<<op, "worker">>] = "start"
    /\ package[op] \in installed
    /\ Goto(<<op, "worker">>, IF prefs = package[op] THEN "clear" ELSE "call")
    /\ OnClient
    /\ UNCHANGED <<replies, prefs, installed, inFlight, cleared, status,
                   answers>>

ClearStartupApp(op) ==
    /\ pc[<<op, "worker">>] = "clear"
    /\ prefs' = NoApp
    /\ cleared' = [cleared EXCEPT ![op] = package[op]]
    /\ Goto(<<op, "worker">>, "call")
    /\ OnClient
    /\ UNCHANGED <<replies, installed, inFlight, status, answers>>

\* pbsControlAPPManger takes the uninstall on ...
CallService(op) ==
    /\ pc[<<op, "worker">>] = "call"
    /\ pc' = [pc EXCEPT ![<<op, "worker">>] = "waiting",
                        ![<<op, "callback">>] = "running"]
    /\ OnClient
    /\ UNCHANGED <<replies, prefs, installed, inFlight, cleared, status,
                   answers>>

\* ... or throws.
CallThrows(op) ==
    /\ pc[<<op, "worker">>] = "call"
    /\ Conclude(<<op, "worker">>, "restore", "fail")
    /\ OnClient
    /\ UNCHANGED <<replies, prefs, installed, inFlight, cleared, answers>>

\* The system removes the package or fails; its callback may come late, or
\* never.
ServiceUninstalls(op, result) ==
    /\ pc[<<op, "callback">>] = "running"
    /\ Conclude(<<op, "callback">>, "called", result)
    /\ installed' = IF result = "success" THEN installed \ {package[op]}
                    ELSE installed
    /\ OnClient
    /\ UNCHANGED <<replies, prefs, inFlight, cleared, answers>>

\* Mutant: a package that is gone is left to the callback to report.
CallbackTimeoutSilent(op) ==
    /\ pc[<<op, "worker">>] = "waiting"
    /\ pc[<<op, "callback">>] \in {"running", "called"}
    /\ IF package[op] \in installed
         THEN Conclude(<<op, "worker">>, "restore", "fail")
         ELSE Conclude(<<op, "worker">>, "done", "success")
    /\ OnClient
    /\ UNCHANGED <<replies, prefs, installed, inFlight, cleared, answers>>

\* done.await runs out before countDown: the package list decides.
CallbackTimeout(op) ==
    /\ pc[<<op, "worker">>] = "waiting"
    /\ pc[<<op, "callback">>] \in {"running", "called"}
    /\ IF package[op] \in installed
         THEN Conclude(<<op, "worker">>, "restore", "fail")
         ELSE Conclude(<<op, "worker">>, "finish", "success")
    /\ OnClient
    /\ UNCHANGED <<replies, prefs, installed, inFlight, cleared, answers>>

\* The callback counts down and asks whether its attempt still owns the
\* package.
UninstallCallback(op) ==
    LET g == <<op, "callback">>
    IN  /\ pc[g] = "called"
        /\ pc' = [pc EXCEPT
             ![<<op, "worker">>] = IF @ = "waiting" THEN "done" ELSE @,
             ![g] = CASE inFlight[package[op]] # op -> "done"
                      [] status[g] = "success" -> "finish"
                      [] OTHER -> "restore"]
        /\ OnClient
        /\ UNCHANGED <<replies, prefs, installed, inFlight, cleared, status,
                       answers>>

\* restoreStartupApp, the check: only if nothing is set now ...
RestoreChecks(g) ==
    /\ pc[g] = "restore"
    /\ Goto(g, IF cleared[g[1]] # NoApp /\ prefs = NoApp
                 THEN "write" ELSE "finish")
    /\ OnClient
    /\ UNCHANGED <<replies, prefs, installed, inFlight, cleared, status,
                   answers>>

\* ... and the write.
RestoreWrites(g) ==
    /\ pc[g] = "write"
    /\ prefs' = cleared[g[1]]
    /\ Goto(g, "finish")
    /\ OnClient
    /\ UNCHANGED <<replies, installed, inFlight, cleared, status, answers>>

\* Mutant: every agent reports.
FinishUninstallAlways(g) ==
    LET app == package[g[1]]
    IN  /\ pc[g] = "finish"
        /\ Goto(g, "done")
        /\ inFlight' = [inFlight EXCEPT ![app] = IF @ = g[1] THEN 0 ELSE @]
        /\ Report(g[1], app, status[g])
        /\ OnClient
        /\ UNCHANGED <<prefs, installed, cleared, status>>

\* Mutant: the claim is removed whoever owns it.
FinishUninstallUnowned(g) ==
    LET app == package[g[1]]
    IN  /\ pc[g] = "finish"
        /\ Goto(g, "done")
        /\ inFlight' = [inFlight EXCEPT ![app] = 0]
        /\ IF inFlight[app] = g[1]
             THEN Report(g[1], app, status[g])
             ELSE UNCHANGED <<replies, answers>>
        /\ OnClient
        /\ UNCHANGED <<prefs, installed, cleared, status>>

\* finishUninstall: report once, and only for the attempt that still owns
\* the package.
FinishUninstall(g) ==
    LET app == package[g[1]]
    IN  /\ pc[g] = "finish"
        /\ Goto(g, "done")
        /\ IF inFlight[app] = g[1]
             THEN /\ inFlight' = [inFlight EXCEPT ![app] = 0]
                  /\ Report(g[1], app, status[g])
             ELSE UNCHANGED <<inFlight, replies, answers>>
        /\ OnClient
        /\ UNCHANGED <<prefs, installed, cleared, status>>

-----------------------------------------------------------------------------

UninstallWorker(op) ==
    \/ Refused(op) \/ ReadStartupApp(op) \/ ClearStartupApp(op)
    \/ CallService(op) \/ CallThrows(op) \/ CallbackTimeout(op)

Agent(g) == RestoreChecks(g) \/ RestoreWrites(g) \/ FinishUninstall(g)

Reader == HandleStartupApp \/ ExecuteUninstall

StartupNext ==
    \/ \E app \in Settings : ChangeStartupApp(app)
    \/ \E app \in Apps : DeleteApp(app)
    \/ \E w \in writes : StartupAppSent(w) \/ StartupAppNotSent(w)
    \/ DeleteAppResult \/ Register \/ Reconnect
    \/ Reader
    \/ \E op \in Ops : UninstallWorker(op) \/ UninstallCallback(op)
    \/ \E op \in Ops, result \in {"success", "fail"} :
           ServiceUninstalls(op, result)
    \/ \E g \in Agents : Agent(g)

StartupSpec == StartupInit /\ [][StartupNext]_startupVars

\* Threads run; the worker's wait is bounded.  The system service and its
\* callback owe nothing.
FairStartupSpec ==
    /\ StartupSpec
    /\ WF_startupVars(Reader)
    /\ \A op \in Ops : WF_startupVars(UninstallWorker(op))
    /\ \A g \in Agents : WF_startupVars(Agent(g))

-----------------------------------------------------------------------------

StartupCommands ==
    [type : {"set"}, app : Settings] \cup [type : {"uninstall"}, app : Apps]
StartupMessages ==
    [type : {"register"}, app : Settings] \cup
    [type : {"result"}, app : Apps, status : {"success", "fail"}]

AgentSteps == {"none", "start", "clear", "call", "waiting", "running",
               "called", "restore", "write", "finish", "done"}

StartupTypes ==
    /\ entry \in Settings /\ record \in Settings
    /\ linked \in BOOLEAN
    /\ writes \subseteq [id : 0 .. MaxChanges, app : Settings, fresh : BOOLEAN]
    /\ down \in Seq(StartupCommands) /\ replies \in Seq(StartupMessages)
    /\ prefs \in Settings
    /\ installed \subseteq Apps
    /\ inFlight \in [Apps -> 0 .. MaxUninstalls]
    /\ package \in [Ops -> Settings]
    /\ cleared \in [Ops -> Settings]
    /\ pc \in [Agents -> AgentSteps]
    /\ status \in [Agents -> {"none", "success", "fail"}]
    /\ answers \in [Ops -> Nat]
    /\ ops \in 0 .. MaxUninstalls
    /\ changes \in 0 .. MaxChanges
    /\ uninstalls \in 0 .. MaxUninstalls
    /\ reconnects \in 0 .. MaxReconnects

\* One DELETE_APP_RESULT per EXECUTE_UNINSTALL, although the worker's timeout
\* and the callback may both be about to report it.
OneResult == \A op \in Ops : answers[op] <= 1

\* A package is freed for the next attempt only by the attempt that owns it,
\* together with its result: a late callback of an attempt that timed out
\* cannot free the claim of the retry.
OwnerReleases ==
    [][\A a \in Apps : inFlight[a] # 0 /\ inFlight'[a] # inFlight[a] =>
            answers'[inFlight[a]] = answers[inFlight[a]] + 1]_startupVars

\* Every EXECUTE_UNINSTALL the device has received is answered, whether or
\* not the system ever calls back.
EveryUninstallAnswered ==
    \A op \in Ops : ops >= op ~> answers[op] >= 1

=============================================================================
